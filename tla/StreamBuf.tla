------------------------------ MODULE StreamBuf ------------------------------
(* lib/audio/streambuf.c: compressed audio and inline commands in one fifo2. *)
(* The ring is taken as the ByteStream that Fifo2 is proved to implement.    *)
(* Which bytes are commands is not in the ring: it is kept in counters, one  *)
(* slot for the data between two commands, once for the unread bytes         *)
(* (slot_cnt, dslot) and once for the undiscarded ones (slot_cnt_stale,      *)
(* sslot); eslot is the slot being written.                                  *)
(*                                                                           *)
(* The callers are part of the model.  The player (player_local.c) begins a  *)
(* track, feeds it, ends it and flushes, one call at a time under its lock.  *)
(* The decode thread (audio.c) handles its message queue until it is empty,  *)
(* then looks for a command, dequeues it, discards its bytes and queues it   *)
(* as a message, or else lets the decoder read and discard.  Every streambuf *)
(* call takes the fifo's lock, so that each call is one step and the two     *)
(* threads interleave between calls.                                         *)
EXTENDS ByteStream, FiniteSetsExt, SequencesExt

CONSTANTS MAX_STREAM_CMDS,
          Reserve,  \* free bytes the distributor leaves for commands
          StopMax   \* bound on the messages queued when the player is stopped

ASSUME StreamBufAssumption ==
  /\ MAX_STREAM_CMDS \in Nat /\ MAX_STREAM_CMDS >= 1
  /\ Capacity \in Nat /\ Reserve \in Nat /\ StopMax \in Nat

VARIABLES slot_cnt, slot_cnt_stale, cmd_cnt, cmd_cnt_stale, eslot, dslot, sslot,
          streaming,      \* streambuf_streaming
          decode_state,   \* the flags of current_decoder_state, see below
          decode_mqueue,  \* the messages the decode thread has not handled
          player,         \* where the player is in its call
          open,           \* is a track open
          decode,         \* where the decode thread is, and with which command
          got,            \* the caller's buffer after the last dequeue
          track,          \* marks the bytes of successive tracks
          halted,         \* "exit", "assert" after these, "spin" in an endless loop
          lapped,         \* history: more commands were unread than slots can part
          gone,           \* history: the command the decode thread has seen was flushed
          torn            \* history: and the thread then dequeued another one for it

counters == <<slot_cnt, slot_cnt_stale, cmd_cnt, cmd_cnt_stale, eslot, dslot, sslot>>
buffer_state == <<stale, fresh, out, counters>>
callers == <<streaming, decode_state, decode_mqueue, player, open, decode, track>>
history == <<lapped, gone, torn>>
vars == <<buffer_state, callers, got, halted, history>>

\* "underrun" is RUNNING with that flag, "flag" is UNDERRUN alone.
DecodeStates == {"zero", "running", "underrun", "flag"}

Commands == {"START", "RESUME", "ST_END"}

\* A start message has more words than the two others (36 bytes against 4).
CmdSize == [c \in Commands |-> IF c = "START" THEN 2 ELSE 1]

Encode(c) == [i \in 1 .. CmdSize[c] |-> [kind |-> c, n |-> i]]
Data(t) == [kind |-> "data", n |-> t]

Slots == 0 .. MAX_STREAM_CMDS
NextSlot(s) == IF s = MAX_STREAM_CMDS THEN 0 ELSE s + 1
SlotsFrom(a, b) == IF b >= a THEN b - a ELSE b - a + MAX_STREAM_CMDS + 1
SlotAfter(a, k) == IF a + k > MAX_STREAM_CMDS THEN a + k - MAX_STREAM_CMDS - 1 ELSE a + k

\* What the slots from a on hold together, up to the one k slots further.
CountFrom(cnt, a) ==
  LET sum[k \in Slots] == cnt[SlotAfter(a, k)] + IF k = 0 THEN 0 ELSE sum[k - 1]
  IN  sum

Loop == [at |-> "loop", cmd |-> "START"]
At(where, c) == [at |-> where, cmd |-> c]

Running == halted = "no"

\* The command a code word stands for.  Any, when it is no code at all.
CodesOf(word) == IF word.kind \in Commands /\ word.n = 1 THEN {word.kind} ELSE Commands

Init ==
  /\ InitStream
  /\ slot_cnt = [s \in Slots |-> 0] /\ slot_cnt_stale = [s \in Slots |-> 0]
  /\ cmd_cnt = 0 /\ cmd_cnt_stale = 0
  /\ eslot = 0 /\ dslot = 0 /\ sslot = 0
  /\ streaming = FALSE /\ decode_state = "zero"
  /\ decode_mqueue = << >> /\ player = "idle" /\ open = FALSE /\ decode = Loop
  /\ got = << >> /\ track = 0 /\ halted = "no"
  /\ lapped = FALSE /\ gone = FALSE /\ torn = FALSE
-----------------------------------------------------------------------------
\* The functions of streambuf.c.

\* The counters move whether or not fifo2_enq finds room.
streambuf_data_enq(buf) ==
  /\ EnqStream(buf)
  /\ slot_cnt' = [slot_cnt EXCEPT ![eslot] = @ + Len(buf)]
  /\ slot_cnt_stale' = [slot_cnt_stale EXCEPT ![eslot] = @ + Len(buf)]
  /\ UNCHANGED <<cmd_cnt, cmd_cnt_stale, eslot, dslot, sslot>>

\* A read that is not held back by the next command.
streambuf_data_deqMutant(max) ==
  /\ \/ Len(fresh) < max /\ UNCHANGED <<stale, fresh, out, got>>
     \/ Len(fresh) >= max /\ DeqStream(max, FALSE) /\ got' = out'.data
  /\ slot_cnt' = [slot_cnt EXCEPT ![dslot] = 0]
  /\ UNCHANGED <<slot_cnt_stale, cmd_cnt, cmd_cnt_stale, eslot, dslot, sslot>>

\* A read of at most max bytes, never past the next command.
streambuf_data_deq(max) ==
  LET size == IF slot_cnt[dslot] > max THEN max ELSE slot_cnt[dslot]
  IN  /\ \/ size = 0 /\ UNCHANGED <<stale, fresh, out, got>>
         \/ size > 0 /\ DeqStream(size, FALSE) /\ got' = out'.data
      /\ slot_cnt' = [slot_cnt EXCEPT ![dslot] = @ - size]
      /\ UNCHANGED <<slot_cnt_stale, cmd_cnt, cmd_cnt_stale, eslot, dslot, sslot>>

CmdIsNext == cmd_cnt > 0 /\ slot_cnt[dslot] = 0

\* A command taken whatever the slots hold.
streambuf_cmd_enqMutant(c) ==
  /\ EnqStream(Encode(c))
  /\ eslot' = NextSlot(eslot)
  /\ cmd_cnt' = cmd_cnt + 1
  /\ cmd_cnt_stale' = cmd_cnt_stale + 1
  /\ lapped' = (lapped \/ cmd_cnt >= MAX_STREAM_CMDS)
  /\ UNCHANGED <<slot_cnt, slot_cnt_stale, dslot, sslot, halted>>

\* A command that does not fit ends the process.  What fits is asked of the
\* stale counters, not of cmd_cnt.
streambuf_cmd_enq(c) ==
  \/ /\ cmd_cnt_stale # MAX_STREAM_CMDS
     /\ CmdSize[c] < Free
     /\ EnqStream(Encode(c))
     /\ eslot' = NextSlot(eslot)
     /\ cmd_cnt' = cmd_cnt + 1
     /\ cmd_cnt_stale' = cmd_cnt_stale + 1
     /\ lapped' = (lapped \/ cmd_cnt >= MAX_STREAM_CMDS)
     /\ UNCHANGED <<slot_cnt, slot_cnt_stale, dslot, sslot, halted>>
  \/ /\ cmd_cnt_stale = MAX_STREAM_CMDS \/ CmdSize[c] >= Free
     /\ halted' = "exit"
     /\ UNCHANGED <<buffer_state, lapped>>

\* The caller passes the size that goes with the code it saw in cmd_ready.
streambuf_cmd_deq(size) ==
  \/ /\ CmdIsNext
     /\ DeqStream(size, FALSE)
     /\ got' = out'.data
     /\ out'.ret > 0
     /\ dslot' = NextSlot(dslot)
     /\ cmd_cnt' = cmd_cnt - 1
     /\ UNCHANGED <<slot_cnt, slot_cnt_stale, cmd_cnt_stale, eslot, sslot>>
  \/ /\ ~CmdIsNext \/ size > Len(fresh)
     /\ UNCHANGED <<buffer_state, got>>

\* The loop walks the slots from sslot, taking size bytes off them, passing
\* every slot it empties but the one being written, and one command with each.
\* It does not end if the slots hold fewer than size bytes.
streambuf_dec_cnt_stale(size) ==
  LET last == SlotsFrom(sslot, eslot)
      UpTo == CountFrom(slot_cnt_stale, sslot)
      stop == Min({k \in 0 .. last : UpTo[k] > size \/ k = last})
  IN  /\ sslot' = SlotAfter(sslot, stop)
      /\ cmd_cnt_stale' = cmd_cnt_stale - stop
      /\ slot_cnt_stale' = [s \in Slots |->
                              IF SlotsFrom(sslot, s) < stop THEN 0
                              ELSE IF SlotsFrom(sslot, s) = stop THEN UpTo[stop] - size
                              ELSE slot_cnt_stale[s]]
      /\ halted' = IF size > UpTo[last] THEN "spin" ELSE halted

\* A discard that takes the bytes of a command off the slots too.
streambuf_discardMutant(size, data) ==
  /\ DiscardStream(size)
  /\ streambuf_dec_cnt_stale(out'.ret)
  /\ UNCHANGED <<slot_cnt, cmd_cnt, eslot, dslot>>

\* Bytes of a command are not in the slots, so that only data is taken off them.
streambuf_discard(size, data) ==
  /\ DiscardStream(size)
  /\ streambuf_dec_cnt_stale(IF data THEN out'.ret ELSE 0)
  /\ UNCHANGED <<slot_cnt, cmd_cnt, eslot, dslot>>

\* A flush that forgets the commands.
streambuf_flushMutant ==
  /\ FlushStream
  /\ slot_cnt' = [s \in Slots |-> 0] /\ slot_cnt_stale' = [s \in Slots |-> 0]
  /\ eslot' = 0 /\ dslot' = 0 /\ sslot' = 0
  /\ lapped' = FALSE /\ gone' = (decode.at = "deq") /\ torn' = FALSE
  /\ UNCHANGED <<cmd_cnt, cmd_cnt_stale>>

streambuf_flush ==
  /\ FlushStream
  /\ slot_cnt' = [s \in Slots |-> 0] /\ slot_cnt_stale' = [s \in Slots |-> 0]
  /\ cmd_cnt' = 0 /\ cmd_cnt_stale' = 0
  /\ eslot' = 0 /\ dslot' = 0 /\ sslot' = 0
  /\ lapped' = FALSE /\ gone' = (decode.at = "deq") /\ torn' = FALSE
-----------------------------------------------------------------------------
\* The player's calls.  The distributor sends each only while more than
\* Reserve bytes are free.

can_prepare_decoder == \/ decode_state = "zero"
                       \/ ~streaming /\ decode_state \in {"underrun", "flag"}

st_begin ==
  /\ Running /\ player = "idle" /\ ~open /\ can_prepare_decoder /\ Free > Reserve
  /\ streambuf_cmd_enq("START")
  /\ streaming' = TRUE /\ decode_state' = "zero"
  /\ player' = "resume" /\ open' = TRUE /\ track' = 1 - track
  /\ UNCHANGED <<decode_mqueue, decode, got, gone, torn>>

st_begin_resume ==
  /\ Running /\ player = "resume"
  /\ streambuf_cmd_enq("RESUME")
  /\ player' = "idle"
  /\ UNCHANGED <<streaming, decode_state, decode_mqueue, open, decode, got, track, gone, torn>>

buffer ==
  /\ Running /\ player = "idle" /\ open /\ Free > Reserve + 1
  /\ streambuf_data_enq(<<Data(track)>>)
  /\ streaming' = TRUE
  /\ UNCHANGED <<decode_state, decode_mqueue, player, open, decode, got, track, halted, history>>

st_end ==
  /\ Running /\ player = "idle" /\ open /\ Free > Reserve
  /\ streambuf_cmd_enq("ST_END")
  /\ open' = FALSE
  /\ UNCHANGED <<streaming, decode_state, decode_mqueue, player, decode, got, track, gone, torn>>

\* The flush and the stop keep the player's lock until they are done.
flush ==
  /\ Running /\ player = "idle"
  /\ streambuf_flush
  /\ player' = "flush"
  /\ UNCHANGED <<streaming, decode_state, decode_mqueue, open, decode, got, track, halted>>

Post(message) == decode_mqueue' = Append(decode_mqueue, message)

\* Then the player waits until its message is handled.
audio_decoder_flush ==
  /\ Running /\ player = "flush"
  /\ Post("FLUSH")
  /\ player' = "wait"
  /\ UNCHANGED <<buffer_state, streaming, decode_state, open, decode, got, track, halted, history>>

stop ==
  /\ Running /\ player = "idle" /\ Len(decode_mqueue) < StopMax
  /\ Post("STOP")
  /\ player' = "stop"
  /\ UNCHANGED <<buffer_state, streaming, decode_state, open, decode, got, track, halted, history>>

\* stop polls for a state of zero, which st_begin leaves too, and flushes when
\* it sees it, wherever the decode thread is.
stop_done ==
  /\ Running /\ player = "stop" /\ decode_state = "zero"
  /\ streambuf_flush
  /\ streaming' = FALSE
  /\ player' = "idle" /\ open' = FALSE
  /\ UNCHANGED <<decode_state, decode_mqueue, decode, got, track, halted>>
-----------------------------------------------------------------------------
\* The decode thread.

\* The message at the head of the queue is the one handled.
Takes(message) ==
  /\ Running /\ decode.at = "loop" /\ decode_mqueue # << >> /\ Head(decode_mqueue) = message
  /\ decode_mqueue' = Tail(decode_mqueue)
  /\ UNCHANGED <<buffer_state, open, decode, got, track, halted, history>>

decode_start_handler == Takes("START") /\ UNCHANGED <<streaming, decode_state, player>>

decode_resume_decoder_handler ==
  Takes("RESUME") /\ decode_state' = "running" /\ UNCHANGED <<streaming, player>>

decode_st_end_handler ==
  Takes("ST_END") /\ streaming' = FALSE /\ UNCHANGED <<decode_state, player>>

decode_stop_handler ==
  Takes("STOP") /\ decode_state' = "zero" /\ UNCHANGED <<streaming, player>>

decode_flush_handler ==
  Takes("FLUSH") /\ player' = "idle" /\ UNCHANGED <<streaming, decode_state>>

\* The queue was empty, and the thread goes on to the stream.
mqueue_read_timeout ==
  /\ Running /\ decode.at = "loop" /\ decode_mqueue = << >>
  /\ decode' = At("look", "START")
  /\ UNCHANGED <<buffer_state, streaming, decode_state, decode_mqueue, player, open, got, track,
                 halted, history>>

streambuf_cmd_ready ==
  /\ Running /\ decode.at = "look" /\ CmdIsNext
  /\ ReadStream(0, 1, FALSE)
  /\ out'.ret > 0
  /\ \E c \in CodesOf(out'.data[1]) : decode' = At("deq", c)
  /\ UNCHANGED <<counters, streaming, decode_state, decode_mqueue, player, open, got, track,
                 halted, history>>

\* After a flush there may be nothing to dequeue.
cmd_deq ==
  /\ Running /\ decode.at = "deq"
  /\ streambuf_cmd_deq(CmdSize[decode.cmd])
  /\ decode' = IF dslot' = dslot THEN Loop ELSE At("discard", decode.cmd)
  /\ gone' = FALSE /\ torn' = (torn \/ (gone /\ dslot' # dslot))
  /\ UNCHANGED <<streaming, decode_state, decode_mqueue, player, open, track, halted, lapped>>

cmd_discard ==
  /\ Running /\ decode.at = "discard"
  /\ streambuf_discard(CmdSize[decode.cmd], FALSE)
  /\ decode' = At("relay", decode.cmd)
  /\ UNCHANGED <<streaming, decode_state, decode_mqueue, player, open, got, track, history>>

\* The queue also holds pause and resume messages, and may be full.
mqueue_write_request ==
  /\ Running /\ decode.at = "relay"
  /\ \/ Post(decode.cmd) /\ UNCHANGED halted
     \/ halted' = "assert" /\ UNCHANGED decode_mqueue
  /\ decode' = Loop
  /\ UNCHANGED <<buffer_state, streaming, decode_state, player, open, got, track, history>>

\* The decoder's callback: a read, then a discard of what it has consumed of
\* this and of earlier reads.  decode_mad keeps the last frame of a track.
decoder_read(max) ==
  /\ Running /\ decode.at = "look" /\ ~CmdIsNext /\ decode_state \in {"running", "underrun"}
  /\ streambuf_data_deq(max)
  /\ decode' = At(IF slot_cnt[dslot] = 0 THEN "underrun" ELSE "consume", "START")
  /\ UNCHANGED <<streaming, decode_state, decode_mqueue, player, open, track, halted, history>>

\* The flag is changed by a read and a write of current_decoder_state, between
\* which st_begin may have reset it.
WasReset == decode_state \in {"zero", "flag"}

decoder_underrun ==
  /\ Running /\ decode.at = "underrun"
  /\ decode_state' \in {"underrun"} \cup (IF WasReset THEN {"flag"} ELSE {})
  /\ decode' = Loop
  /\ UNCHANGED <<buffer_state, streaming, decode_mqueue, player, open, got, track, halted, history>>

decoder_discard(size) ==
  /\ Running /\ decode.at = "consume"
  /\ streambuf_discard(size, TRUE)
  /\ decode_state' \in {"running"} \cup (IF WasReset THEN {"zero"} ELSE {})
  /\ decode' = Loop
  /\ UNCHANGED <<streaming, decode_mqueue, player, open, got, track, history>>

\* No decoder, or no time for it yet.
decode_nothing ==
  /\ Running /\ decode.at = "look" /\ ~CmdIsNext
  /\ decode' = Loop
  /\ UNCHANGED <<buffer_state, streaming, decode_state, decode_mqueue, player, open, got, track,
                 halted, history>>

PlayerStep ==
  \/ st_begin \/ st_begin_resume \/ buffer \/ st_end
  \/ flush \/ audio_decoder_flush \/ stop \/ stop_done

DecodeStep ==
  \/ decode_start_handler \/ decode_resume_decoder_handler \/ decode_st_end_handler
  \/ decode_stop_handler \/ decode_flush_handler \/ mqueue_read_timeout
  \/ streambuf_cmd_ready \/ cmd_deq \/ cmd_discard \/ mqueue_write_request
  \/ \E max \in 1 .. 2 : decoder_read(max)
  \/ decoder_underrun \/ decode_nothing
  \/ \E size \in 0 .. Capacity : decoder_discard(size)

Next == PlayerStep \/ DecodeStep

Spec == Init /\ [][Next]_vars
-----------------------------------------------------------------------------
Byte == {Data(t) : t \in {0, 1}} \cup UNION {Range(Encode(c)) : c \in Commands}

Messages == Commands \cup {"STOP", "FLUSH"}

(* The slot indices and the stale counter of streambuf.c stay within their   *)
(* arrays, no counter goes below zero, and the callers' fields have their    *)
(* types.                                                                    *)
TypeOK ==
  /\ stale \in Seq(Byte) /\ fresh \in Seq(Byte)
  /\ slot_cnt \in [Slots -> Nat] /\ slot_cnt_stale \in [Slots -> Nat]
  /\ cmd_cnt \in Nat /\ cmd_cnt_stale \in 0 .. MAX_STREAM_CMDS
  /\ {eslot, dslot, sslot} \subseteq Slots
  /\ streaming \in BOOLEAN /\ decode_state \in DecodeStates
  /\ decode_mqueue \in Seq(Messages)
  /\ player \in {"idle", "resume", "flush", "wait", "stop"} /\ open \in BOOLEAN
  /\ decode \in [at : {"loop", "look", "deq", "discard", "relay", "consume", "underrun"},
                 cmd : Commands]

C == INSTANCE CommandStream WITH
       Encodings <- {Encode(c) : c \in Commands},
       DataBytes <- {Data(0), Data(1)},
       bytes <- fresh

(* The counters frame the stream correctly: whatever the decode thread reads *)
(* between and during the player's calls, it gets the bytes of one track up  *)
(* to the next command, and whole commands in order.  Until the next flush   *)
(* this is over when more commands are unread than there are slots to part   *)
(* them (lapped), or when a stop's flush and the next START come between the *)
(* look at a command and its dequeue, which takes that START for it (torn).  *)
ImplementsCommandStream ==
  C!InitCommands /\ [][~lapped' /\ ~torn' => C!NextCommands]_(C!commandVars)

(* The loop in streambuf_dec_cnt_stale always ends ("This function shouldn't *)
(* be called with more bytes than is tracked in the stale counters"): a      *)
(* discard that asks for more would spin forever with the fifo locked.  This *)
(* holds even when the stream is no longer framed.                           *)
DiscardEnds == halted # "spin"

StaleSlots ==
  /\ cmd_cnt_stale = SlotsFrom(sslot, eslot)
  /\ \A s \in Slots : SlotsFrom(sslot, s) > cmd_cnt_stale => slot_cnt_stale[s] = 0

FreshSlots ==
  /\ cmd_cnt = SlotsFrom(dslot, eslot)
  /\ \A s \in Slots : SlotsFrom(dslot, s) > cmd_cnt => slot_cnt[s] = 0

(* eslot never laps sslot: cmd_cnt_stale is the distance between the two and *)
(* the slots beyond it are empty, so that MAX_STREAM_CMDS + 1 slots are      *)
(* enough for the undiscarded data.  As long as eslot did not lap dslot, the *)
(* same holds of the unread data.                                            *)
SlotsDoNotLap == StaleSlots /\ (~lapped /\ ~torn => FreshSlots)
=============================================================================
