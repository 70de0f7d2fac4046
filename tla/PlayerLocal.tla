----------------------------- MODULE PlayerLocal -----------------------------
(* lib/beep/player_local.c over lib/audio/audio.c: the player of one device. *)
(* Three threads meet here.  The stream thread of playnet serves the         *)
(* distributor's socket (start, st_begin, buffer, st_end, flush), the ubus   *)
(* thread serves its calls (pause, resume, stop), and the decode thread      *)
(* drains the message queue, moves the commands it meets in the stream to    *)
(* the back of that queue, and decodes.  The output callback plays the       *)
(* decoded samples.  The first two exclude each other by the player's lock,  *)
(* which flush and stop keep while they wait for the decode thread.          *)
(*                                                                           *)
(* The stream buffer is the command stream StreamBuf implements, and the     *)
(* message queue a sequence: each of their calls is one step under its lock. *)
EXTENDS Integers, Sequences, Functions

CONSTANTS MaxTracks,    \* bound on the tracks begun
          StreamMax,    \* bound on the items in the stream buffer
          QueueMax,     \* messages the message queue has room for
          PcmMax        \* samples the decode fifo holds

ASSUME PlayerBounds == {MaxTracks, StreamMax, QueueMax, PcmMax} \subseteq Nat \ {0}

VARIABLES stream,         \* unread commands and data, each with its track
          decode_mqueue,
          decode_state,   \* the flags of current_decoder_state, see below
          decoder,        \* the track the decoder was started for, 0 if none
          streaming,      \* streambuf_streaming
          audio,          \* decode_audio->state: "off", "autostart", "running"
          pcm,            \* the decode fifo
          heard,          \* num_tracks_started > 0
          decode,         \* where the decode thread is, and with which command
          started, track, open,   \* the player, the last track, is it open
          lock, feeder, caller,   \* the lock's holder; the two client threads
          halted,         \* history: the tracks begun before the last stop
          revived,        \* history: a command of a stopped stream was handled
          overtaken       \* history: a track began while the decode thread
                          \* was still busy with the one before

\* "underrun" and "error" are RUNNING with that flag, "flag" is UNDERRUN alone.
DecodeStates == {"zero", "running", "underrun", "error", "flag"}

streamVars == <<stream, streaming>>
decodeVars == <<decode_mqueue, decode_state, decoder, decode>>
outputVars == <<audio, pcm, heard>>
clientVars == <<started, track, open, lock, feeder, caller>>
history == <<halted, revived, overtaken>>
vars == <<streamVars, decodeVars, outputVars, clientVars, history>>

Item(kind) == [kind |-> kind, track |-> track]
IsCommand(item) == item.kind # "data"
Full == Len(decode_mqueue) >= QueueMax

\* stop and flush ask mqueue_write_request for no room, and so always get it:
\* the branches of audio_decoder_stop and audio_decoder_flush for a full queue
\* are dead, and their message is written whether or not there is room.
Post(kind) == decode_mqueue' = Append(decode_mqueue, Item(kind))

At(where, item) == [at |-> where, cmd |-> item]
Loop == At("loop", [kind |-> "data", track |-> 0])

Init ==
  /\ stream = << >> /\ decode_mqueue = << >>
  /\ decode_state = "zero" /\ decoder = 0 /\ streaming = FALSE
  /\ audio = "off" /\ pcm = << >> /\ heard = FALSE /\ decode = Loop
  /\ started = FALSE /\ track = 0 /\ open = FALSE
  /\ lock = "none" /\ feeder = "idle" /\ caller = "idle"
  /\ halted = 0 /\ revived = FALSE /\ overtaken = FALSE
-----------------------------------------------------------------------------
\* The stream thread.  Calls on a stopped player return without effect.

\* The daemon aborts: in st_end, or where the decode thread cannot move a command.
Running == feeder # "aborted" /\ decode.at # "aborted"

CanFeed == Running /\ feeder = "idle" /\ lock = "none" /\ started /\ Len(stream) < StreamMax

\* The distributor sends the start of a session after the stop has answered.
beep_player_local_start ==
  /\ Running /\ feeder = "idle" /\ lock = "none" /\ caller = "idle" /\ ~started
  /\ track < MaxTracks
  /\ started' = TRUE /\ open' = FALSE
  /\ UNCHANGED <<streamVars, decodeVars, outputVars, track, lock, feeder, caller, history>>

can_prepare_decoder == \/ decode_state = "zero"
                       \/ ~streaming /\ decode_state \in {"underrun", "flag"}

Unhandled == Range(stream) \cup Range(decode_mqueue) \cup (IF decode.at = "relay" THEN {decode.cmd} ELSE {})

\* Mutant: the stream is not marked as streaming.
beep_player_local_st_beginMutant ==
  /\ CanFeed /\ ~open /\ can_prepare_decoder /\ track < MaxTracks
  /\ track' = track + 1 /\ open' = TRUE
  /\ UNCHANGED streaming
  /\ lock' = "stream" /\ feeder' = "start"
  /\ overtaken' = (overtaken \/ \E item \in Unhandled : item.kind \in {"START", "RESUME", "ST_END"})
  /\ UNCHANGED <<stream, decodeVars, outputVars, started, caller, halted, revived>>

\* st_begin_blocking tries again until the decoder can be prepared.
beep_player_local_st_begin ==
  /\ CanFeed /\ ~open /\ can_prepare_decoder /\ track < MaxTracks
  /\ track' = track + 1 /\ open' = TRUE
  /\ streaming' = TRUE
  /\ lock' = "stream" /\ feeder' = "start"
  /\ overtaken' = (overtaken \/ \E item \in Unhandled : item.kind \in {"START", "RESUME", "ST_END"})
  /\ UNCHANGED <<stream, decodeVars, outputVars, started, caller, halted, revived>>

\* Mutant: the state is left to the decode thread.
audio_decoder_startMutant ==
  /\ Running /\ feeder = "start"
  /\ UNCHANGED decode_state
  /\ stream' = Append(stream, Item("START"))
  /\ feeder' = "resume"
  /\ UNCHANGED <<streaming, decode_mqueue, decoder, decode, outputVars, started, track, open, lock,
                 caller, history>>

\* The state is reset here, in the calling thread.
audio_decoder_start ==
  /\ Running /\ feeder = "start"
  /\ decode_state' = "zero"
  /\ stream' = Append(stream, Item("START"))
  /\ feeder' = "resume"
  /\ UNCHANGED <<streaming, decode_mqueue, decoder, decode, outputVars, started, track, open, lock,
                 caller, history>>

audio_decoder_resume ==
  /\ Running /\ feeder = "resume"
  /\ stream' = Append(stream, Item("RESUME"))
  /\ lock' = "none" /\ feeder' = "idle"
  /\ UNCHANGED <<streaming, decodeVars, outputVars, started, track, open, caller, history>>

beep_player_local_buffer ==
  /\ CanFeed /\ open
  /\ stream' = Append(stream, Item("data"))
  /\ streaming' = TRUE
  /\ UNCHANGED <<decodeVars, outputVars, clientVars, history>>

beep_player_local_st_end ==
  /\ CanFeed /\ open
  /\ \/ /\ streaming
        /\ stream' = Append(stream, Item("ST_END"))
        /\ open' = FALSE /\ UNCHANGED feeder
     \/ /\ ~streaming
        /\ feeder' = "aborted" /\ UNCHANGED <<stream, open>>
  /\ UNCHANGED <<streaming, decodeVars, outputVars, started, track, lock, caller, history>>

\* A flush does not ask whether the player is started.  The applications only
\* flush inside a track.
beep_player_local_flush ==
  /\ Running /\ feeder = "idle" /\ lock = "none" /\ open
  /\ stream' = << >>
  /\ lock' = "stream" /\ feeder' = "flush"
  /\ UNCHANGED <<streaming, decodeVars, outputVars, started, track, open, caller, history>>

\* thread_sync_mutex is taken before the message can be read, and released by
\* the wait, so that the decode thread's signal comes after the wait.
audio_decoder_flush ==
  /\ Running /\ feeder = "flush"
  /\ Post("FLUSH")
  /\ feeder' = "wait"
  /\ UNCHANGED <<streamVars, decode_state, decoder, decode, outputVars, started, track, open, lock,
                 caller, history>>
-----------------------------------------------------------------------------
\* The ubus thread.

\* With a full queue pause and resume drop their message: nothing changes.  As a
\* bound, no stop is called then, whose STOP would overrun the queue.
CanCall == Running /\ caller = "idle" /\ ~Full

CallerVars == <<streamVars, decode_state, decoder, decode, outputVars, started, track, open,
                feeder, history>>

audio_pause ==
  /\ CanCall
  /\ Post("PAUSE")
  /\ UNCHANGED <<CallerVars, lock, caller>>

audio_resume ==
  /\ CanCall
  /\ Post("RESUME_AUDIO")
  /\ UNCHANGED <<CallerVars, lock, caller>>

beep_player_local_stop ==
  /\ CanCall
  /\ Post("PAUSE")
  /\ caller' = "lock"
  /\ UNCHANGED <<CallerVars, lock>>

audio_decoder_stop ==
  /\ Running /\ caller = "lock" /\ lock = "none"
  /\ lock' = "ubus" /\ caller' = "stop"
  /\ started' = FALSE /\ halted' = track
  /\ Post("STOP")
  /\ UNCHANGED <<streamVars, decode_state, decoder, decode, outputVars, track, open,
                 feeder, revived, overtaken>>

\* Mutant: the stream is not flushed.
stop_doneMutant ==
  /\ Running /\ caller = "stop" /\ decode_state = "zero" /\ ~heard
  /\ lock' = "none" /\ caller' = "idle"
  /\ streaming' = FALSE /\ UNCHANGED stream
  /\ UNCHANGED <<decodeVars, outputVars, started, track, open, feeder, history>>

\* The loop that looks at the state every 10 ms, and the end of the call.
stop_done ==
  /\ Running /\ caller = "stop" /\ decode_state = "zero" /\ ~heard
  /\ lock' = "none" /\ caller' = "idle"
  /\ streaming' = FALSE /\ stream' = << >>
  /\ UNCHANGED <<decodeVars, outputVars, started, track, open, feeder, history>>
-----------------------------------------------------------------------------
\* The decode thread.

Ops == {"START", "RESUME", "ST_END", "STOP", "FLUSH", "PAUSE", "RESUME_AUDIO"}

\* The message at the head of the queue is the one handled.
Takes(kind) ==
  /\ Running /\ decode.at = "loop" /\ decode_mqueue # << >> /\ Head(decode_mqueue).kind = kind
  /\ decode_mqueue' = Tail(decode_mqueue)
  /\ UNCHANGED decode

\* The STOP of the last stop was handled.
Stopped == \A i \in 1 .. Len(decode_mqueue) : decode_mqueue[i].kind # "STOP"

Revives(item) == Stopped /\ item.track <= halted

decode_start_handler ==
  /\ Takes("START")
  /\ decoder' = Head(decode_mqueue).track
  /\ revived' = (revived \/ Revives(Head(decode_mqueue)))
  /\ UNCHANGED <<streamVars, decode_state, outputVars, clientVars, halted, overtaken>>

decode_resume_decoder_handler ==
  /\ Takes("RESUME")
  /\ decode_state' = "running"
  /\ revived' = (revived \/ Revives(Head(decode_mqueue)))
  /\ UNCHANGED <<streamVars, decoder, outputVars, clientVars, halted, overtaken>>

\* Mutant: the end of the track is not recorded.
decode_st_end_handlerMutant ==
  /\ Takes("ST_END")
  /\ UNCHANGED streaming
  /\ UNCHANGED <<stream, decode_state, decoder, outputVars, clientVars, history>>

decode_st_end_handler ==
  /\ Takes("ST_END")
  /\ streaming' = FALSE
  /\ UNCHANGED <<stream, decode_state, decoder, outputVars, clientVars, history>>

decode_output_end == pcm' = << >>

\* Mutant: the count of the tracks started is kept.
decode_stop_handlerMutant ==
  /\ Takes("STOP")
  /\ decode_state' = "zero" /\ decoder' = 0
  /\ audio' = "off" /\ UNCHANGED heard
  /\ decode_output_end
  /\ UNCHANGED <<streamVars, clientVars, history>>

decode_stop_handler ==
  /\ Takes("STOP")
  /\ decode_state' = "zero" /\ decoder' = 0
  /\ audio' = "off" /\ heard' = FALSE
  /\ decode_output_end
  /\ UNCHANGED <<streamVars, clientVars, history>>

\* Mutant: the waiting stream thread is not signalled.
decode_flush_handlerMutant ==
  /\ Takes("FLUSH")
  /\ decode_output_end
  /\ UNCHANGED <<feeder, lock>>
  /\ UNCHANGED <<streamVars, decode_state, decoder, audio, heard, started, track, open, caller, history>>

\* The flush leaves the audio's state alone, and signals the stream thread.
decode_flush_handler ==
  /\ Takes("FLUSH")
  /\ decode_output_end
  /\ feeder' = "idle" /\ lock' = "none"
  /\ UNCHANGED <<streamVars, decode_state, decoder, audio, heard, started, track, open, caller, history>>

\* A pause does not take back a start that waits for samples (AUTOSTART).
audio_pause_audio_handler ==
  /\ Takes("PAUSE")
  /\ audio' = IF audio = "running" THEN "off" ELSE audio
  /\ UNCHANGED <<streamVars, decode_state, decoder, pcm, heard, clientVars, history>>

decode_resume_audio_handler ==
  /\ Takes("RESUME_AUDIO")
  /\ audio' = IF audio = "off" THEN "autostart" ELSE audio
  /\ UNCHANGED <<streamVars, decode_state, decoder, pcm, heard, clientVars, history>>

\* The queue was empty, and the thread goes on to the stream.
mqueue_read_timeout ==
  /\ Running /\ decode.at = "loop" /\ decode_mqueue = << >>
  /\ decode' = [decode EXCEPT !.at = "look"]
  /\ UNCHANGED <<streamVars, decode_mqueue, decode_state, decoder, outputVars, clientVars, history>>

streambuf_cmd_deq ==
  /\ Running /\ decode.at = "look" /\ stream # << >> /\ IsCommand(Head(stream))
  /\ stream' = Tail(stream)
  /\ decode' = At("relay", Head(stream))
  /\ UNCHANGED <<streaming, decode_mqueue, decode_state, decoder, outputVars, clientVars, history>>

mqueue_write_request ==
  /\ Running /\ decode.at = "relay" /\ ~Full
  /\ decode_mqueue' = Append(decode_mqueue, decode.cmd)
  /\ decode' = Loop
  /\ UNCHANGED <<streamVars, decode_state, decoder, outputVars, clientVars, history>>

\* A command that was taken from the stream cannot be dropped: assert(0).
mqueue_write_fails ==
  /\ Running /\ decode.at = "relay" /\ Full
  /\ decode' = [decode EXCEPT !.at = "aborted"]
  /\ UNCHANGED <<streamVars, decode_mqueue, decode_state, decoder, outputVars, clientVars, history>>

NoCommand == stream # << >> => ~IsCommand(Head(stream))

\* Mutant: the room in the decode fifo is not looked at.
audio_decode_timer_intervalMutant ==
  /\ decoder # 0
  /\ decode_state = "running" \/ (decode_state = "underrun" /\ streaming)

\* Not for a track that has ended and was read to its end.
audio_decode_timer_interval ==
  /\ decoder # 0 /\ Len(pcm) < PcmMax
  /\ decode_state = "running" \/ (decode_state = "underrun" /\ streaming)

\* The decoder's callback reads data, or finds none.
decoder_callback ==
  /\ Running /\ decode.at = "look" /\ NoCommand /\ audio_decode_timer_interval
  /\ stream' = IF stream = << >> THEN stream ELSE Tail(stream)
  /\ decode' = IF stream = << >> THEN At("underrun", Loop.cmd) ELSE At("decoded", Head(stream))
  /\ UNCHANGED <<streaming, decode_mqueue, decode_state, decoder, outputVars, clientVars, history>>

\* current_decoder_state has no lock.  The flag is changed by a read and a
\* write, between which the stream thread may have reset the state.
decoder_output ==
  /\ Running /\ decode.at \in {"decoded", "underrun"}
  /\ LET reset == decode_state \in {"zero", "flag"}
     IN /\ \/ /\ decode.at = "underrun"
              /\ decode_state' \in {"underrun"} \cup (IF reset THEN {"flag"} ELSE {})
              /\ UNCHANGED pcm
           \/ /\ decode.at = "decoded"
              /\ decode_state' \in {"running"} \cup (IF reset THEN {"zero"} ELSE {})
              /\ pcm' = Append(pcm, [track |-> decode.cmd.track, by |-> decoder])
           \/ /\ decode.at = "decoded" /\ ~reset
              /\ decode_state' = "error"
              /\ UNCHANGED pcm
        /\ overtaken' = (overtaken \/ reset)
  /\ decode' = Loop
  /\ UNCHANGED <<streamVars, decode_mqueue, decoder, audio, heard, clientVars, halted, revived>>

\* The timer says no, or said no before the data came.
decode_nothing ==
  /\ Running /\ decode.at = "look" /\ NoCommand
  /\ decode' = Loop
  /\ UNCHANGED <<streamVars, decode_mqueue, decode_state, decoder, outputVars, clientVars, history>>
-----------------------------------------------------------------------------
\* playback_callback, with the fifo locked.  AUTOSTART waits for samples.
playback_callback ==
  /\ Running /\ pcm # << >> /\ audio # "off"
  /\ audio' = "running" /\ heard' = TRUE
  /\ pcm' = Tail(pcm)
  /\ UNCHANGED <<streamVars, decodeVars, clientVars, history>>

StreamThread ==
  \/ beep_player_local_start \/ beep_player_local_st_begin \/ beep_player_local_buffer
  \/ beep_player_local_st_end \/ beep_player_local_flush

UbusThread == audio_pause \/ audio_resume \/ beep_player_local_stop

\* The steps of a call that has begun.
Finish ==
  \/ audio_decoder_start \/ audio_decoder_resume \/ audio_decoder_flush
  \/ audio_decoder_stop \/ stop_done

DecodeThread ==
  \/ decode_start_handler \/ decode_resume_decoder_handler \/ decode_st_end_handler
  \/ decode_stop_handler \/ decode_flush_handler
  \/ audio_pause_audio_handler \/ decode_resume_audio_handler
  \/ mqueue_read_timeout \/ streambuf_cmd_deq \/ mqueue_write_request \/ mqueue_write_fails
  \/ decoder_callback \/ decoder_output \/ decode_nothing

Next == StreamThread \/ UbusThread \/ Finish \/ DecodeThread \/ playback_callback

Spec == Init /\ [][Next]_vars

(* Calls of pause, resume and stop do not come so fast for ever that the     *)
(* decode thread is never done with their messages.                          *)
CallsPause == []<><<UbusThread>>_vars => []<>(decode_mqueue = << >>)

(* The threads run.  The timer is computed anew in every turn of the decode  *)
(* thread, so that data it may decode is decoded.  The lock is handed on.    *)
(* stop polls, and may look too late to see a state that lasted a moment:    *)
(* stop_done has weak fairness only.                                         *)
Fairness ==
  /\ CallsPause
  /\ WF_vars(DecodeThread) /\ SF_vars(mqueue_read_timeout) /\ SF_vars(decoder_callback)
  /\ WF_vars(playback_callback)
  /\ WF_vars(audio_decoder_start) /\ WF_vars(audio_decoder_resume) /\ WF_vars(audio_decoder_flush)
  /\ SF_vars(audio_decoder_stop) /\ WF_vars(stop_done)

FairSpec == Spec /\ Fairness
-----------------------------------------------------------------------------
(* The threads' fields have their types and no queue outgrows its bound: the *)
(* stream, the message queue of audio.c and the output fifo.                 *)
TypeOK ==
  /\ stream \in Seq([kind : Ops \cup {"data"}, track : 0 .. MaxTracks])
  /\ decode_mqueue \in Seq([kind : Ops, track : 0 .. MaxTracks])
  /\ Len(stream) <= StreamMax + 1 /\ Len(decode_mqueue) <= QueueMax + 2
  /\ decode_state \in DecodeStates /\ decoder \in 0 .. MaxTracks
  /\ audio \in {"off", "autostart", "running"} /\ Len(pcm) <= PcmMax
  /\ decode.at \in {"loop", "look", "relay", "decoded", "underrun", "aborted"}
  /\ lock \in {"none", "stream", "ubus"}
  /\ feeder \in {"idle", "start", "resume", "flush", "wait", "aborted"}
  /\ caller \in {"idle", "lock", "stop"}
  /\ {track, halted} \subseteq 0 .. MaxTracks
  /\ {streaming, heard, started, open, revived, overtaken} \subseteq BOOLEAN

(* flush keeps the player's lock and waits on a condition.  The signal is    *)
(* never lost, so that flush returns whatever else is queued.                *)
FlushEnds == feeder = "wait" ~> feeder # "wait" \/ ~Running

(* stop keeps the player's lock and polls for a decoder state of zero.  It   *)
(* ends, as long as no START or RESUME that was still in the stream reached  *)
(* the decode thread behind the STOP and set it going again.                 *)
StopEnds == caller = "stop" ~> caller # "stop" \/ revived \/ ~Running

(* Once the STOP was handled and stop has returned, and until the next       *)
(* start, nothing is left of the stopped stream: no decoder, no sample, no   *)
(* unread item, no streaming.                                                *)
StoppedIsClean ==
  Stopped /\ ~started /\ caller = "idle" /\ ~revived
     => decoder = 0 /\ decode_state = "zero" /\ pcm = << >> /\ stream = << >> /\ ~streaming

(* Every byte is decoded by the decoder its own track started, though START  *)
(* goes through two queues, and flush and stop empty one of them.  A track   *)
(* begun while the decode thread was still busy with the one before is       *)
(* excepted (overtaken): either that one was so short that it ended before   *)
(* its RESUME was handled, when the state is still zero, or the decoder was  *)
(* run for it once more and its write of the state undid the reset.          *)
DecodedByOwnDecoder == ~overtaken => \A i \in 1 .. Len(pcm) : pcm[i].by = pcm[i].track

(* "st_end called when streambuf not streaming" aborts the daemon.  That     *)
(* does not happen, with the same exception.                                 *)
NeverAborts == feeder = "aborted" => overtaken

(* st_begin_blocking holds the stream thread until the decoder can be        *)
(* prepared.  When the previous track was ended and audio is playing, that   *)
(* comes about, except after a decoder error, which only a stop clears.      *)
BeginUnblocks ==
  started /\ ~open ~> can_prepare_decoder \/ ~started \/ open \/ audio = "off"
                        \/ decode_state = "error" \/ revived \/ overtaken
                        \/ ~Running
=============================================================================
