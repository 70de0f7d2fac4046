-------------------------- MODULE PlayerLocalProofs --------------------------
(* What PlayerLocal proves for any number of tracks and any size of the      *)
(* stream buffer, the message queue and the decode fifo.                     *)
EXTENDS PlayerLocal, SequenceTheorems, TLAPS

\* The commands that travel in the stream, and from there to the queue.
StreamOps == {"START", "RESUME", "ST_END"}

Tracks == 0 .. MaxTracks
Items == [kind : StreamOps \cup {"data"}, track : Tracks]
Messages == [kind : Ops, track : Tracks]
Places == {"loop", "look", "relay", "decoded", "underrun", "aborted"}

(* The types: the decode thread only carries a command from the stream to    *)
(* the queue, never data.                                                    *)
TypeInv ==
  /\ stream \in Seq(Items) /\ decode_mqueue \in Seq(Messages)
  /\ decode \in [at : Places, cmd : Items]
  /\ decode.at \in {"relay", "aborted"} => decode.cmd.kind \in StreamOps
  /\ pcm \in Seq([track : Tracks, by : Tracks])
  /\ decode_state \in DecodeStates /\ decoder \in Tracks
  /\ audio \in {"off", "autostart", "running"}
  /\ lock \in {"none", "stream", "ubus"}
  /\ feeder \in {"idle", "start", "resume", "flush", "wait", "aborted"}
  /\ caller \in {"idle", "lock", "stop"}
  /\ track \in Tracks /\ halted \in Tracks
  /\ streaming \in BOOLEAN /\ heard \in BOOLEAN /\ started \in BOOLEAN /\ open \in BOOLEAN
  /\ revived \in BOOLEAN /\ overtaken \in BOOLEAN

(* The lock's holder is the thread inside a call, and a track is only begun  *)
(* in a started player.                                                      *)
LockInv ==
  /\ lock = "stream" <=> feeder \in {"start", "resume", "flush", "wait"}
  /\ lock = "ubus" <=> caller = "stop"
  /\ caller = "stop" => ~started
  /\ feeder \in {"start", "resume"} => started /\ open

(* Room is left for what a thread is about to append. *)
RoomInv ==
  /\ Len(stream) <= StreamMax + 1
  /\ feeder = "start" => Len(stream) < StreamMax
  /\ feeder = "resume" => Len(stream) <= StreamMax
  /\ Len(pcm) <= PcmMax
  /\ decode.at = "decoded" => Len(pcm) < PcmMax

(* What is queued beyond the room of the queue, for which STOP and FLUSH do  *)
(* not ask: at most one STOP and one FLUSH, whose senders wait.  Of the      *)
(* stream's commands at most one is queued.                                  *)
QueueInv ==
  /\ \A i \in 1 .. Len(decode_mqueue) :
        /\ decode_mqueue[i].kind \in {"PAUSE", "RESUME_AUDIO"} => i <= QueueMax
        /\ decode_mqueue[i].kind = "FLUSH" => feeder = "wait"
        /\ decode_mqueue[i].kind \in StreamOps => decode.at = "loop" /\ i <= QueueMax
        /\ decode_mqueue[i].kind = "STOP" /\ caller = "lock" => i <= QueueMax
  /\ \A i, j \in 1 .. Len(decode_mqueue) : i # j =>
        /\ ~(decode_mqueue[i].kind = "FLUSH" /\ decode_mqueue[j].kind = "FLUSH")
        /\ ~(decode_mqueue[i].kind \in StreamOps /\ decode_mqueue[j].kind \in StreamOps)
        /\ i > QueueMax /\ j > QueueMax
              => ~(decode_mqueue[i].kind = "STOP" /\ decode_mqueue[j].kind = "STOP")

\* A command of this kind is in the stream; has left it and is not yet handled.
InStream(kind) == \E i \in 1 .. Len(stream) : stream[i].kind = kind
Queued(kind) == \E i \in 1 .. Len(decode_mqueue) : decode_mqueue[i].kind = kind
Underway(kind) ==
  Queued(kind) \/ (decode.at \in {"relay", "aborted"} /\ decode.cmd.kind = kind)

(* No command is of a track still to come. *)
TrackInv ==
  /\ \A i \in 1 .. Len(stream) : stream[i].track <= track
  /\ \A i \in 1 .. Len(decode_mqueue) : decode_mqueue[i].track <= track
  /\ decode.cmd.track <= track

(* A stopped player: halted is its last track; the stream is empty once stop *)
(* has returned, and the decoder is gone once the STOP was handled.          *)
StopInv ==
  /\ ~started => halted = track
  /\ ~started /\ caller # "stop" => stream = << >> /\ ~streaming
  /\ ~started /\ Stopped /\ ~revived =>
        /\ decoder = 0 /\ decode_state = "zero" /\ pcm = << >>
        /\ decode.at \notin {"decoded", "underrun"}

(* An open track has no ST_END on its way, and a stream that is not open was *)
(* closed by the ST_END at its end.                                          *)
OpenInv ==
  /\ ~open => stream = << >> \/ stream[Len(stream)].kind = "ST_END"
  /\ ~overtaken =>
       /\ open => ~InStream("ST_END") /\ ~Underway("ST_END")
       /\ open /\ started => streaming
       /\ feeder # "aborted"

(* The decoder that runs is the one of the current track. *)
DecoderIsCurrent == decoder \in {0, track}

(* From START to RESUME, through the two queues. *)
DecoderInv ==
  ~overtaken =>
    /\ \A i \in 1 .. Len(stream) : stream[i].track = track
    /\ \A i \in 1 .. Len(decode_mqueue) :
          decode_mqueue[i].kind \in StreamOps => decode_mqueue[i].track = track
    /\ decode.at = "relay" => decode.cmd.track = track
    /\ \A i \in 1 .. Len(stream) : stream[i].kind = "START" => i = 1
    /\ feeder = "start" => stream = << >> /\ \A kind \in StreamOps : ~Underway(kind)
    /\ feeder # "start" /\ decode_state \in {"running", "underrun", "error"} => DecoderIsCurrent
    /\ Underway("RESUME") => DecoderIsCurrent
    /\ feeder = "resume" \/ InStream("RESUME") =>
          InStream("START") \/ Underway("START") \/ DecoderIsCurrent
    /\ decode.at = "decoded" => decode.cmd.track = decoder
    /\ \A i \in 1 .. Len(pcm) : pcm[i].by = pcm[i].track
-----------------------------------------------------------------------------
(* A queue after a write: the new element is the last one. *)
LEMMA Appended ==
  ASSUME NEW S, NEW q \in Seq(S), NEW e \in S
  PROVE  /\ Append(q, e) \in Seq(S) /\ Len(q) \in Nat
         /\ Len(Append(q, e)) = Len(q) + 1
         /\ \A i \in 1 .. Len(q) : Append(q, e)[i] = q[i]
         /\ Append(q, e)[Len(q) + 1] = e
  BY AppendProperties, LenProperties

(* A queue after a read: the elements move up by one. *)
LEMMA Taken ==
  ASSUME NEW S, NEW q \in Seq(S), q # << >>
  PROVE  /\ Head(q) \in S /\ Head(q) = q[1]
         /\ Tail(q) \in Seq(S)
         /\ Len(q) \in Nat \ {0} /\ Len(Tail(q)) = Len(q) - 1
         /\ \A i \in 1 .. Len(Tail(q)) : i + 1 \in 1 .. Len(q) /\ Tail(q)[i] = q[i + 1]
  BY HeadTailProperties, EmptySeq

(* What the player's threads put into the stream and the queue is typed. *)
LEMMA ItemType ==
  ASSUME TypeInv
  PROVE  /\ \A kind \in StreamOps \cup {"data"} : Item(kind) \in Items
         /\ \A kind \in Ops : Item(kind) \in Messages
         /\ decode.at = "relay" => decode.cmd \in Messages
  BY DEF TypeInv, Item, Items, Messages, StreamOps, Ops

(* The decode thread at the top of its loop. *)
LEMMA LoopType == /\ Loop \in [at : Places, cmd : Items] /\ Loop.at = "loop"
                  /\ Loop.cmd \in Items /\ Loop.cmd.track = 0
  BY PlayerBounds DEF Loop, At, Places, Items, StreamOps, Tracks

(* Every step keeps the types. *)
LEMMA TypeStep == TypeInv /\ [Next]_vars => TypeInv'
  <1> SUFFICES ASSUME TypeInv, [Next]_vars PROVE TypeInv'
    OBVIOUS
  <1> USE DEF TypeInv
  <1> USE DEF streamVars, decodeVars, outputVars, clientVars, history
  <1>0. CASE UNCHANGED vars
    BY <1>0 DEF vars
  <1>1. CASE beep_player_local_start
    BY <1>1 DEF beep_player_local_start
  <1>2. CASE beep_player_local_st_begin
    BY <1>2, PlayerBounds DEF beep_player_local_st_begin, Tracks
  <1>3. CASE beep_player_local_buffer
    <2>1. stream' \in Seq(Items)
      BY <1>3, ItemType, AppendProperties DEF beep_player_local_buffer, StreamOps
    <2> QED BY <1>3, <2>1 DEF beep_player_local_buffer
  <1>4. CASE audio_decoder_start
    <2>1. stream' \in Seq(Items)
      BY <1>4, ItemType, AppendProperties DEF audio_decoder_start, StreamOps
    <2> QED BY <1>4, <2>1 DEF audio_decoder_start, DecodeStates
  <1>5. CASE audio_decoder_resume
    <2>1. stream' \in Seq(Items)
      BY <1>5, ItemType, AppendProperties DEF audio_decoder_resume, StreamOps
    <2> QED BY <1>5, <2>1 DEF audio_decoder_resume
  <1>6. CASE beep_player_local_st_end
    <2>1. stream' \in Seq(Items)
      <3>1. Append(stream, Item("ST_END")) \in Seq(Items)
        BY ItemType, AppendProperties DEF StreamOps
      <3> QED BY <1>6, <3>1, Zenon DEF beep_player_local_st_end
    <2>2. open' \in BOOLEAN
      BY <1>6, Zenon DEF beep_player_local_st_end
    <2>3. feeder' \in {feeder, "aborted"}
      BY <1>6 DEF beep_player_local_st_end
    <2>4. UNCHANGED <<streaming, decodeVars, outputVars, started, track, lock, caller, history>>
      BY <1>6, Zenon DEF beep_player_local_st_end
    <2> QED BY <2>1, <2>2, <2>3, <2>4
  <1>7. CASE beep_player_local_flush
    BY <1>7, EmptySeq DEF beep_player_local_flush
  <1>8. CASE audio_decoder_flush
    <2>1. decode_mqueue' \in Seq(Messages)
      BY <1>8, ItemType, AppendProperties DEF audio_decoder_flush, Post, Ops
    <2> QED BY <1>8, <2>1 DEF audio_decoder_flush
  <1>9. CASE audio_pause
    <2>1. decode_mqueue' \in Seq(Messages)
      BY <1>9, ItemType, AppendProperties DEF audio_pause, Post, Ops
    <2> QED BY <1>9, <2>1 DEF audio_pause, CallerVars
  <1>10. CASE audio_resume
    <2>1. decode_mqueue' \in Seq(Messages)
      BY <1>10, ItemType, AppendProperties DEF audio_resume, Post, Ops
    <2> QED BY <1>10, <2>1 DEF audio_resume, CallerVars
  <1>11. CASE beep_player_local_stop
    <2>1. decode_mqueue' \in Seq(Messages)
      BY <1>11, ItemType, AppendProperties DEF beep_player_local_stop, Post, Ops
    <2> QED BY <1>11, <2>1 DEF beep_player_local_stop, CallerVars
  <1>12. CASE audio_decoder_stop
    <2>1. decode_mqueue' \in Seq(Messages)
      BY <1>12, ItemType, AppendProperties DEF audio_decoder_stop, Post, Ops
    <2> QED BY <1>12, <2>1 DEF audio_decoder_stop
  <1>13. CASE stop_done
    BY <1>13, EmptySeq DEF stop_done
  <1>14. CASE decode_start_handler
    <2>1. decode_mqueue' \in Seq(Messages) /\ UNCHANGED decode
      BY <1>14, Taken DEF decode_start_handler, Takes
    <2>2. decoder' \in Tracks
      <3>1. Head(decode_mqueue) \in Messages
        BY <1>14, Taken, Zenon DEF decode_start_handler, Takes
      <3> QED BY <1>14, <3>1 DEF decode_start_handler, Messages
    <2> QED BY <1>14, <2>1, <2>2 DEF decode_start_handler
  <1>15. CASE decode_resume_decoder_handler
    <2>1. decode_mqueue' \in Seq(Messages) /\ UNCHANGED decode
      BY <1>15, Taken DEF decode_resume_decoder_handler, Takes
    <2> QED BY <1>15, <2>1 DEF decode_resume_decoder_handler, DecodeStates
  <1>16. CASE decode_st_end_handler
    <2>1. decode_mqueue' \in Seq(Messages) /\ UNCHANGED decode
      BY <1>16, Taken DEF decode_st_end_handler, Takes
    <2>2. streaming' \in BOOLEAN
      BY <1>16, Zenon DEF decode_st_end_handler
    <2> QED BY <1>16, <2>1, <2>2 DEF decode_st_end_handler
  <1>17. CASE decode_stop_handler
    <2>1. decode_mqueue' \in Seq(Messages) /\ UNCHANGED decode
      BY <1>17, Taken DEF decode_stop_handler, Takes
    <2>2. heard' \in BOOLEAN
      BY <1>17, Zenon DEF decode_stop_handler
    <2>3. pcm' \in Seq([track : Tracks, by : Tracks]) /\ decoder' \in Tracks
      BY <1>17, PlayerBounds, EmptySeq DEF decode_stop_handler, decode_output_end, Tracks
    <2> QED BY <1>17, <2>1, <2>2, <2>3 DEF decode_stop_handler, DecodeStates
  <1>18. CASE decode_flush_handler
    <2>1. decode_mqueue' \in Seq(Messages) /\ UNCHANGED decode
      BY <1>18, Taken DEF decode_flush_handler, Takes
    <2> QED BY <1>18, <2>1, EmptySeq DEF decode_flush_handler, decode_output_end
  <1>19. CASE audio_pause_audio_handler
    <2>1. decode_mqueue' \in Seq(Messages) /\ UNCHANGED decode
      BY <1>19, Taken DEF audio_pause_audio_handler, Takes
    <2> QED BY <1>19, <2>1 DEF audio_pause_audio_handler
  <1>20. CASE decode_resume_audio_handler
    <2>1. decode_mqueue' \in Seq(Messages) /\ UNCHANGED decode
      BY <1>20, Taken DEF decode_resume_audio_handler, Takes
    <2> QED BY <1>20, <2>1 DEF decode_resume_audio_handler
  <1>21. CASE mqueue_read_timeout
    BY <1>21 DEF mqueue_read_timeout, Places
  <1>22. CASE streambuf_cmd_deq
    <2>1. stream' \in Seq(Items) /\ Head(stream) \in Items
      BY <1>22, Taken DEF streambuf_cmd_deq
    <2>2. Head(stream).kind \in StreamOps
      BY <1>22, <2>1 DEF streambuf_cmd_deq, IsCommand, Items
    <2> QED BY <1>22, <2>1, <2>2 DEF streambuf_cmd_deq, At, Places
  <1>23. CASE mqueue_write_request
    <2>1. decode_mqueue' \in Seq(Messages)
      BY <1>23, ItemType, AppendProperties DEF mqueue_write_request
    <2> QED BY <1>23, <2>1, LoopType DEF mqueue_write_request
  <1>24. CASE decoder_callback
    <2>1. stream' \in Seq(Items)
      BY <1>24, Taken DEF decoder_callback
    <2>2. decode' \in [at : Places, cmd : Items] /\ decode'.at \notin {"relay", "aborted"}
      BY <1>24, Taken, LoopType DEF decoder_callback, At, Places
    <2> QED BY <1>24, <2>1, <2>2 DEF decoder_callback
  <1>25. CASE decoder_output
    <2>1. pcm' \in Seq([track : Tracks, by : Tracks])
      <3>1. [track |-> decode.cmd.track, by |-> decoder] \in [track : Tracks, by : Tracks]
        BY DEF Items
      <3>2. Append(pcm, [track |-> decode.cmd.track, by |-> decoder])
              \in Seq([track : Tracks, by : Tracks])
        BY <3>1, AppendProperties
      <3> QED BY <1>25, <3>2, Zenon DEF decoder_output
    <2>2. decode_state' \in DecodeStates
      BY <1>25 DEF decoder_output, DecodeStates
    <2>3. overtaken' \in BOOLEAN
      BY <1>25, Zenon DEF decoder_output
    <2> QED BY <1>25, <2>1, <2>2, <2>3, LoopType DEF decoder_output
  <1>26. CASE decode_nothing
    BY <1>26, LoopType DEF decode_nothing
  <1>28. CASE mqueue_write_fails
    BY <1>28 DEF mqueue_write_fails, Places
  <1>27. CASE playback_callback
    <2>1. pcm' \in Seq([track : Tracks, by : Tracks])
      BY <1>27, Taken DEF playback_callback
    <2> QED BY <1>27, <2>1 DEF playback_callback
  <1> QED
    BY <1>0, <1>1, <1>2, <1>3, <1>4, <1>5, <1>6, <1>7, <1>8, <1>9, <1>10, <1>11, <1>12,
       <1>13, <1>14, <1>15, <1>16, <1>17, <1>18, <1>19, <1>20, <1>21, <1>22, <1>23, <1>24,
       <1>25, <1>26, <1>27, <1>28
    DEF Next, StreamThread, UbusThread, Finish, DecodeThread
-----------------------------------------------------------------------------
\* What a write to a queue and a read from one make of its elements.
Grown(q, r, e) ==
  /\ Len(q) \in Nat /\ Len(r) = Len(q) + 1
  /\ \A i \in 1 .. Len(q) : r[i] = q[i]
  /\ r[Len(q) + 1] = e

Shrunk(q, r) ==
  /\ Len(q) \in Nat \ {0} /\ Len(r) = Len(q) - 1
  /\ \A i \in 1 .. Len(r) : i + 1 \in 1 .. Len(q) /\ r[i] = q[i + 1]

(* A call posts a message. *)
LEMMA Posted ==
  ASSUME TypeInv, NEW kind \in Ops, Post(kind)
  PROVE  /\ Grown(decode_mqueue, decode_mqueue', Item(kind))
         /\ Item(kind).kind = kind /\ Item(kind).track = track
  <1>1. decode_mqueue \in Seq(Messages) /\ Item(kind) \in Messages
    BY ItemType DEF TypeInv
  <1>2. Item(kind).kind = kind /\ Item(kind).track = track
    BY DEF Item
  <1> QED BY <1>1, <1>2, Appended DEF Post, Grown

(* The decode thread posts the command it met in the stream. *)
LEMMA Relayed ==
  ASSUME TypeInv, mqueue_write_request
  PROVE  Grown(decode_mqueue, decode_mqueue', decode.cmd) /\ decode'.at = "loop"
  <1>1. decode_mqueue \in Seq(Messages) /\ decode.cmd \in Messages
    BY ItemType DEF TypeInv, mqueue_write_request
  <1>2. decode'.at = "loop"
    BY LoopType DEF mqueue_write_request
  <1> QED BY <1>1, <1>2, Appended DEF mqueue_write_request, Grown

(* The stream thread writes to the stream. *)
LEMMA Fed ==
  ASSUME TypeInv, NEW kind \in StreamOps \cup {"data"}, stream' = Append(stream, Item(kind))
  PROVE  /\ Grown(stream, stream', Item(kind))
         /\ Item(kind).kind = kind /\ Item(kind).track = track
  <1>1. stream \in Seq(Items) /\ Item(kind) \in Items
    BY ItemType DEF TypeInv
  <1>2. Item(kind).kind = kind /\ Item(kind).track = track
    BY DEF Item
  <1> QED BY <1>1, <1>2, Appended DEF Grown

(* The decode thread takes the message at the head of its queue. *)
LEMMA Handled ==
  ASSUME TypeInv, NEW kind, Takes(kind)
  PROVE  /\ Shrunk(decode_mqueue, decode_mqueue') /\ decode_mqueue[1].kind = kind
         /\ Head(decode_mqueue) = decode_mqueue[1] /\ decode.at = "loop" /\ UNCHANGED decode
  <1>1. decode_mqueue \in Seq(Messages) /\ decode_mqueue # << >>
    BY DEF TypeInv, Takes
  <1> QED BY <1>1, Taken DEF Takes, Shrunk

(* The decode thread takes an item from the stream. *)
LEMMA Read ==
  ASSUME TypeInv, stream # << >>, stream' = Tail(stream)
  PROVE  Shrunk(stream, stream') /\ Head(stream) = stream[1] /\ Head(stream) \in Items
  <1>1. stream \in Seq(Items)
    BY DEF TypeInv
  <1> QED BY <1>1, Taken DEF Shrunk
-----------------------------------------------------------------------------
(* The bound on the message queue: of the messages beyond QueueMax each kind *)
(* that may be there is there once.                                          *)
LEMMA QueueBound ==
  ASSUME TypeInv, QueueInv
  PROVE  Len(decode_mqueue) <= QueueMax + 2
  <1>1. Len(decode_mqueue) \in Nat /\ QueueMax \in Nat
    BY LenProperties, PlayerBounds DEF TypeInv
  <1>2. ASSUME NEW i \in 1 .. Len(decode_mqueue), i > QueueMax
        PROVE  decode_mqueue[i].kind \in {"STOP", "FLUSH"}
    <2>1. decode_mqueue[i].kind \in Ops
      <3>1. decode_mqueue \in Seq(Messages)
        BY DEF TypeInv
      <3>2. decode_mqueue[i] \in Messages
        BY <3>1, ElementOfSeq
      <3> QED BY <3>2 DEF Messages
    <2> QED BY <1>1, <1>2, <2>1 DEF QueueInv, Ops, StreamOps
  <1>3. SUFFICES ASSUME Len(decode_mqueue) > QueueMax + 2 PROVE FALSE
    BY <1>1
  <1> DEFINE k(n) == decode_mqueue[QueueMax + n].kind
  <1>4. \A n \in 1 .. 3 : /\ QueueMax + n \in 1 .. Len(decode_mqueue) /\ QueueMax + n > QueueMax
                          /\ k(n) \in {"STOP", "FLUSH"}
    BY <1>1, <1>2, <1>3
  <1>5. \A n, m \in 1 .. 3 : n # m =>
          ~(k(n) = "FLUSH" /\ k(m) = "FLUSH") /\ ~(k(n) = "STOP" /\ k(m) = "STOP")
    BY <1>1, <1>4 DEF QueueInv
  <1> HIDE DEF k
  <1>6. 1 \in 1 .. 3 /\ 2 \in 1 .. 3 /\ 3 \in 1 .. 3
    OBVIOUS
  <1> QED BY <1>4, <1>5, <1>6

\* The steps that leave the client threads where they are.
Aside ==
  \/ beep_player_local_buffer \/ audio_pause \/ audio_resume \/ playback_callback
  \/ (DecodeThread /\ ~decode_flush_handler)

(* They change neither the lock nor the place of a client thread. *)
LEMMA AsideClients == ASSUME Aside PROVE UNCHANGED clientVars
  BY DEF Aside, DecodeThread, beep_player_local_buffer, audio_pause, audio_resume, CallerVars,
    playback_callback, decode_start_handler, decode_resume_decoder_handler,
    decode_st_end_handler, decode_stop_handler, audio_pause_audio_handler,
    decode_resume_audio_handler, mqueue_read_timeout, streambuf_cmd_deq, mqueue_write_request,
    decoder_callback, decoder_output, decode_nothing, mqueue_write_fails, clientVars

(* Every step keeps the lock and its holder together. *)
LEMMA LockStep == TypeInv /\ LockInv /\ QueueInv /\ [Next]_vars => LockInv'
  <1> SUFFICES ASSUME TypeInv, LockInv, QueueInv, [Next]_vars PROVE LockInv'
    OBVIOUS
  <1>0. CASE UNCHANGED clientVars
    BY <1>0 DEF LockInv, clientVars
  <1>1. CASE beep_player_local_start
    BY <1>1 DEF LockInv, beep_player_local_start
  <1>2. CASE beep_player_local_st_begin
    BY <1>2 DEF LockInv, beep_player_local_st_begin, CanFeed
  <1>3. CASE audio_decoder_start
    BY <1>3 DEF LockInv, audio_decoder_start
  <1>4. CASE audio_decoder_resume
    BY <1>4 DEF LockInv, audio_decoder_resume
  <1>5. CASE beep_player_local_st_end
    BY <1>5 DEF LockInv, beep_player_local_st_end, CanFeed
  <1>6. CASE beep_player_local_flush
    BY <1>6 DEF LockInv, beep_player_local_flush
  <1>7. CASE audio_decoder_flush
    BY <1>7 DEF LockInv, audio_decoder_flush
  <1>8. CASE beep_player_local_stop
    BY <1>8 DEF LockInv, beep_player_local_stop, CanCall, CallerVars
  <1>9. CASE audio_decoder_stop
    BY <1>9 DEF LockInv, audio_decoder_stop
  <1>10. CASE stop_done
    BY <1>10 DEF LockInv, stop_done
  <1>11. CASE decode_flush_handler
    <2>1. 1 \in 1 .. Len(decode_mqueue) /\ decode_mqueue[1].kind = "FLUSH"
      BY <1>11, Handled DEF decode_flush_handler, Shrunk
    <2>2. feeder = "wait"
      BY <2>1 DEF QueueInv
    <2> QED BY <1>11, <2>2 DEF LockInv, decode_flush_handler
  <1> QED
    BY <1>0, <1>1, <1>2, <1>3, <1>4, <1>5, <1>6, <1>7, <1>8, <1>9, <1>10, <1>11, AsideClients
    DEF Next, StreamThread, UbusThread, Finish, Aside, vars, clientVars

(* Every step leaves the room that the threads count on. *)
LEMMA RoomStep == TypeInv /\ RoomInv /\ [Next]_vars => RoomInv'
  <1> SUFFICES ASSUME TypeInv, RoomInv, [Next]_vars PROVE RoomInv'
    OBVIOUS
  <1>n. /\ Len(stream) \in Nat /\ StreamMax \in Nat /\ StreamMax > 0
        /\ Len(pcm) \in Nat /\ PcmMax \in Nat
    BY LenProperties, PlayerBounds DEF TypeInv
  <1>0. CASE UNCHANGED <<stream, pcm, feeder, decode>>
    BY <1>0 DEF RoomInv
  <1>1. CASE beep_player_local_start
    BY <1>1, <1>0 DEF beep_player_local_start, streamVars, outputVars, decodeVars
  <1>2. CASE beep_player_local_st_begin
    BY <1>2, <1>n DEF RoomInv, beep_player_local_st_begin, CanFeed, outputVars, decodeVars
  <1>3. CASE audio_decoder_start
    BY <1>3, <1>n, Fed DEF RoomInv, audio_decoder_start, Grown, StreamOps, outputVars
  <1>4. CASE audio_decoder_resume
    BY <1>4, <1>n, Fed DEF RoomInv, audio_decoder_resume, Grown, StreamOps, outputVars, decodeVars
  <1>5. CASE beep_player_local_buffer
    BY <1>5, <1>n, Fed
    DEF RoomInv, beep_player_local_buffer, CanFeed, Grown, outputVars, decodeVars, clientVars
  <1>6. CASE beep_player_local_st_end
    <2>1. Len(stream') <= StreamMax + 1
      <3>1. CASE stream' = Append(stream, Item("ST_END"))
        BY <1>6, <1>n, <3>1, Fed DEF beep_player_local_st_end, CanFeed, Grown, StreamOps
      <3>2. CASE UNCHANGED stream
        BY <3>2 DEF RoomInv
      <3> QED BY <1>6, <3>1, <3>2 DEF beep_player_local_st_end
    <2> QED BY <1>6, <2>1
        DEF RoomInv, beep_player_local_st_end, CanFeed, outputVars, decodeVars
  <1>7. CASE beep_player_local_flush
    BY <1>7, <1>n DEF RoomInv, beep_player_local_flush, outputVars, decodeVars
  <1>8. CASE audio_decoder_flush
    BY <1>8 DEF RoomInv, audio_decoder_flush, outputVars, streamVars
  <1>9. CASE audio_pause \/ audio_resume \/ beep_player_local_stop \/ audio_decoder_stop
    BY <1>9, <1>0 DEF audio_pause, audio_resume, beep_player_local_stop, audio_decoder_stop,
      CallerVars, streamVars, outputVars
  <1>10. CASE stop_done
    BY <1>10, <1>n DEF RoomInv, stop_done, outputVars, decodeVars
  <1>11. CASE \/ decode_start_handler \/ decode_resume_decoder_handler \/ decode_st_end_handler
              \/ audio_pause_audio_handler \/ decode_resume_audio_handler
    BY <1>11, <1>0 DEF decode_start_handler, decode_resume_decoder_handler,
      decode_st_end_handler, audio_pause_audio_handler, decode_resume_audio_handler, Takes,
      streamVars, outputVars, clientVars
  <1>12. CASE decode_stop_handler \/ decode_flush_handler
    BY <1>12, <1>n DEF RoomInv, decode_stop_handler, decode_flush_handler, decode_output_end,
      Takes, streamVars, clientVars
  <1>13. CASE mqueue_read_timeout \/ mqueue_write_fails
    BY <1>13 DEF RoomInv, mqueue_read_timeout, mqueue_write_fails, TypeInv, streamVars, outputVars,
      clientVars
  <1>14. CASE streambuf_cmd_deq
    BY <1>14, <1>n, Read
    DEF RoomInv, streambuf_cmd_deq, Shrunk, At, outputVars, clientVars
  <1>15. CASE mqueue_write_request \/ decode_nothing
    BY <1>15, LoopType
    DEF RoomInv, mqueue_write_request, decode_nothing, streamVars, outputVars, clientVars
  <1>16. CASE decoder_callback
    <2>1. Len(stream') <= Len(stream)
      BY <1>16, <1>n, Read DEF decoder_callback, Shrunk
    <2> QED BY <1>16, <1>n, <2>1
        DEF RoomInv, decoder_callback, audio_decode_timer_interval, TypeInv, outputVars, clientVars
  <1>17. CASE decoder_output
    <2>1. Len(pcm') <= PcmMax
      <3>1. ASSUME NEW e PROVE Len(Append(pcm, e)) = Len(pcm) + 1
        BY DEF TypeInv
      <3> QED BY <1>17, <1>n, <3>1 DEF RoomInv, decoder_output
    <2> QED BY <1>17, <2>1, LoopType DEF RoomInv, decoder_output, streamVars, clientVars
  <1>18. CASE playback_callback
    BY <1>18, <1>n, Taken
    DEF RoomInv, playback_callback, TypeInv, streamVars, decodeVars, clientVars
  <1> QED
    BY <1>0, <1>1, <1>2, <1>3, <1>4, <1>5, <1>6, <1>7, <1>8, <1>9, <1>10, <1>11, <1>12,
       <1>13, <1>14, <1>15, <1>16, <1>17, <1>18
    DEF Next, StreamThread, UbusThread, Finish, DecodeThread, vars, streamVars, outputVars,
        decodeVars, clientVars

(* Taking a message keeps the order and the number of the others. *)
LEMMA ShrunkQueue ==
  ASSUME TypeInv, QueueInv, Shrunk(decode_mqueue, decode_mqueue'), UNCHANGED <<decode, caller>>,
         \/ UNCHANGED feeder
         \/ \A i \in 1 .. Len(decode_mqueue') : decode_mqueue'[i].kind # "FLUSH"
  PROVE  QueueInv'
  <1>n. QueueMax \in Nat
    BY PlayerBounds
  <1>1. ASSUME NEW i \in 1 .. Len(decode_mqueue')
        PROVE  /\ i + 1 \in 1 .. Len(decode_mqueue) /\ decode_mqueue'[i] = decode_mqueue[i + 1]
               /\ i \in Int /\ (i + 1 <= QueueMax => i <= QueueMax)
    BY <1>n DEF Shrunk
  <1>2. ASSUME NEW i \in 1 .. Len(decode_mqueue')
        PROVE  /\ decode_mqueue'[i].kind \in {"PAUSE", "RESUME_AUDIO"} => i <= QueueMax
               /\ decode_mqueue'[i].kind = "FLUSH" => feeder' = "wait"
               /\ decode_mqueue'[i].kind \in StreamOps => decode'.at = "loop" /\ i <= QueueMax
               /\ decode_mqueue'[i].kind = "STOP" /\ caller' = "lock" => i <= QueueMax
    BY <1>1 DEF QueueInv
  <1>3. ASSUME NEW i \in 1 .. Len(decode_mqueue'), NEW j \in 1 .. Len(decode_mqueue'), i # j
        PROVE  /\ ~(decode_mqueue'[i].kind = "FLUSH" /\ decode_mqueue'[j].kind = "FLUSH")
               /\ ~(decode_mqueue'[i].kind \in StreamOps /\ decode_mqueue'[j].kind \in StreamOps)
               /\ i > QueueMax /\ j > QueueMax
                    => ~(decode_mqueue'[i].kind = "STOP" /\ decode_mqueue'[j].kind = "STOP")
    <2>1. i + 1 # j + 1 /\ (i > QueueMax => i + 1 > QueueMax) /\ (j > QueueMax => j + 1 > QueueMax)
      BY <1>n, <1>1, <1>3
    <2> QED BY <1>1, <1>3, <2>1 DEF QueueInv
  <1> QED BY <1>2, <1>3 DEF QueueInv

(* Every step keeps the order and the number of the queued messages. *)
LEMMA QueueStep == TypeInv /\ LockInv /\ QueueInv /\ [Next]_vars => QueueInv'
  <1> SUFFICES ASSUME TypeInv, LockInv, QueueInv, [Next]_vars PROVE QueueInv'
    OBVIOUS
  <1>n. Len(decode_mqueue) \in Nat /\ QueueMax \in Nat
    BY LenProperties, PlayerBounds DEF TypeInv
  <1>0. CASE /\ UNCHANGED decode_mqueue
             /\ feeder = "wait" => feeder' = "wait"
             /\ decode.at = "loop" => decode'.at = "loop"
             /\ caller' = "lock" => caller = "lock"
    BY <1>0 DEF QueueInv
  <1>1. CASE \/ beep_player_local_start \/ beep_player_local_st_begin \/ audio_decoder_start
             \/ audio_decoder_resume \/ beep_player_local_buffer \/ beep_player_local_st_end
             \/ beep_player_local_flush \/ stop_done \/ playback_callback
    BY <1>0, <1>1 DEF beep_player_local_start, beep_player_local_st_begin, audio_decoder_start,
      audio_decoder_resume, beep_player_local_buffer, beep_player_local_st_end,
      beep_player_local_flush, stop_done, playback_callback, CanFeed, decodeVars, clientVars
  <1>2. CASE streambuf_cmd_deq \/ decoder_callback \/ decoder_output \/ decode_nothing
    BY <1>0, <1>2 DEF streambuf_cmd_deq, decoder_callback, decoder_output, decode_nothing,
      clientVars
  <1>3. CASE mqueue_read_timeout
    BY <1>3 DEF mqueue_read_timeout, QueueInv
  <1>10. CASE mqueue_write_fails
    BY <1>0, <1>10 DEF mqueue_write_fails, clientVars
  <1>4. CASE audio_pause \/ audio_resume \/ beep_player_local_stop
    <2> DEFINE e == decode_mqueue'[Len(decode_mqueue) + 1]
    <2>1. PICK kind \in {"PAUSE", "RESUME_AUDIO"} : Post(kind)
      BY <1>4 DEF audio_pause, audio_resume, beep_player_local_stop
    <2>2. Grown(decode_mqueue, decode_mqueue', Item(kind)) /\ Item(kind).kind = kind
      BY <2>1, Posted DEF Ops
    <2>3. Len(decode_mqueue) < QueueMax /\ UNCHANGED <<feeder, decode>>
      BY <1>n, <1>4 DEF audio_pause, audio_resume, beep_player_local_stop, CanCall, Full, CallerVars
    <2> QED BY <1>n, <2>2, <2>3 DEF QueueInv, Grown, StreamOps
  <1>5. CASE audio_decoder_stop
    <2>1. Grown(decode_mqueue, decode_mqueue', Item("STOP")) /\ Item("STOP").kind = "STOP"
      BY <1>5, Posted DEF audio_decoder_stop, Ops
    <2>2. UNCHANGED <<feeder, decode>> /\ caller = "lock" /\ caller' = "stop"
      BY <1>5 DEF audio_decoder_stop
    <2> QED BY <1>n, <2>1, <2>2 DEF QueueInv, Grown, StreamOps
  <1>6. CASE audio_decoder_flush
    <2>1. Grown(decode_mqueue, decode_mqueue', Item("FLUSH")) /\ Item("FLUSH").kind = "FLUSH"
      BY <1>6, Posted DEF audio_decoder_flush, Ops
    <2>2. UNCHANGED <<caller, decode>> /\ feeder = "flush" /\ feeder' = "wait"
      BY <1>6 DEF audio_decoder_flush
    <2> QED BY <1>n, <2>1, <2>2 DEF QueueInv, Grown, StreamOps
  <1>7. CASE mqueue_write_request
    <2>1. Grown(decode_mqueue, decode_mqueue', decode.cmd) /\ decode'.at = "loop"
      BY <1>7, Relayed
    <2>2. UNCHANGED <<caller, feeder>> /\ decode.at = "relay" /\ decode.cmd.kind \in StreamOps
      BY <1>7 DEF mqueue_write_request, clientVars, TypeInv
    <2>3. Len(decode_mqueue) + 1 <= QueueMax
      BY <1>n, <1>7 DEF mqueue_write_request, Full
    <2> QED BY <1>n, <2>1, <2>2, <2>3 DEF QueueInv, Grown, StreamOps
  <1>8. CASE \/ decode_start_handler \/ decode_resume_decoder_handler \/ decode_st_end_handler
             \/ decode_stop_handler \/ audio_pause_audio_handler \/ decode_resume_audio_handler
    <2>1. Shrunk(decode_mqueue, decode_mqueue') /\ UNCHANGED decode
      BY <1>8, Handled DEF decode_start_handler, decode_resume_decoder_handler,
        decode_st_end_handler, decode_stop_handler, audio_pause_audio_handler,
        decode_resume_audio_handler
    <2>2. UNCHANGED <<caller, feeder>>
      BY <1>8 DEF decode_start_handler, decode_resume_decoder_handler, decode_st_end_handler,
        decode_stop_handler, audio_pause_audio_handler, decode_resume_audio_handler, clientVars
    <2> QED BY <2>1, <2>2, ShrunkQueue
  <1>9. CASE decode_flush_handler
    <2>1. /\ Shrunk(decode_mqueue, decode_mqueue') /\ UNCHANGED decode
          /\ decode_mqueue[1].kind = "FLUSH"
      BY <1>9, Handled DEF decode_flush_handler
    <2>2. UNCHANGED caller
      BY <1>9 DEF decode_flush_handler
    <2>3. ASSUME NEW i \in 1 .. Len(decode_mqueue')
          PROVE  decode_mqueue'[i].kind # "FLUSH"
      <3>1. /\ i + 1 \in 1 .. Len(decode_mqueue) /\ decode_mqueue'[i] = decode_mqueue[i + 1]
            /\ 1 \in 1 .. Len(decode_mqueue) /\ i + 1 # 1
        BY <1>n, <2>1 DEF Shrunk
      <3>2. ~(decode_mqueue[1].kind = "FLUSH" /\ decode_mqueue[i + 1].kind = "FLUSH")
        BY <3>1 DEF QueueInv
      <3> QED BY <2>1, <3>1, <3>2
    <2> QED BY <2>1, <2>2, <2>3, ShrunkQueue
  <1> QED
    BY <1>0, <1>1, <1>2, <1>3, <1>4, <1>5, <1>6, <1>7, <1>8, <1>9, <1>10
    DEF Next, StreamThread, UbusThread, Finish, DecodeThread, vars, decodeVars, clientVars

(* Every step keeps the tracks of the commands in the past. *)
LEMMA TrackStep == TypeInv /\ TrackInv /\ [Next]_vars => TrackInv'
  <1> SUFFICES ASSUME TypeInv, TrackInv, [Next]_vars PROVE TrackInv'
    OBVIOUS
  <1>n. /\ Len(decode_mqueue) \in Nat /\ Len(stream) \in Nat /\ track \in Nat
        /\ \A i \in 1 .. Len(stream) : stream[i].track \in Nat
        /\ \A i \in 1 .. Len(decode_mqueue) : decode_mqueue[i].track \in Nat
        /\ decode.cmd.track \in Nat
    <2>1. /\ \A i \in 1 .. Len(stream) : stream[i] \in Items
          /\ \A i \in 1 .. Len(decode_mqueue) : decode_mqueue[i] \in Messages
      BY ElementOfSeq DEF TypeInv
    <2> QED BY <2>1, LenProperties, PlayerBounds DEF TypeInv, Items, Messages, Tracks
  <1>0. CASE UNCHANGED <<stream, decode_mqueue, decode>> /\ track' \in {track, track + 1}
    BY <1>0, <1>n DEF TrackInv
  <1>1. CASE \/ beep_player_local_start \/ beep_player_local_st_begin \/ playback_callback
    BY <1>0, <1>1 DEF beep_player_local_start, beep_player_local_st_begin, playback_callback,
      streamVars, decodeVars, clientVars
  <1>2. CASE \E kind \in StreamOps \cup {"data"} :
               stream' = Append(stream, Item(kind)) /\ UNCHANGED <<track, decode_mqueue, decode>>
    BY <1>2, <1>n, Fed DEF TrackInv, Grown
  <1>3. CASE audio_decoder_start \/ audio_decoder_resume \/ beep_player_local_buffer
    BY <1>2, <1>3 DEF audio_decoder_start, audio_decoder_resume, beep_player_local_buffer,
      StreamOps, decodeVars, clientVars
  <1>4. CASE beep_player_local_st_end
    BY <1>0, <1>2, <1>4 DEF beep_player_local_st_end, StreamOps, decodeVars
  <1>5. CASE stream' = << >> /\ UNCHANGED <<decode_mqueue, decode, track>>
    BY <1>5 DEF TrackInv
  <1>6. CASE beep_player_local_flush \/ stop_done
    BY <1>5, <1>6 DEF beep_player_local_flush, stop_done, decodeVars
  <1>7. CASE \E kind \in Ops : Post(kind) /\ UNCHANGED <<stream, track, decode>>
    BY <1>7, <1>n, Posted DEF TrackInv, Grown
  <1>8. CASE \/ audio_decoder_flush \/ audio_pause \/ audio_resume \/ beep_player_local_stop
             \/ audio_decoder_stop
    BY <1>7, <1>8 DEF audio_decoder_flush, audio_pause, audio_resume, beep_player_local_stop,
      audio_decoder_stop, CallerVars, Ops, streamVars
  <1>9. CASE \E kind \in Ops : Takes(kind) /\ UNCHANGED <<stream, track>>
    BY <1>9, <1>n, Handled DEF TrackInv, Shrunk
  <1>10. CASE \/ decode_start_handler \/ decode_resume_decoder_handler \/ decode_st_end_handler
              \/ decode_stop_handler \/ decode_flush_handler
              \/ audio_pause_audio_handler \/ decode_resume_audio_handler
    BY <1>9, <1>10 DEF decode_start_handler, decode_resume_decoder_handler,
      decode_st_end_handler, decode_stop_handler, decode_flush_handler,
      audio_pause_audio_handler, decode_resume_audio_handler, Ops, streamVars, clientVars
  <1>11. CASE mqueue_read_timeout \/ mqueue_write_fails
    BY <1>11 DEF TrackInv, mqueue_read_timeout, mqueue_write_fails, TypeInv, streamVars, clientVars
  <1>12. CASE streambuf_cmd_deq
    <2>1. Shrunk(stream, stream') /\ Head(stream) = stream[1]
      BY <1>12, Read DEF streambuf_cmd_deq
    <2> QED BY <1>12, <1>n, <2>1 DEF TrackInv, Shrunk, streambuf_cmd_deq, At, clientVars
  <1>13. CASE mqueue_write_request
    <2>1. Grown(decode_mqueue, decode_mqueue', decode.cmd) /\ decode' = Loop
      BY <1>13, Relayed DEF mqueue_write_request
    <2> QED BY <1>13, <1>n, <2>1, LoopType
        DEF TrackInv, Grown, mqueue_write_request, streamVars, clientVars
  <1>14. CASE decoder_callback
    <2>1. UNCHANGED <<decode_mqueue, track>>
      BY <1>14 DEF decoder_callback, clientVars
    <2>2. CASE stream = << >>
      BY <1>14, <1>n, <2>1, <2>2, LoopType DEF TrackInv, decoder_callback, At
    <2>3. CASE stream # << >>
      <3>1. Shrunk(stream, stream') /\ Head(stream) = stream[1] /\ decode'.cmd = stream[1]
        BY <1>14, <2>3, Read DEF decoder_callback, At
      <3> QED BY <1>n, <2>1, <3>1 DEF TrackInv, Shrunk
    <2> QED BY <2>2, <2>3
  <1>15. CASE decoder_output \/ decode_nothing
    BY <1>15, <1>n, LoopType
    DEF TrackInv, decoder_output, decode_nothing, streamVars, clientVars
  <1> QED
    BY <1>0, <1>1, <1>3, <1>4, <1>6, <1>8, <1>10, <1>11, <1>12, <1>13, <1>14, <1>15
    DEF Next, StreamThread, UbusThread, Finish, DecodeThread, vars, streamVars, decodeVars,
        clientVars
-----------------------------------------------------------------------------
(* A STOP that waits in the queue is still there after a message was posted, *)
(* and after another one was taken.                                          *)
LEMMA StopWaits ==
  ASSUME TypeInv, Stopped',
         \/ UNCHANGED decode_mqueue
         \/ \E e : Grown(decode_mqueue, decode_mqueue', e)
         \/ Shrunk(decode_mqueue, decode_mqueue') /\ decode_mqueue[1].kind # "STOP"
  PROVE  Stopped
  <1>n. Len(decode_mqueue) \in Nat
    BY LenProperties DEF TypeInv
  <1>1. CASE UNCHANGED decode_mqueue
    BY <1>1 DEF Stopped
  <1>2. CASE \E e : Grown(decode_mqueue, decode_mqueue', e)
    BY <1>2, <1>n DEF Grown, Stopped
  <1>3. CASE Shrunk(decode_mqueue, decode_mqueue') /\ decode_mqueue[1].kind # "STOP"
    <2>1. ASSUME NEW i \in 1 .. Len(decode_mqueue), i # 1
          PROVE  i - 1 \in 1 .. Len(decode_mqueue') /\ decode_mqueue'[i - 1] = decode_mqueue[i]
      <3>1. i - 1 \in 1 .. Len(decode_mqueue') /\ (i - 1) + 1 = i
        BY <1>3, <2>1 DEF Shrunk
      <3> QED BY <1>3, <3>1 DEF Shrunk
    <2> QED BY <1>3, <2>1 DEF Stopped
  <1> QED BY <1>1, <1>2, <1>3

(* Every step keeps a stopped player stopped. *)
LEMMA StopStep ==
  TypeInv /\ LockInv /\ TrackInv /\ StopInv /\ [Next]_vars => StopInv'
  <1> SUFFICES ASSUME TypeInv, LockInv, TrackInv, StopInv, [Next]_vars PROVE StopInv'
    OBVIOUS
  <1>0. CASE /\ UNCHANGED <<started, halted, track, caller, stream, streaming, decoder,
                            decode_state, revived>>
             /\ Stopped' => Stopped
             /\ pcm' = pcm \/ pcm' = << >>
             /\ decode' = decode \/ decode'.at \notin {"decoded", "underrun"}
    BY <1>0 DEF StopInv
  <1>1. CASE started'
    BY <1>1 DEF StopInv
  <1>2. CASE \/ beep_player_local_start \/ beep_player_local_st_begin \/ audio_decoder_start
             \/ audio_decoder_resume \/ beep_player_local_buffer \/ beep_player_local_st_end
    BY <1>1, <1>2 DEF beep_player_local_start, beep_player_local_st_begin, audio_decoder_start,
      audio_decoder_resume, beep_player_local_buffer, beep_player_local_st_end, CanFeed, LockInv,
      clientVars
  <1>3. CASE beep_player_local_flush
    BY <1>3 DEF beep_player_local_flush, StopInv, Stopped, streamVars, decodeVars, outputVars,
      history
  <1>4. CASE \/ audio_decoder_flush \/ audio_pause \/ audio_resume
    <2>1. \E kind \in Ops : Post(kind)
      BY <1>4 DEF audio_decoder_flush, audio_pause, audio_resume, Ops
    <2>2. Stopped' => Stopped
      BY <2>1, Posted, StopWaits
    <2> QED BY <1>0, <1>4, <2>2 DEF audio_decoder_flush, audio_pause, audio_resume, CallerVars,
          streamVars, outputVars, history
  <1>5. CASE beep_player_local_stop
    <2>1. Stopped' => Stopped
      BY <1>5, Posted, StopWaits DEF beep_player_local_stop, Ops
    <2> QED BY <1>5, <2>1 DEF StopInv, beep_player_local_stop, CanCall, CallerVars, streamVars,
          outputVars, history
  <1>6. CASE audio_decoder_stop
    <2>1. Grown(decode_mqueue, decode_mqueue', Item("STOP")) /\ Item("STOP").kind = "STOP"
      BY <1>6, Posted DEF audio_decoder_stop, Ops
    <2>2. ~Stopped'
      BY <2>1 DEF Stopped, Grown
    <2> QED BY <1>6, <2>2 DEF StopInv, audio_decoder_stop
  <1>7. CASE stop_done
    BY <1>7 DEF StopInv, Stopped, stop_done, decodeVars, outputVars, history
  <1>8. CASE decode_start_handler \/ decode_resume_decoder_handler
    <2>1. PICK kind \in {"START", "RESUME"} : Takes(kind)
      BY <1>8 DEF decode_start_handler, decode_resume_decoder_handler
    <2>2. /\ Shrunk(decode_mqueue, decode_mqueue') /\ decode_mqueue[1].kind = kind
          /\ Head(decode_mqueue) = decode_mqueue[1] /\ UNCHANGED decode
      BY <2>1, Handled
    <2>3. Stopped' => Stopped
      BY <2>2, StopWaits
    <2>4. decode_mqueue[1].track <= track
      BY <2>2 DEF Shrunk, TrackInv
    <2>5. ~started /\ Stopped => revived'
      <3>1. ASSUME ~started, Stopped PROVE Revives(Head(decode_mqueue))
        BY <2>2, <2>4, <3>1 DEF Revives, StopInv
      <3> QED BY <1>8, <3>1, Zenon DEF decode_start_handler, decode_resume_decoder_handler
    <2> QED BY <1>8, <2>3, <2>5 DEF StopInv, decode_start_handler, decode_resume_decoder_handler,
          streamVars, clientVars
  <1>9. CASE decode_st_end_handler
    <2>1. Stopped' => Stopped
      BY <1>9, Handled, StopWaits DEF decode_st_end_handler
    <2> QED BY <1>9, <2>1 DEF StopInv, decode_st_end_handler, Takes, outputVars, clientVars, history
  <1>10. CASE decode_stop_handler
    BY <1>10 DEF StopInv, decode_stop_handler, decode_output_end, Takes, streamVars, clientVars,
      history
  <1>11. CASE decode_flush_handler \/ audio_pause_audio_handler \/ decode_resume_audio_handler
    <2>1. Stopped' => Stopped
      BY <1>11, Handled, StopWaits DEF decode_flush_handler, audio_pause_audio_handler,
        decode_resume_audio_handler
    <2> QED BY <1>0, <1>11, <2>1 DEF decode_flush_handler, audio_pause_audio_handler,
          decode_resume_audio_handler, decode_output_end, Takes, streamVars, clientVars, history
  <1>12. CASE mqueue_read_timeout \/ decode_nothing \/ mqueue_write_fails
    BY <1>0, <1>12, LoopType DEF mqueue_read_timeout, decode_nothing, mqueue_write_fails,
      TypeInv, Stopped, streamVars, outputVars, clientVars, history
  <1>13. CASE streambuf_cmd_deq
    BY <1>13 DEF StopInv, streambuf_cmd_deq, At, Stopped, outputVars, clientVars, history
  <1>14. CASE mqueue_write_request
    <2>1. Stopped' => Stopped
      BY <1>14, Relayed, StopWaits
    <2> QED BY <1>0, <1>14, <2>1, LoopType DEF mqueue_write_request, streamVars, outputVars,
          clientVars, history
  <1>15. CASE decoder_callback
    BY <1>15 DEF StopInv, decoder_callback, audio_decode_timer_interval, Stopped, outputVars,
      clientVars, history
  <1>16. CASE decoder_output
    <2>1. Stopped' => Stopped
      BY <1>16 DEF decoder_output, Stopped
    <2>2. decode.at \in {"decoded", "underrun"} /\ UNCHANGED <<stream, streaming, started,
            halted, track, caller, revived>>
      BY <1>16 DEF decoder_output, streamVars, clientVars
    <2> QED BY <2>1, <2>2 DEF StopInv
  <1>17. CASE playback_callback
    BY <1>17 DEF StopInv, playback_callback, Stopped, streamVars, decodeVars, clientVars, history
  <1>18. CASE UNCHANGED vars
    BY <1>0, <1>18 DEF vars, Stopped, streamVars, decodeVars, outputVars, clientVars, history
  <1> QED
    BY <1>2, <1>3, <1>4, <1>5, <1>6, <1>7, <1>8, <1>9, <1>10, <1>11, <1>12, <1>13, <1>14,
       <1>15, <1>16, <1>17, <1>18
    DEF Next, StreamThread, UbusThread, Finish, DecodeThread
-----------------------------------------------------------------------------
(* A track begun without overtaking finds no command of another one. *)
LEMMA NotOvertaken ==
  ASSUME TypeInv, beep_player_local_st_begin, ~overtaken'
  PROVE  ~overtaken /\ \A kind \in StreamOps : ~InStream(kind) /\ ~Underway(kind)
  <1>1. ~overtaken /\ \A item \in Unhandled : item.kind \notin StreamOps
    BY Zenon DEF beep_player_local_st_begin, StreamOps
  <1>2. /\ \A i \in 1 .. Len(stream) : stream[i] \in Unhandled
        /\ \A i \in 1 .. Len(decode_mqueue) : decode_mqueue[i] \in Unhandled
        /\ decode.at = "relay" => decode.cmd \in Unhandled
    <2>1. DOMAIN stream = 1 .. Len(stream) /\ DOMAIN decode_mqueue = 1 .. Len(decode_mqueue)
      BY DEF TypeInv
    <2> QED BY <2>1 DEF Unhandled, Range
  <1>3. decode.at # "aborted"
    BY DEF beep_player_local_st_begin, CanFeed, Running
  <1> QED BY <1>1, <1>2, <1>3 DEF InStream, Underway, Queued

(* A track that was overtaken once stays so. *)
LEMMA OvertakenStays ==
  ASSUME [Next]_vars, ~overtaken'
  PROVE  ~overtaken
  <1>1. CASE beep_player_local_st_begin
    BY <1>1, Zenon DEF beep_player_local_st_begin
  <1>2. CASE decoder_output
    BY <1>2, Zenon DEF decoder_output
  <1>3. CASE UNCHANGED overtaken
    BY <1>3
  <1>4. CASE StreamThread /\ ~beep_player_local_st_begin
    BY <1>4, <1>3 DEF StreamThread, beep_player_local_start, beep_player_local_buffer,
      beep_player_local_st_end, beep_player_local_flush, history
  <1>5. CASE UbusThread \/ Finish \/ playback_callback
    BY <1>5, <1>3 DEF UbusThread, Finish, audio_pause, audio_resume, beep_player_local_stop,
      audio_decoder_start, audio_decoder_resume, audio_decoder_flush, audio_decoder_stop,
      stop_done, playback_callback, CallerVars, history
  <1>6. CASE DecodeThread /\ ~decoder_output
    BY <1>6, <1>3 DEF DecodeThread, decode_start_handler, decode_resume_decoder_handler,
      decode_st_end_handler, decode_stop_handler, decode_flush_handler,
      audio_pause_audio_handler, decode_resume_audio_handler, mqueue_read_timeout,
      streambuf_cmd_deq, mqueue_write_request, decoder_callback, decode_nothing, mqueue_write_fails,
      history
  <1>7. CASE UNCHANGED vars
    BY <1>7, <1>3 DEF vars, history
  <1> QED BY <1>1, <1>2, <1>4, <1>5, <1>6, <1>7 DEF Next

\* The steps that neither write nor read the message queue.
QueueAlone ==
  \/ StreamThread \/ audio_decoder_start \/ audio_decoder_resume \/ stop_done
  \/ playback_callback \/ UNCHANGED vars

(* They leave the queue and the decode thread alone. *)
LEMMA QueueAloneKeeps ==
  ASSUME QueueAlone
  PROVE  UNCHANGED <<decode_mqueue, decode>>
  BY DEF QueueAlone, StreamThread, beep_player_local_start, beep_player_local_st_begin,
    beep_player_local_buffer, beep_player_local_st_end, beep_player_local_flush,
    audio_decoder_start, audio_decoder_resume, stop_done, playback_callback, vars, decodeVars

\* The steps that post a message of a client, and those that take one.
Posting == UbusThread \/ audio_decoder_flush \/ audio_decoder_stop

Handling ==
  \/ decode_start_handler \/ decode_resume_decoder_handler \/ decode_st_end_handler
  \/ decode_stop_handler \/ decode_flush_handler
  \/ audio_pause_audio_handler \/ decode_resume_audio_handler

(* A client posts a message that is no command of the stream. *)
LEMMA PostingPosts ==
  ASSUME TypeInv, Posting
  PROVE  /\ \E kind \in Ops \ StreamOps :
                /\ Grown(decode_mqueue, decode_mqueue', Item(kind))
                /\ Item(kind).kind = kind
         /\ UNCHANGED <<stream, streaming, decode, decoder, decode_state, track, open, pcm>>
  <1>1. PICK kind \in Ops \ StreamOps : Post(kind)
    BY DEF Posting, UbusThread, audio_pause, audio_resume, beep_player_local_stop,
      audio_decoder_flush, audio_decoder_stop, Ops, StreamOps
  <1>2. UNCHANGED <<stream, streaming, decode, decoder, decode_state, track, open, pcm>>
    BY DEF Posting, UbusThread, audio_pause, audio_resume, beep_player_local_stop,
      audio_decoder_flush, audio_decoder_stop, CallerVars, streamVars, outputVars
  <1> QED BY <1>1, <1>2, Posted

(* A handler takes the message it handles. *)
LEMMA HandlingTakes ==
  ASSUME Handling
  PROVE  /\ \E kind \in Ops : Takes(kind)
         /\ UNCHANGED <<stream, decode, track, open, started>>
  BY DEF Handling, decode_start_handler, decode_resume_decoder_handler, decode_st_end_handler,
    decode_stop_handler, decode_flush_handler, audio_pause_audio_handler,
    decode_resume_audio_handler, Takes, Ops, streamVars, clientVars

(* A command is underway when it was, or when it was just read from the      *)
(* stream.                                                                   *)
LEMMA UnderwayBefore ==
  ASSUME TypeInv, [Next]_vars, NEW kind \in StreamOps, Underway(kind)'
  PROVE  \/ Underway(kind)
         \/ streambuf_cmd_deq /\ stream # << >> /\ stream[1].kind = kind
  <1>n. Len(decode_mqueue) \in Nat
    BY LenProperties DEF TypeInv
  <1>1. CASE QueueAlone
    BY <1>1, QueueAloneKeeps DEF Underway, Queued
  <1>2. CASE Posting
    <2>1. PICK k \in Ops \ StreamOps :
            Grown(decode_mqueue, decode_mqueue', Item(k)) /\ Item(k).kind = k
      BY <1>2, PostingPosts
    <2>2. UNCHANGED decode
      BY <1>2, PostingPosts
    <2> QED BY <1>n, <2>1, <2>2 DEF Underway, Queued, Grown
  <1>3. CASE Handling
    <2>1. Shrunk(decode_mqueue, decode_mqueue') /\ UNCHANGED decode
      BY <1>3, HandlingTakes, Handled
    <2> QED BY <1>n, <2>1 DEF Underway, Queued, Shrunk
  <1>4. CASE mqueue_write_request
    <2>1. Grown(decode_mqueue, decode_mqueue', decode.cmd) /\ decode'.at = "loop"
      BY <1>4, Relayed
    <2>2. decode.at = "relay"
      BY <1>4 DEF mqueue_write_request
    <2> QED BY <1>n, <2>1, <2>2 DEF Underway, Queued, Grown
  <1>5. CASE \/ mqueue_read_timeout \/ decoder_callback \/ decoder_output \/ decode_nothing
             \/ mqueue_write_fails
    BY <1>5, LoopType DEF Underway, Queued, mqueue_read_timeout, decoder_callback,
      decoder_output, decode_nothing, mqueue_write_fails, At, TypeInv
  <1>6. CASE streambuf_cmd_deq
    <2>1. stream # << >> /\ stream' = Tail(stream)
      BY <1>6 DEF streambuf_cmd_deq
    <2>2. Head(stream) = stream[1]
      BY <2>1, Read
    <2> QED BY <1>6, <2>1, <2>2 DEF Underway, Queued, streambuf_cmd_deq, At
  <1> QED
    BY <1>1, <1>2, <1>3, <1>4, <1>5, <1>6
    DEF Next, QueueAlone, Posting, Handling, UbusThread, Finish, DecodeThread

(* A command underway stays so until it is handled. *)
LEMMA UnderwayAfter ==
  ASSUME TypeInv, [Next]_vars, NEW kind \in StreamOps, Underway(kind), QueueInv,
         ~(Handling /\ Takes(kind))
  PROVE  Underway(kind)'
  <1>n. Len(decode_mqueue) \in Nat
    BY LenProperties DEF TypeInv
  <1>1. CASE QueueAlone
    BY <1>1, QueueAloneKeeps DEF Underway, Queued
  <1>2. CASE Posting
    <2>1. PICK k \in Ops \ StreamOps : Grown(decode_mqueue, decode_mqueue', Item(k))
      BY <1>2, PostingPosts
    <2>2. UNCHANGED decode
      BY <1>2, PostingPosts
    <2> QED BY <1>n, <2>1, <2>2 DEF Underway, Queued, Grown
  <1>3. CASE Handling
    <2>1. PICK k \in Ops : Takes(k)
      BY <1>3, HandlingTakes
    <2>2. /\ Shrunk(decode_mqueue, decode_mqueue') /\ UNCHANGED decode
          /\ decode_mqueue[1].kind = k /\ decode.at = "loop"
      BY <2>1, Handled
    <2>3. PICK i \in 1 .. Len(decode_mqueue) : decode_mqueue[i].kind = kind
      BY <2>2 DEF Underway, Queued
    <2>4. i # 1
      BY <1>3, <2>1, <2>2, <2>3
    <2>5. i - 1 \in 1 .. Len(decode_mqueue') /\ (i - 1) + 1 = i
      BY <2>2, <2>4 DEF Shrunk
    <2>6. decode_mqueue'[i - 1].kind = kind
      BY <2>2, <2>3, <2>5 DEF Shrunk
    <2> QED BY <2>5, <2>6 DEF Underway, Queued
  <1>4. CASE mqueue_write_request
    <2>1. Grown(decode_mqueue, decode_mqueue', decode.cmd)
      BY <1>4, Relayed
    <2> QED BY <1>n, <2>1 DEF Underway, Queued, Grown
  <1>5. CASE \/ mqueue_read_timeout \/ decoder_callback \/ decoder_output \/ decode_nothing
             \/ streambuf_cmd_deq
    BY <1>5 DEF Underway, Queued, QueueInv, mqueue_read_timeout, decoder_callback,
      decoder_output, decode_nothing, streambuf_cmd_deq
  <1>6. CASE mqueue_write_fails
    BY <1>6 DEF Underway, Queued, mqueue_write_fails, TypeInv
  <1> QED
    BY <1>1, <1>2, <1>3, <1>4, <1>5, <1>6
    DEF Next, QueueAlone, Posting, Handling, UbusThread, Finish, DecodeThread

\* The steps that neither write nor read the stream.
StreamAlone ==
  \/ beep_player_local_start \/ beep_player_local_st_begin \/ Posting \/ Handling
  \/ mqueue_read_timeout \/ mqueue_write_request \/ decoder_output \/ decode_nothing
  \/ mqueue_write_fails \/ playback_callback \/ UNCHANGED vars

Feeding ==
  \/ audio_decoder_start \/ audio_decoder_resume \/ beep_player_local_buffer
  \/ beep_player_local_st_end

Emptying == beep_player_local_flush \/ stop_done

Reading == streambuf_cmd_deq \/ (decoder_callback /\ stream # << >>)

(* What each kind of step does to the stream. *)
LEMMA StreamEffect ==
  ASSUME TypeInv, [Next]_vars
  PROVE  \/ UNCHANGED stream /\ (StreamAlone \/ decoder_callback \/ beep_player_local_st_end)
         \/ /\ Feeding
            /\ \E kind \in StreamOps \cup {"data"} :
                  /\ Grown(stream, stream', Item(kind))
                  /\ Item(kind).kind = kind /\ Item(kind).track = track
                  /\ kind = "START" => audio_decoder_start
                  /\ kind = "RESUME" => audio_decoder_resume
                  /\ kind = "ST_END" => beep_player_local_st_end /\ ~open'
            /\ track' = track
         \/ Emptying /\ stream' = << >> /\ track' = track
         \/ Reading /\ stream # << >> /\ Shrunk(stream, stream') /\ track' = track
  <1>1. CASE StreamAlone
    BY <1>1 DEF StreamAlone, Posting, Handling, UbusThread, beep_player_local_start,
      beep_player_local_st_begin, audio_pause, audio_resume, beep_player_local_stop,
      audio_decoder_flush, audio_decoder_stop, decode_start_handler,
      decode_resume_decoder_handler, decode_st_end_handler, decode_stop_handler,
      decode_flush_handler, audio_pause_audio_handler, decode_resume_audio_handler,
      mqueue_read_timeout, mqueue_write_request, mqueue_write_fails, decoder_output, decode_nothing,
      playback_callback, CallerVars, vars, streamVars
  <1>2. CASE audio_decoder_start
    BY <1>2, Fed DEF Feeding, audio_decoder_start, StreamOps
  <1>3. CASE audio_decoder_resume
    BY <1>3, Fed DEF Feeding, audio_decoder_resume, StreamOps
  <1>4. CASE beep_player_local_buffer
    BY <1>4, Fed DEF Feeding, beep_player_local_buffer, StreamOps, clientVars
  <1>5. CASE beep_player_local_st_end
    <2>1. CASE stream' = Append(stream, Item("ST_END")) /\ ~open'
      BY <1>5, <2>1, Fed DEF Feeding, beep_player_local_st_end, StreamOps
    <2>2. CASE UNCHANGED stream
      BY <1>5, <2>2
    <2> QED BY <1>5, <2>1, <2>2 DEF beep_player_local_st_end
  <1>6. CASE Emptying
    BY <1>6 DEF Emptying, beep_player_local_flush, stop_done
  <1>7. CASE Reading
    <2>1. stream # << >> /\ stream' = Tail(stream) /\ track' = track
      BY <1>7 DEF Reading, streambuf_cmd_deq, decoder_callback, clientVars
    <2> QED BY <1>7, <2>1, Read
  <1>8. CASE decoder_callback /\ stream = << >>
    BY <1>8 DEF decoder_callback
  <1> QED
    BY <1>1, <1>2, <1>3, <1>4, <1>5, <1>6, <1>7, <1>8
    DEF Next, StreamThread, UbusThread, Finish, DecodeThread, StreamAlone, Posting, Handling,
        Emptying, Reading

(* Who opens and closes a track, starts and stops the player and its stream, *)
(* moves the stream thread and resets the decoder.                           *)
LEMMA WhoChanges ==
  ASSUME [Next]_vars
  PROVE  /\ ~beep_player_local_st_begin => track' = track /\ (open' => open)
         /\ ~beep_player_local_start /\ ~beep_player_local_st_end => (open => open')
         /\ ~beep_player_local_start => (started' => started)
         /\ ~decode_st_end_handler /\ ~stop_done => (streaming => streaming')
         /\ feeder' = "start" => feeder = "start" \/ beep_player_local_st_begin
         /\ feeder' = "resume" => feeder = "resume" \/ audio_decoder_start
         /\ feeder' = "aborted" => feeder = "aborted" \/ beep_player_local_st_end
         /\ ~decode_start_handler /\ ~decode_stop_handler => decoder' = decoder
  BY DEF Next, StreamThread, UbusThread, Finish, DecodeThread, beep_player_local_start,
    beep_player_local_st_begin, beep_player_local_buffer, beep_player_local_st_end,
    beep_player_local_flush, audio_decoder_start, audio_decoder_resume, audio_decoder_flush,
    audio_pause, audio_resume, beep_player_local_stop, audio_decoder_stop, stop_done,
    decode_start_handler, decode_resume_decoder_handler, decode_st_end_handler,
    decode_stop_handler, decode_flush_handler, audio_pause_audio_handler,
    decode_resume_audio_handler, mqueue_read_timeout, streambuf_cmd_deq, mqueue_write_request,
    decoder_callback, decoder_output, decode_nothing, mqueue_write_fails, playback_callback,
    CallerVars, vars, streamVars, clientVars, decodeVars

(* Every step keeps an open track free of its end, and its stream streaming. *)
LEMMA OpenStep ==
  TypeInv /\ LockInv /\ QueueInv /\ StopInv /\ OpenInv /\ TypeInv' /\ [Next]_vars => OpenInv'
  <1> SUFFICES ASSUME TypeInv, LockInv, QueueInv, StopInv, OpenInv, TypeInv', [Next]_vars
               PROVE  OpenInv'
    OBVIOUS
  <1>n. Len(stream) \in Nat /\ Len(stream') \in Nat
    BY LenProperties DEF TypeInv
  <1>1. ASSUME ~open' PROVE stream' = << >> \/ stream'[Len(stream')].kind = "ST_END"
    <2>1. CASE beep_player_local_start
      BY <2>1 DEF beep_player_local_start, StopInv, streamVars
    <2>2. CASE Feeding
      <3>1. CASE UNCHANGED stream
        BY <1>1, <2>2, <3>1, <1>n DEF Feeding, OpenInv, LockInv, audio_decoder_start,
          audio_decoder_resume, beep_player_local_buffer, beep_player_local_st_end, clientVars
      <3>2. CASE stream' # stream
        <4>1. beep_player_local_st_end
          BY <1>1, <2>2 DEF Feeding, LockInv, audio_decoder_start, audio_decoder_resume,
            beep_player_local_buffer, clientVars
        <4>2. stream' = Append(stream, Item("ST_END"))
          BY <3>2, <4>1 DEF beep_player_local_st_end
        <4> QED BY <1>n, <4>2, Fed DEF Grown, StreamOps
      <3> QED BY <3>1, <3>2
    <2>3. CASE ~beep_player_local_start /\ ~Feeding
      <3>1. ~open
        BY <1>1, <2>3, WhoChanges DEF Feeding
      <3>2. CASE UNCHANGED stream
        BY <3>1, <3>2 DEF OpenInv
      <3>3. CASE Reading /\ stream # << >> /\ Shrunk(stream, stream')
        <4>1. CASE Len(stream') = 0
          BY <4>1, EmptySeq DEF TypeInv
        <4>2. CASE Len(stream') > 0
          <5>1. Len(stream') \in 1 .. Len(stream') /\ Len(stream') + 1 = Len(stream)
            BY <1>n, <3>3, <4>2 DEF Shrunk
          <5>2. stream'[Len(stream')] = stream[Len(stream)]
            BY <3>3, <5>1 DEF Shrunk
          <5> QED BY <3>1, <3>3, <5>2 DEF OpenInv
        <4> QED BY <1>n, <4>1, <4>2
      <3> QED BY <2>3, <3>2, <3>3, StreamEffect
    <2> QED BY <2>1, <2>2, <2>3
  <1>2. ASSUME ~overtaken', open' PROVE ~InStream("ST_END")' /\ ~Underway("ST_END")'
    <2>1. CASE beep_player_local_st_begin
      <3>1. UNCHANGED <<stream, decode_mqueue, decode>>
        BY <2>1 DEF beep_player_local_st_begin, decodeVars
      <3> QED BY <1>2, <2>1, <3>1, NotOvertaken DEF InStream, Underway, Queued, StreamOps
    <2>2. CASE ~beep_player_local_st_begin
      <3>1. open
        BY <1>2, <2>2, WhoChanges
      <3>2. ~InStream("ST_END") /\ ~Underway("ST_END")
        BY <1>2, <3>1, OvertakenStays DEF OpenInv
      <3>3. ~Underway("ST_END")'
        <4>1. ~(stream # << >> /\ stream[1].kind = "ST_END")
          BY <1>n, <3>2, EmptySeq DEF InStream, TypeInv
        <4> QED BY <3>2, <4>1, UnderwayBefore DEF StreamOps
      <3>4. ~InStream("ST_END")'
        <4>1. CASE UNCHANGED stream \/ stream' = << >>
          BY <3>2, <4>1 DEF InStream
        <4>2. CASE Shrunk(stream, stream')
          BY <3>2, <4>2 DEF InStream, Shrunk
        <4>3. ASSUME NEW kind \in StreamOps \cup {"data"}, kind # "ST_END",
                     Grown(stream, stream', Item(kind)), Item(kind).kind = kind
              PROVE  ~InStream("ST_END")'
          BY <1>n, <3>2, <4>3 DEF InStream, Grown
        <4> QED BY <1>2, <4>1, <4>2, <4>3, StreamEffect
      <3> QED BY <3>3, <3>4
    <2> QED BY <2>1, <2>2
  <1>3. ASSUME ~overtaken', open', started' PROVE streaming'
    <2>1. CASE beep_player_local_st_begin
      BY <2>1 DEF beep_player_local_st_begin
    <2>2. CASE beep_player_local_start
      BY <1>3, <2>2 DEF beep_player_local_start
    <2>3. CASE ~beep_player_local_st_begin /\ ~beep_player_local_start
      <3>1. open /\ started /\ ~overtaken /\ streaming /\ ~Underway("ST_END")
        BY <1>3, <2>3, WhoChanges, OvertakenStays DEF OpenInv
      <3>2. ~decode_st_end_handler
        BY <3>1, Handled DEF decode_st_end_handler, Underway, Queued, Shrunk
      <3>3. ~stop_done
        BY <3>1 DEF stop_done, LockInv
      <3> QED BY <3>1, <3>2, <3>3, WhoChanges
    <2> QED BY <2>1, <2>2, <2>3
  <1>4. ASSUME ~overtaken' PROVE feeder' # "aborted"
    <2>1. feeder # "aborted" /\ (open /\ started => streaming)
      BY <1>4, OvertakenStays DEF OpenInv
    <2>2. ~(beep_player_local_st_end /\ feeder' = "aborted")
      BY <2>1 DEF beep_player_local_st_end, CanFeed
    <2> QED BY <2>1, <2>2, WhoChanges
  <1> QED BY <1>1, <1>2, <1>3, <1>4, Zenon DEF OpenInv
-----------------------------------------------------------------------------
\* What the parts below have in common.
IndInv ==
  /\ TypeInv /\ LockInv /\ RoomInv /\ QueueInv /\ TrackInv /\ StopInv /\ OpenInv /\ DecoderInv

(* A track begun without overtaking finds both queues without a command, and *)
(* the stream without data as well: only an ST_END at its end could have     *)
(* closed it.                                                                *)
LEMMA BeginStep ==
  ASSUME IndInv, beep_player_local_st_begin
  PROVE  DecoderInv'
  <1> SUFFICES ASSUME ~overtaken' PROVE DecoderInv'
    BY DEF DecoderInv
  <1>1. ~overtaken /\ \A kind \in StreamOps : ~InStream(kind) /\ ~Underway(kind)
    BY NotOvertaken DEF IndInv
  <1>2. stream = << >>
    <2>1. Len(stream) \in Nat /\ (stream # << >> => Len(stream) \in 1 .. Len(stream))
      BY EmptySeq, LenProperties DEF IndInv, TypeInv
    <2>2. ~open
      BY DEF beep_player_local_st_begin
    <2> QED BY <1>1, <2>1, <2>2 DEF IndInv, OpenInv, InStream, StreamOps
  <1>3. UNCHANGED <<stream, decode_mqueue, decode, decoder, pcm>> /\ feeder' = "start"
    BY DEF beep_player_local_st_begin, decodeVars, outputVars
  <1>4. \A kind \in StreamOps : ~InStream(kind)' /\ ~Underway(kind)'
    BY <1>1, <1>3 DEF InStream, Underway, Queued
  <1>5. /\ \A i \in 1 .. Len(decode_mqueue) : decode_mqueue[i].kind \notin StreamOps
        /\ decode.at # "relay"
    BY <1>1 DEF Underway, Queued, IndInv, TypeInv
  <1>6. /\ decode.at = "decoded" => decode.cmd.track = decoder
        /\ \A i \in 1 .. Len(pcm) : pcm[i].by = pcm[i].track
    BY <1>1 DEF IndInv, DecoderInv
  <1> QED BY <1>2, <1>3, <1>4, <1>5, <1>6 DEF DecoderInv, StreamOps

(* What each kind of step does to the message queue and the decode thread. *)
LEMMA QueueEffect ==
  ASSUME TypeInv, [Next]_vars
  PROVE  /\ \/ UNCHANGED decode_mqueue
            \/ \E kind \in Ops \ StreamOps : /\ Grown(decode_mqueue, decode_mqueue', Item(kind))
                                             /\ Item(kind).kind = kind
            \/ Shrunk(decode_mqueue, decode_mqueue')
            \/ decode.at = "relay" /\ Grown(decode_mqueue, decode_mqueue', decode.cmd)
         /\ decode'.at = "relay" =>
               UNCHANGED decode \/ (streambuf_cmd_deq /\ decode'.cmd = stream[1] /\ stream # << >>)
         /\ decode'.at = "decoded" =>
               UNCHANGED decode \/ (decoder_callback /\ decode'.cmd = stream[1] /\ stream # << >>)
  <1>1. CASE QueueAlone
    BY <1>1, QueueAloneKeeps
  <1>2. CASE Posting
    BY <1>2, PostingPosts
  <1>3. CASE Handling
    <2>1. PICK k \in Ops : Takes(k)
      BY <1>3, HandlingTakes
    <2> QED BY <2>1, Handled
  <1>4. CASE mqueue_write_request
    <2>1. decode.at = "relay"
      BY <1>4 DEF mqueue_write_request
    <2> QED BY <1>4, <2>1, Relayed
  <1>5. CASE mqueue_read_timeout \/ decoder_output \/ decode_nothing \/ mqueue_write_fails
    BY <1>5, LoopType DEF mqueue_read_timeout, decoder_output, decode_nothing, mqueue_write_fails,
      TypeInv
  <1>6. CASE streambuf_cmd_deq
    <2>1. stream # << >> /\ stream' = Tail(stream)
      BY <1>6 DEF streambuf_cmd_deq
    <2>2. Head(stream) = stream[1]
      BY <2>1, Read
    <2> QED BY <1>6, <2>1, <2>2 DEF streambuf_cmd_deq, At
  <1>7. CASE decoder_callback
    <2>1. CASE stream = << >>
      BY <1>7, <2>1 DEF decoder_callback, At
    <2>2. CASE stream # << >>
      <3>1. Head(stream) = stream[1]
        BY <1>7, <2>2, Read DEF decoder_callback
      <3> QED BY <1>7, <2>2, <3>1 DEF decoder_callback, At
    <2> QED BY <2>1, <2>2
  <1> QED
    BY <1>1, <1>2, <1>3, <1>4, <1>5, <1>6, <1>7
    DEF Next, QueueAlone, Posting, Handling, UbusThread, Finish, DecodeThread

(* Every other step keeps START, RESUME and the data in order. *)
LEMMA DecoderStep ==
  ASSUME IndInv, TypeInv', [Next]_vars
  PROVE  DecoderInv'
  <1> SUFFICES ASSUME ~overtaken', ~beep_player_local_st_begin PROVE DecoderInv'
    BY BeginStep DEF DecoderInv
  <1>t. TypeInv /\ QueueInv /\ LockInv
    BY DEF IndInv
  <1>o. ~overtaken /\ track' = track
    BY OvertakenStays, WhoChanges
  <1>n. Len(stream) \in Nat /\ Len(decode_mqueue) \in Nat /\ Len(pcm) \in Nat
    BY <1>t, LenProperties DEF TypeInv
  <1>f. (stream # << >> => 1 \in 1 .. Len(stream)) /\ Len(<< >>) = 0
    BY <1>t, <1>n, EmptySeq DEF TypeInv
  <1>a. \A i \in 1 .. Len(stream) : stream[i].track = track
    BY <1>o DEF IndInv, DecoderInv
  <1>b. /\ \A i \in 1 .. Len(decode_mqueue) :
              decode_mqueue[i].kind \in StreamOps => decode_mqueue[i].track = track
        /\ decode.at = "relay" => decode.cmd.track = track
    BY <1>o DEF IndInv, DecoderInv
  <1>c. \A i \in 1 .. Len(stream) : stream[i].kind = "START" => i = 1
    BY <1>o DEF IndInv, DecoderInv
  <1>d. feeder = "start" => stream = << >> /\ \A kind \in StreamOps : ~Underway(kind)
    BY <1>o DEF IndInv, DecoderInv
  <1>e. /\ feeder # "start" /\ decode_state \in {"running", "underrun", "error"}
              => DecoderIsCurrent
        /\ Underway("RESUME") => DecoderIsCurrent
        /\ feeder = "resume" \/ InStream("RESUME")
              => InStream("START") \/ Underway("START") \/ DecoderIsCurrent
    BY <1>o DEF IndInv, DecoderInv
  <1>g. decode.at = "decoded" => decode.cmd.track = decoder
    BY <1>o DEF IndInv, DecoderInv
  <1>h. \A i \in 1 .. Len(pcm) : pcm[i].by = pcm[i].track
    BY <1>o DEF IndInv, DecoderInv
  <1>s. decode_start_handler => decoder' = track
    <2>1. ASSUME decode_start_handler PROVE decoder' = track
      <3>1. /\ 1 \in 1 .. Len(decode_mqueue) /\ decode_mqueue[1].kind = "START"
            /\ Head(decode_mqueue) = decode_mqueue[1]
        BY <1>t, <2>1, Handled DEF decode_start_handler, Shrunk
      <3> QED BY <1>b, <2>1, <3>1 DEF decode_start_handler, StreamOps
    <2> QED BY <2>1
  <1>i. DecoderIsCurrent => DecoderIsCurrent'
    BY <1>o, <1>s, WhoChanges DEF DecoderIsCurrent, decode_stop_handler
  <1>1. \A i \in 1 .. Len(stream') : stream'[i].track = track'
    BY <1>t, <1>n, <1>o, <1>a, StreamEffect DEF Grown, Shrunk
  <1>2. \A i \in 1 .. Len(decode_mqueue') :
          decode_mqueue'[i].kind \in StreamOps => decode_mqueue'[i].track = track'
    <2>1. CASE UNCHANGED decode_mqueue
      BY <1>b, <1>o, <2>1
    <2>2. CASE Shrunk(decode_mqueue, decode_mqueue')
      BY <1>b, <1>o, <2>2 DEF Shrunk
    <2>3. ASSUME NEW e, Grown(decode_mqueue, decode_mqueue', e),
                 e.kind \in StreamOps => e.track = track
          PROVE  \A i \in 1 .. Len(decode_mqueue') :
                   decode_mqueue'[i].kind \in StreamOps => decode_mqueue'[i].track = track'
      BY <1>b, <1>o, <2>3 DEF Grown
    <2> QED BY <1>t, <1>b, <2>1, <2>2, <2>3, QueueEffect
  <1>3. decode'.at = "relay" => decode'.cmd.track = track'
    BY <1>t, <1>o, <1>a, <1>b, <1>f, QueueEffect
  <1>4. \A i \in 1 .. Len(stream') : stream'[i].kind = "START" => i = 1
    <2>1. CASE UNCHANGED stream \/ stream' = << >>
      BY <1>c, <1>f, <2>1
    <2>2. CASE Shrunk(stream, stream')
      BY <1>c, <2>2 DEF Shrunk
    <2>3. ASSUME NEW e, Grown(stream, stream', e), e.kind = "START" => stream = << >>
          PROVE  \A i \in 1 .. Len(stream') : stream'[i].kind = "START" => i = 1
      BY <1>c, <1>f, <2>3 DEF Grown
    <2>4. audio_decoder_start => stream = << >>
      BY <1>d DEF audio_decoder_start
    <2> QED BY <1>t, <2>1, <2>2, <2>3, <2>4, StreamEffect
  <1>5. feeder' = "start" => stream' = << >> /\ \A kind \in StreamOps : ~Underway(kind)'
    <2> SUFFICES ASSUME feeder' = "start"
                 PROVE  stream' = << >> /\ \A kind \in StreamOps : ~Underway(kind)'
      OBVIOUS
    <2>1. feeder = "start" /\ lock = "stream"
      BY <1>t, WhoChanges DEF LockInv
    <2>2. stream = << >> /\ \A kind \in StreamOps : ~Underway(kind)
      BY <1>d, <2>1
    <2>3. ~Feeding
      BY <2>1 DEF Feeding, audio_decoder_start, audio_decoder_resume, beep_player_local_buffer,
        beep_player_local_st_end, CanFeed
    <2>4. stream' = << >>
      BY <1>t, <2>2, <2>3, StreamEffect
    <2> QED BY <1>t, <2>2, <2>4, UnderwayBefore
  <1>6. feeder' # "start" /\ decode_state' \in {"running", "underrun", "error"}
          => DecoderIsCurrent'
    <2> SUFFICES ASSUME feeder' # "start", decode_state' \in {"running", "underrun", "error"}
                 PROVE  DecoderIsCurrent
      BY <1>i
    <2>1. CASE decode_resume_decoder_handler
      <3>1. 1 \in 1 .. Len(decode_mqueue) /\ decode_mqueue[1].kind = "RESUME"
        BY <1>t, <2>1, Handled DEF decode_resume_decoder_handler, Shrunk
      <3> QED BY <1>e, <3>1 DEF Underway, Queued
    <2>2. CASE decoder_output
      <3>1. decode_state \notin {"zero", "flag"}
        BY <2>2, Zenon DEF decoder_output
      <3>2. decode_state \in {"running", "underrun", "error"} /\ feeder # "start"
        BY <1>t, <2>2, <3>1 DEF TypeInv, DecodeStates, decoder_output, clientVars
      <3> QED BY <1>e, <3>2
    <2>3. CASE ~decode_resume_decoder_handler /\ ~decoder_output
      <3>1. decode_flush_handler => feeder = "wait"
        BY <1>t, Handled DEF decode_flush_handler, QueueInv, Shrunk
      <3>2. decode_state' = decode_state /\ feeder # "start"
        BY <2>3, <3>1 DEF Next, StreamThread, UbusThread, Finish, DecodeThread,
          beep_player_local_start, beep_player_local_buffer, beep_player_local_st_end,
          beep_player_local_flush, audio_decoder_start, audio_decoder_resume,
          audio_decoder_flush, audio_pause, audio_resume, beep_player_local_stop,
          audio_decoder_stop, stop_done, decode_start_handler, decode_st_end_handler,
          decode_stop_handler, decode_flush_handler, audio_pause_audio_handler,
          decode_resume_audio_handler, mqueue_read_timeout, streambuf_cmd_deq,
          mqueue_write_request, mqueue_write_fails, decoder_callback, decode_nothing,
          playback_callback,
          CallerVars, CanFeed, vars, clientVars, decodeVars
      <3> QED BY <1>e, <3>2
    <2> QED BY <2>1, <2>2, <2>3
  <1>7. Underway("RESUME")' => DecoderIsCurrent'
    <2> SUFFICES ASSUME Underway("RESUME")' PROVE DecoderIsCurrent
      BY <1>i
    <2>1. CASE Underway("RESUME")
      BY <1>e, <2>1
    <2>2. CASE streambuf_cmd_deq /\ stream # << >> /\ stream[1].kind = "RESUME"
      <3>1. InStream("RESUME")
        BY <1>f, <2>2 DEF InStream
      <3>2. ~InStream("START")
        BY <1>c, <2>2 DEF InStream
      <3>3. ~Underway("START")
        BY <1>t, <2>2 DEF Underway, Queued, QueueInv, StreamOps, streambuf_cmd_deq
      <3> QED BY <1>e, <3>1, <3>2, <3>3
    <2> QED BY <1>t, <2>1, <2>2, UnderwayBefore DEF StreamOps
  <1>8. feeder' = "resume" \/ InStream("RESUME")'
          => InStream("START")' \/ Underway("START")' \/ DecoderIsCurrent'
    <2> SUFFICES ASSUME feeder' = "resume" \/ InStream("RESUME")'
                 PROVE  InStream("START")' \/ Underway("START")' \/ DecoderIsCurrent'
      OBVIOUS
    <2>1. CASE audio_decoder_start
      <3>1. Grown(stream, stream', Item("START")) /\ Item("START").kind = "START"
        BY <1>t, <2>1, Fed DEF audio_decoder_start, StreamOps
      <3> QED BY <3>1 DEF InStream, Grown
    <2>2. CASE ~audio_decoder_start
      <3>1. feeder = "resume" \/ InStream("RESUME")
        <4>1. CASE feeder' = "resume"
          BY <2>2, <4>1, WhoChanges
        <4>2. CASE InStream("RESUME")' /\ (UNCHANGED stream \/ stream' = << >>)
          BY <1>f, <4>2 DEF InStream
        <4>3. CASE InStream("RESUME")' /\ Shrunk(stream, stream')
          BY <4>3 DEF InStream, Shrunk
        <4>4. ASSUME InStream("RESUME")', NEW e, Grown(stream, stream', e),
                     e.kind = "RESUME" => audio_decoder_resume
              PROVE  feeder = "resume" \/ InStream("RESUME")
          BY <1>n, <4>4 DEF InStream, Grown, audio_decoder_resume
        <4> QED BY <1>t, <4>1, <4>2, <4>3, <4>4, StreamEffect
      <3>2. CASE DecoderIsCurrent
        BY <1>i, <3>2
      <3>3. CASE Underway("START")
        <4>1. CASE Handling /\ Takes("START")
          <5>1. decode_start_handler
            BY <4>1 DEF Handling, Takes, decode_resume_decoder_handler, decode_st_end_handler,
              decode_stop_handler, decode_flush_handler, audio_pause_audio_handler,
              decode_resume_audio_handler
          <5> QED BY <1>o, <1>s, <5>1 DEF DecoderIsCurrent
        <4>2. CASE ~(Handling /\ Takes("START"))
          BY <1>t, <3>3, <4>2, UnderwayAfter DEF StreamOps
        <4> QED BY <4>1, <4>2
      <3>4. CASE InStream("START")
        <4>1. stream # << >> /\ stream[1].kind = "START"
          BY <1>c, <1>f, <3>4 DEF InStream
        <4>2. CASE UNCHANGED stream
          BY <3>4, <4>2 DEF InStream
        <4>3. CASE Emptying /\ stream' = << >>
          BY <1>t, <1>f, <4>3 DEF Emptying, beep_player_local_flush, stop_done, InStream, LockInv
        <4>4. CASE streambuf_cmd_deq
          <5>1. decode'.at = "relay" /\ decode'.cmd = stream[1]
            BY <1>t, <4>4, <4>1, Read DEF streambuf_cmd_deq, At
          <5> QED BY <4>1, <5>1 DEF Underway
        <4>5. ~decoder_callback
          <5>1. Head(stream) = stream[1]
            BY <1>t, <4>1, Taken DEF TypeInv
          <5> QED BY <4>1, <5>1 DEF decoder_callback, NoCommand, IsCommand
        <4>6. ASSUME NEW e, Grown(stream, stream', e) PROVE InStream("START")'
          BY <1>n, <1>f, <4>1, <4>6 DEF InStream, Grown
        <4> QED BY <1>t, <4>2, <4>3, <4>4, <4>5, <4>6, StreamEffect DEF Reading
      <3> QED BY <1>e, <3>1, <3>2, <3>3, <3>4
    <2> QED BY <2>1, <2>2
  <1>9. decode'.at = "decoded" => decode'.cmd.track = decoder'
    <2>1. CASE decode.at = "decoded" /\ UNCHANGED decode
      <3>1. ~decode_start_handler /\ ~decode_stop_handler
        BY <2>1 DEF decode_start_handler, decode_stop_handler, Takes
      <3> QED BY <1>g, <2>1, <3>1, WhoChanges
    <2>2. CASE decoder_callback /\ decode'.cmd = stream[1] /\ stream # << >>
      <3>1. decode'.cmd.track = track
        BY <1>a, <1>f, <2>2
      <3>2. feeder # "start" /\ decode_state \in {"running", "underrun"} /\ decoder # 0
        BY <1>d, <2>2 DEF decoder_callback, audio_decode_timer_interval
      <3>3. decoder = track
        BY <1>e, <3>2 DEF DecoderIsCurrent
      <3> QED BY <2>2, <3>1, <3>3 DEF decoder_callback
    <2> QED BY <1>t, <2>1, <2>2, QueueEffect
  <1>10. \A i \in 1 .. Len(pcm') : pcm'[i].by = pcm'[i].track
    <2>1. CASE pcm' = pcm \/ pcm' = << >>
      BY <1>h, <1>f, <2>1
    <2>2. CASE playback_callback
      BY <1>t, <1>h, <2>2, Taken DEF playback_callback, TypeInv
    <2>3. CASE decoder_output /\ pcm' # pcm
      <3> DEFINE e == [track |-> decode.cmd.track, by |-> decoder]
      <3>1. e \in [track : Tracks, by : Tracks] /\ e.by = e.track
        BY <1>t, <1>g, <2>3 DEF TypeInv, Items, decoder_output
      <3>2. pcm' = Append(pcm, e)
        BY <2>3 DEF decoder_output
      <3> HIDE DEF e
      <3>3. Grown(pcm, pcm', e)
        BY <1>t, <3>1, <3>2, Appended DEF TypeInv, Grown
      <3> QED BY <1>h, <3>1, <3>3 DEF Grown
    <2>4. CASE ~playback_callback /\ ~decoder_output
      BY <2>1, <2>4 DEF Next, StreamThread, UbusThread, Finish, DecodeThread,
          beep_player_local_start, beep_player_local_buffer, beep_player_local_st_end,
          beep_player_local_flush, audio_decoder_start, audio_decoder_resume,
          audio_decoder_flush, audio_pause, audio_resume, beep_player_local_stop,
          audio_decoder_stop, stop_done, decode_start_handler, decode_st_end_handler,
          decode_resume_decoder_handler, decode_output_end,
          decode_stop_handler, decode_flush_handler, audio_pause_audio_handler,
          decode_resume_audio_handler, mqueue_read_timeout, streambuf_cmd_deq,
          mqueue_write_request, mqueue_write_fails, decoder_callback, decode_nothing,
          CallerVars, vars, outputVars
    <2> QED BY <2>1, <2>2, <2>3, <2>4
  <1> QED BY <1>1, <1>2, <1>3, <1>4, <1>5, <1>6, <1>7, <1>8, <1>9, <1>10 DEF DecoderInv
-----------------------------------------------------------------------------
(* The player starts in the invariant. *)
LEMMA InitInv == Init => IndInv
  <1> SUFFICES ASSUME Init PROVE IndInv
    OBVIOUS
  <1>1. stream = << >> /\ decode_mqueue = << >> /\ pcm = << >> /\ Len(<< >>) = 0
    BY EmptySeq DEF Init
  <1>2. decode = Loop /\ Loop.at = "loop" /\ Loop.cmd.track = 0 /\ track = 0
    BY LoopType DEF Init
  <1>3. TypeInv
    <2>1. /\ stream \in Seq(Items) /\ decode_mqueue \in Seq(Messages)
          /\ pcm \in Seq([track : Tracks, by : Tracks])
      BY <1>1, EmptySeq
    <2>2. /\ streaming \in BOOLEAN /\ heard \in BOOLEAN /\ started \in BOOLEAN
          /\ open \in BOOLEAN /\ revived \in BOOLEAN /\ overtaken \in BOOLEAN
      BY Zenon DEF Init
    <2>3. 0 \in Tracks
      BY PlayerBounds DEF Tracks
    <2> QED BY <1>2, <2>1, <2>2, <2>3, LoopType DEF Init, TypeInv, DecodeStates
  <1>4. LockInv
    BY DEF Init, LockInv
  <1>5. RoomInv
    BY <1>1, <1>2, PlayerBounds DEF Init, RoomInv
  <1>6. QueueInv /\ TrackInv
    BY <1>1, <1>2 DEF QueueInv, TrackInv
  <1>7. StopInv /\ OpenInv
    BY <1>1, <1>2 DEF Init, StopInv, OpenInv
  <1>8. DecoderInv
    BY <1>1, <1>2 DEF Init, DecoderInv, InStream, Underway, Queued, StreamOps
  <1> QED BY <1>3, <1>4, <1>5, <1>6, <1>7, <1>8 DEF IndInv

(* The invariant is inductive. *)
LEMMA IndStep == IndInv /\ [Next]_vars => IndInv'
  <1> SUFFICES ASSUME IndInv, [Next]_vars PROVE IndInv'
    OBVIOUS
  <1>1. TypeInv'
    BY TypeStep DEF IndInv
  <1> QED BY <1>1, LockStep, RoomStep, QueueStep, TrackStep, StopStep, OpenStep, DecoderStep
      DEF IndInv

(* The types and the bounds of the player's queues: the stream buffer holds  *)
(* one item more than CanFeed tests for, and the message queue a STOP and a  *)
(* FLUSH more than it has room for.                                          *)
THEOREM TypeCorrect == Spec => []TypeOK
  <1>1. IndInv => TypeOK
    <2> SUFFICES ASSUME IndInv PROVE TypeOK
      OBVIOUS
    <2>1. Len(decode_mqueue) <= QueueMax + 2
      BY QueueBound DEF IndInv
    <2>2. stream \in Seq([kind : Ops \cup {"data"}, track : 0 .. MaxTracks])
      <3>1. Items \subseteq [kind : Ops \cup {"data"}, track : 0 .. MaxTracks]
        BY DEF Items, StreamOps, Ops, Tracks
      <3> QED BY <3>1, SeqMonotonic DEF IndInv, TypeInv
    <2>3. {streaming, heard, started, open, revived, overtaken} \subseteq BOOLEAN
      BY Zenon DEF IndInv, TypeInv
    <2> QED BY <2>1, <2>2, <2>3 DEF IndInv, TypeInv, RoomInv, TypeOK, Messages, Tracks, Places
  <1> QED BY <1>1, InitInv, IndStep, PTL DEF Spec

(* Once the STOP was handled and stop has returned, nothing is left of the   *)
(* stopped stream until the next start, whatever the decode thread had still *)
(* read of it, unless a command of it was handled after the STOP.            *)
THEOREM StoppedIsCleanAlways == Spec => []StoppedIsClean
  <1>1. IndInv => StoppedIsClean
    BY DEF IndInv, StopInv, StoppedIsClean
  <1> QED BY <1>1, InitInv, IndStep, PTL DEF Spec

(* Every byte is decoded by the decoder of its own track, for any number of  *)
(* tracks, flushes and stops between START, RESUME and the data.             *)
THEOREM DecodedByOwnDecoderAlways == Spec => []DecodedByOwnDecoder
  <1>1. IndInv => DecodedByOwnDecoder
    BY DEF IndInv, DecoderInv, DecodedByOwnDecoder
  <1> QED BY <1>1, InitInv, IndStep, PTL DEF Spec

(* The daemon does not abort in st_end, unless a track was overtaken. *)
THEOREM NeverAbortsAlways == Spec => []NeverAborts
  <1>1. IndInv => NeverAborts
    BY DEF IndInv, OpenInv, NeverAborts
  <1> QED BY <1>1, InitInv, IndStep, PTL DEF Spec
=============================================================================
