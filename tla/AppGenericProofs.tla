-------------------------- MODULE AppGenericProofs --------------------------
(* What AppGeneric proves for every choice of the handlers used, of the      *)
(* lengths of lists and of the bounds on requests: the type invariant, that  *)
(* the join of the ubus thread ends unless a handler was misled, and that no *)
(* track begins under a token whose last track is still open as long as the  *)
(* distributor answers the calls that open and end tracks.                   *)
EXTENDS AppGeneric, SequenceTheorems, TLAPS

PCs == {"none", "init", "acquire", "acquired", "station", "can_begin", "begin",
        "curl", "buffer", "flush", "pause", "end", "out", "signal", "return", "exited"}

Threads == [pc : PCs, perpetual : BOOLEAN, token : Tokens,
            did_at_least_one_buffer : BOOLEAN, n_retries : 0 .. 2, finalize : BOOLEAN]

Frames == [enqueue : BOOLEAN, exists : BOOLEAN]

(* What TypeOK says of the fields a property names, said of all of them.     *)
TypeInv ==
  /\ playlist \in Seq(BOOLEAN) /\ joining \in {<< >>, <<TRUE>>, <<FALSE>>}
  /\ thread \in Threads /\ last_token \in Tokens
  /\ stack \in Seq(Frames) /\ Len(stack) <= MaxDepth
  /\ calls \in 0 .. MaxCalls
  /\ misled \in BOOLEAN /\ advance \in BOOLEAN /\ open \in BOOLEAN
  /\ unanswered \in BOOLEAN
  /\ end_current_play_task \in BOOLEAN /\ clear_playlist_signal \in BOOLEAN

Returning == {"none", "return", "exited"}

(* The eventfd is only readable, and the ubus thread only waits, when the    *)
(* play thread has nothing left to do; and the eventfd is not readable again *)
(* while the ubus thread waits, so that it does not wait twice in a row for  *)
(* the thread it has started itself.                                         *)
JoinInv ==
  ~misled => /\ advance \/ ~MainRuns => thread.pc \in Returning
             /\ ~(advance /\ ~MainRuns)

(* A track is open between track_begin and track_end of the thread that has  *)
(* the token, or until the acquire of a thread that gave it up to retry, if  *)
(* every call that opens or ends a track has been answered.                  *)
OpenInv ==
  open /\ ~unanswered =>
    \/ thread.pc = "acquire"
    \/ thread.token = "live" /\ thread.pc \in {"curl", "buffer", "flush", "pause", "end"}
-----------------------------------------------------------------------------
(* The last element of a nonempty sequence is one of its elements, and the   *)
(* sequence without it is one element shorter: a handler that returns.       *)
LEMMA FrontElements ==
  ASSUME NEW S, NEW s \in Seq(S), s # << >>
  PROVE  /\ s[Len(s)] \in S
         /\ SubSeq(s, 1, Len(s) - 1) \in Seq(S)
         /\ Len(SubSeq(s, 1, Len(s) - 1)) = Len(s) - 1
  <1>1. Len(s) \in Nat \ {0} /\ \A i \in 1 .. Len(s) : s[i] \in S
    BY EmptySeq, ElementOfSeq
  <1>2. Len(s) - 1 \in Nat /\ \A i \in 1 .. Len(s) - 1 : s[i] \in S
    BY <1>1
  <1>3. ASSUME NEW n \in Nat, \A i \in 1 .. n : s[i] \in S
        PROVE  SubSeq(s, 1, n) \in Seq(S) /\ Len(SubSeq(s, 1, n)) = n
    BY <1>3, SubSeqProperties
  <1>4. SubSeq(s, 1, Len(s) - 1) \in Seq(S) /\ Len(SubSeq(s, 1, Len(s) - 1)) = Len(s) - 1
    BY <1>2, <1>3, Zenon
  <1>5. s[Len(s)] \in S
    BY <1>1
  <1> QED BY <1>4, <1>5

(* A list of items of the same kind is a list of tracks. *)
LEMMA PlainTracks ==
  ASSUME NEW n \in Nat
  PROVE  [i \in 1 .. n |-> FALSE] \in Seq(BOOLEAN)
  OBVIOUS

(* What create_play_thread waits to start is a track. *)
LEMMA JoinedTrack ==
  ASSUME NEW j \in {<< >>, <<TRUE>>, <<FALSE>>}, j # << >>
  PROVE  j[1] \in BOOLEAN
  <1>1. CASE j = <<TRUE>>
    <2>1. j[1] = TRUE
      BY <1>1, Zenon
    <2> QED BY <2>1, Zenon
  <1>2. CASE j = <<FALSE>>
    <2>1. j[1] = FALSE
      BY <1>2, Zenon
    <2> QED BY <2>1, Zenon
  <1> QED BY <1>1, <1>2

(* A request keeps the types whatever it plays. *)
LEMMA RequestType ==
  ASSUME TypeInv, NEW enqueue \in BOOLEAN, NEW tracks \in Seq(BOOLEAN),
         Request(enqueue, tracks)
  PROVE  TypeInv'
  <1>1. playlist' \in Seq(BOOLEAN)
    <2>1. playlist \o tracks \in Seq(BOOLEAN) /\ << >> \o tracks \in Seq(BOOLEAN)
      BY ConcatProperties, EmptySeq DEF TypeInv
    <2> QED BY <2>1, Zenon DEF Request
  <1>2. stack' \in Seq(Frames) /\ Len(stack') <= MaxDepth
    <2>1. Exists \in BOOLEAN
      BY DEF Exists
    <2>2. [enqueue |-> enqueue, exists |-> Exists] \in Frames
      BY <2>1, Zenon DEF Frames
    <2> QED BY <2>2, BoundsAssumption DEF TypeInv, Request
  <1>3. calls' \in 0 .. MaxCalls
    BY BoundsAssumption DEF TypeInv, Request
  <1>4. last_token' \in Tokens
    BY DEF TypeInv, Request, ClearUnless, Tokens
  <1>5. clear_playlist_signal' \in BOOLEAN
    BY DEF TypeInv, Request, ClearUnless
  <1> QED BY <1>1, <1>2, <1>3, <1>4, <1>5 DEF TypeInv, Request, session

(* Every step keeps the types. *)
LEMMA TypeStep == TypeInv /\ [Next]_vars => TypeInv'
  <1> SUFFICES ASSUME TypeInv, [Next]_vars PROVE TypeInv'
    OBVIOUS
  <1> USE DEF TypeInv, session
  <1>0. CASE UNCHANGED vars
    BY <1>0 DEF vars, mainVars, flags
  <1>1. ASSUME NEW enqueue \in Enqueue, generic_play(enqueue) PROVE TypeInv'
    <2>1. <<FALSE>> \in Seq(BOOLEAN) /\ enqueue \in BOOLEAN
      BY InputsAssumption
    <2> QED BY <1>1, <2>1, RequestType, Zenon DEF generic_play
  <1>2. CASE generic_play_station
    <2>1. <<TRUE>> \in Seq(BOOLEAN)
      OBVIOUS
    <2> QED BY <1>2, <2>1, RequestType, Zenon DEF generic_play_station
  <1>3. ASSUME NEW enqueue \in Enqueue, NEW n \in Items, generic_play_list(enqueue, n)
        PROVE  TypeInv'
    <2>1. enqueue \in BOOLEAN /\ n \in Nat
      BY InputsAssumption
    <2>2. CASE Request(enqueue, [i \in 1 .. n |-> FALSE])
      BY <2>1, <2>2, PlainTracks, RequestType, Zenon
    <2>3. CASE n = 0 /\ ~Request(enqueue, [i \in 1 .. n |-> FALSE])
      <3>1. last_token' \in Tokens
        BY <1>3, <2>3 DEF generic_play_list, ClearUnless, Tokens
      <3>2. clear_playlist_signal' \in BOOLEAN
        BY <1>3, <2>3 DEF generic_play_list, ClearUnless
      <3>3. playlist' \in Seq(BOOLEAN)
        BY <1>3, <2>3, EmptySeq DEF generic_play_list
      <3>4. calls' \in 0 .. MaxCalls
        BY <1>3, <2>3, BoundsAssumption DEF generic_play_list
      <3>5. UNCHANGED <<thread, end_current_play_task, advance, stack, joining, session, misled>>
        BY <1>3, <2>3 DEF generic_play_list
      <3> QED BY <3>1, <3>2, <3>3, <3>4, <3>5 DEF session
    <2> QED BY <1>3, <2>2, <2>3 DEF generic_play_list
  <1>4. CASE generic_skip
    <2>1. calls' \in 0 .. MaxCalls
      BY <1>4, BoundsAssumption DEF generic_skip
    <2>2. last_token' \in Tokens
      BY <1>4 DEF generic_skip, Tokens
    <2>3. end_current_play_task' \in BOOLEAN /\ advance' \in BOOLEAN
      BY <1>4, Zenon DEF generic_skip
    <2> QED BY <1>4, <2>1, <2>2, <2>3 DEF generic_skip
  <1>5. CASE play_if_needed
    <2>1. stack' \in Seq(Frames) /\ Len(stack') <= MaxDepth
      <3>1. stack \in Seq(Frames) /\ stack # << >> /\ Len(stack) <= MaxDepth
        BY <1>5 DEF play_if_needed
      <3> QED BY <1>5, <3>1, FrontElements, EmptySeq, BoundsAssumption DEF play_if_needed
    <2>2. /\ advance' \in BOOLEAN /\ end_current_play_task' \in BOOLEAN /\ misled' \in BOOLEAN
      BY <1>5, Zenon DEF play_if_needed
    <2> QED BY <1>5, <2>1, <2>2 DEF play_if_needed
  <1>6. CASE on_playlist_advanced
    <2>1. playlist' \in Seq(BOOLEAN) /\ joining' \in {<< >>, <<TRUE>>, <<FALSE>>}
      <3>1. CASE playlist' = << >> /\ UNCHANGED joining
        BY <3>1, EmptySeq
      <3>2. CASE playlist # << >> /\ playlist' = Tail(playlist) /\ joining' = <<Head(playlist)>>
        <4>1. Head(playlist) \in BOOLEAN /\ Tail(playlist) \in Seq(BOOLEAN)
          BY <3>2, HeadTailProperties
        <4> QED BY <3>2, <4>1
      <3> QED BY <1>6, <3>1, <3>2 DEF on_playlist_advanced
    <2> QED BY <1>6, <2>1 DEF on_playlist_advanced
  <1>7. CASE create_play_thread
    <2>1. joining[1] \in BOOLEAN
      BY <1>7, JoinedTrack, Zenon DEF create_play_thread, MainRuns
    <2>2. NoThread \in Threads
      BY DEF NoThread, Threads, PCs, Tokens
    <2>3. ASSUME NEW track \in BOOLEAN, NEW t \in Threads
          PROVE  [t EXCEPT !.pc = "init", !.perpetual = track] \in Threads
      BY DEF Threads, PCs
    <2>4. thread' \in Threads
      BY <1>7, <2>1, <2>2, <2>3, Zenon DEF create_play_thread, NewThread
    <2> QED BY <1>7, <2>4 DEF create_play_thread
  <1>8. CASE run_play_thread
    BY <1>8 DEF run_play_thread, Threads, PCs, Tokens, mainVars, flags
  <1>9. CASE audio_acquire
    BY <1>9 DEF audio_acquire, Threads, PCs, Tokens, Outlived, mainVars
  <1>10. CASE acquired
    BY <1>10 DEF acquired, Goto, Threads, PCs, Tokens, mainVars
  <1>11. CASE set_station
    <2>1. thread' \in Threads
      BY <1>11 DEF set_station, Goto, Threads, PCs
    <2> QED BY <1>11, <2>1 DEF set_station, mainVars, flags
  <1>12. CASE audio_can_track_begin
    BY <1>12 DEF audio_can_track_begin, Goto, Threads, PCs, Tokens, mainVars, flags
  <1>13. CASE audio_track_begin
    <2>1. thread' \in Threads
      BY <1>13 DEF audio_track_begin, Goto, Threads, PCs
    <2>2. open' \in BOOLEAN /\ unanswered' \in BOOLEAN
      BY <1>13, Zenon DEF audio_track_begin, Fails
    <2> QED BY <1>13, <2>1, <2>2 DEF audio_track_begin, mainVars, flags
  <1>14. CASE curl_cancelled
    BY <1>14 DEF curl_cancelled, Goto, Threads, PCs, Tokens, mainVars, flags
  <1>15. CASE write_cb_bad_code
    BY <1>15 DEF write_cb_bad_code, Goto, Threads, PCs, Tokens, mainVars
  <1>16. CASE audio_can_buffer
    BY <1>16 DEF audio_can_buffer, token_lost, Goto, Threads, PCs, Tokens, mainVars
  <1>17. CASE audio_buffer
    BY <1>17 DEF audio_buffer, token_lost, Goto, Threads, PCs, Tokens, mainVars
  <1>18. ASSUME NEW ok \in BOOLEAN, curl_done(ok) PROVE TypeInv'
    <2>1. thread' \in Threads
      <3>1. CASE \E n \in 0 .. 2 : thread' = [thread EXCEPT !.pc = "flush", !.n_retries = n]
        BY <3>1 DEF Threads, PCs
      <3>2. CASE \E pc \in PCs : Goto(pc)
        BY <3>2 DEF Threads, Goto
      <3>3. thread.n_retries \in 0 .. 2
        BY DEF Threads
      <3>4. "end" \in PCs /\ "pause" \in PCs
        BY DEF PCs
      <3>5. CASE Goto("end") \/ Goto("pause")
        BY <3>2, <3>4, <3>5
      <3>6. CASE thread' = [thread EXCEPT !.pc = "flush", !.n_retries = @] /\ thread.perpetual
        BY <3>1, <3>3, <3>6
      <3>7. CASE /\ thread' = [thread EXCEPT !.pc = "flush", !.n_retries = @ + 1]
                 /\ thread.n_retries < 2
        <4>1. thread.n_retries + 1 \in 0 .. 2
          BY <3>3, <3>7
        <4> QED BY <3>1, <3>7, <4>1
      <3> QED BY <1>18, <3>5, <3>6, <3>7, Zenon DEF curl_done
    <2> QED BY <1>18, <2>1 DEF curl_done, mainVars, flags
  <1>19. CASE audio_flush
    BY <1>19 DEF audio_flush, Threads, PCs, Tokens, mainVars, flags
  <1>20. CASE audio_pause
    BY <1>20 DEF audio_pause, Goto, Threads, PCs, Tokens, mainVars, flags
  <1>21. CASE audio_track_end
    BY <1>21 DEF audio_track_end, Fails, Goto, Threads, PCs, Tokens, mainVars, flags
  <1>22. CASE play_task_out
    <2>1. clear_playlist_signal' \in BOOLEAN
      BY <1>22, Zenon DEF play_task_out
    <2> QED BY <1>22, <2>1 DEF play_task_out, Goto, Threads, PCs, Tokens, mainVars
  <1>23. CASE signal_playlist_advance
    BY <1>23 DEF signal_playlist_advance, Goto, Threads, PCs, Tokens, mainVars, flags
  <1>24. CASE thread_return
    BY <1>24 DEF thread_return, Goto, Threads, PCs, Tokens, mainVars, flags
  <1>25. CASE other_acquire
    BY <1>25 DEF other_acquire, Outlived, Threads, Tokens, mainVars
  <1> QED
    BY <1>0, <1>1, <1>2, <1>3, <1>4, <1>5, <1>6, <1>7, <1>8, <1>9, <1>10, <1>11, <1>12,
       <1>13, <1>14, <1>15, <1>16, <1>17, <1>18, <1>19, <1>20, <1>21, <1>22, <1>23, <1>24,
       <1>25 DEF Next, Handler, MainStep, PlayStep, Outside, can_track_begin_ended

(* The app starts with the types. *)
LEMMA InitType == Init => TypeInv
  <1> SUFFICES ASSUME Init PROVE TypeInv
    OBVIOUS
  <1>1. NoThread \in Threads
    BY DEF NoThread, Threads, PCs, Tokens
  <1>2. /\ playlist \in Seq(BOOLEAN) /\ joining \in {<< >>, <<TRUE>>, <<FALSE>>}
        /\ stack \in Seq(Frames) /\ Len(stack) <= MaxDepth /\ calls \in 0 .. MaxCalls
    BY BoundsAssumption, EmptySeq DEF Init
  <1>3. /\ misled \in BOOLEAN /\ advance \in BOOLEAN /\ open \in BOOLEAN
        /\ unanswered \in BOOLEAN
        /\ end_current_play_task \in BOOLEAN /\ clear_playlist_signal \in BOOLEAN
    BY Zenon DEF Init
  <1> QED BY <1>1, <1>2, <1>3 DEF Init, TypeInv, Tokens

(* The types of the app's state, for any bound on the requests: in           *)
(* particular no transfer is tried more than three times, and no handler     *)
(* nests deeper than ubus allows.                                            *)
THEOREM TypeCorrect == Spec => []TypeOK
  <1>1. TypeInv => TypeOK
    BY DEF TypeInv, TypeOK, Threads, PCs, Frames
  <1> QED BY <1>1, InitType, TypeStep, PTL DEF Spec
-----------------------------------------------------------------------------
(* Every step keeps what ties the eventfd and the join to the play thread. A *)
(* handler that would break it is one that is misled.                        *)
LEMMA JoinStep == TypeInv /\ JoinInv /\ [Next]_vars => JoinInv'
  <1> SUFFICES ASSUME TypeInv, JoinInv, [Next]_vars PROVE JoinInv'
    OBVIOUS
  <1> DEFINE Calm == /\ UNCHANGED <<joining, misled, advance>>
                     /\ thread.pc \in Returning => thread'.pc \in Returning
  <1>c. CASE Calm
    BY <1>c DEF JoinInv, MainRuns
  <1>t. thread \in Threads
    BY DEF TypeInv
  <1>0. CASE UNCHANGED vars
    BY <1>0, <1>c DEF vars, mainVars
  <1>1. CASE Handler /\ ~generic_skip
    BY <1>1, <1>c DEF Handler, generic_play, generic_play_station, generic_play_list, Request
  <1>2. CASE generic_skip
    BY <1>2 DEF generic_skip, JoinInv, MainRuns, Returning
  <1>3. CASE play_if_needed
    <2>1. UNCHANGED <<joining, thread>> /\ MainRuns
      BY <1>3 DEF play_if_needed
    <2>2. ASSUME ~misled' PROVE ~misled /\ (advance' => advance \/ ~Exists)
      BY <1>3, <2>2, Zenon DEF play_if_needed
    <2> QED BY <2>1, <2>2 DEF JoinInv, MainRuns, Exists, Returning
  <1>4. CASE on_playlist_advanced
    BY <1>4 DEF on_playlist_advanced, JoinInv, MainRuns
  <1>5. CASE create_play_thread
    BY <1>5 DEF create_play_thread, JoinInv, MainRuns
  <1>6. CASE signal_playlist_advance
    BY <1>6, <1>t DEF signal_playlist_advance, At, Goto, Threads, JoinInv, MainRuns, Returning,
      mainVars
  <1>7. CASE PlayStep /\ ~signal_playlist_advance
    <2>1. UNCHANGED <<joining, misled, advance>>
      BY <1>7 DEF PlayStep, run_play_thread, audio_acquire, acquired, set_station,
        can_track_begin_ended, audio_can_track_begin, audio_track_begin, curl_cancelled,
        audio_buffer, audio_flush, audio_pause, audio_track_end, play_task_out, thread_return,
        mainVars
    <2>2. thread.pc \in Returning => thread'.pc \in Returning
      BY <1>7, <1>t DEF PlayStep, run_play_thread, audio_acquire, acquired, set_station,
        can_track_begin_ended, audio_can_track_begin, audio_track_begin, curl_cancelled,
        audio_buffer, audio_flush, audio_pause, audio_track_end, play_task_out, thread_return,
        At, Calls, Goto, Threads, Returning
    <2> QED BY <1>c, <2>1, <2>2
  <1>8. CASE Outside
    <2>1. UNCHANGED <<joining, misled, advance>>
      BY <1>8 DEF Outside, audio_can_track_begin, audio_can_buffer, write_cb_bad_code,
        curl_done, other_acquire, mainVars
    <2>2. thread.pc \in Returning => thread'.pc \in Returning
      BY <1>8, <1>t DEF Outside, audio_can_track_begin, audio_can_buffer, write_cb_bad_code,
        curl_done, other_acquire, At, Calls, Threads, Returning
    <2> QED BY <1>c, <2>1, <2>2
  <1> QED BY <1>0, <1>1, <1>2, <1>3, <1>4, <1>5, <1>6, <1>7, <1>8 DEF Next, MainStep, Handler

(* pthread_join on the ubus thread waits for a play thread that is about to  *)
(* return, unless a handler was misled about it: on_playlist_advanced and    *)
(* the play thread never wait for each other otherwise.                      *)
THEOREM JoinEndsAlways == Spec => []JoinEnds
  <1>1. Init => TypeInv /\ JoinInv
    BY InitType DEF Init, JoinInv, MainRuns
  <1>2. TypeInv /\ JoinInv => JoinEnds
    BY Zenon DEF JoinInv, JoinEnds, Returning
  <1> QED BY <1>1, <1>2, TypeStep, JoinStep, PTL DEF Spec
-----------------------------------------------------------------------------
(* Every step keeps what ties an open track to the thread that has begun it. *)
LEMMA OpenStep == TypeInv /\ OpenInv /\ [Next]_vars => OpenInv'
  <1> SUFFICES ASSUME TypeInv, OpenInv, [Next]_vars PROVE OpenInv'
    OBVIOUS
  <1>t. thread \in Threads
    BY DEF TypeInv
  <1>0. CASE UNCHANGED <<thread, session>>
    BY <1>0 DEF OpenInv, session
  <1>1. CASE Handler \/ play_if_needed \/ on_playlist_advanced
    BY <1>0, <1>1 DEF Handler, generic_play, generic_play_station, generic_play_list, Request,
      generic_skip, play_if_needed, on_playlist_advanced
  <1>2. CASE create_play_thread
    BY <1>2 DEF create_play_thread, Exists, OpenInv, session
  <1>3. CASE PlayStep
    <2>1. CASE audio_acquire \/ audio_track_end
      BY <1>t, <2>1 DEF audio_acquire, audio_track_end, Fails, At, Calls, Goto, Threads, OpenInv,
        session
    <2>2. CASE audio_track_begin
      <3>1. CASE thread.token = "live" /\ thread' = [thread EXCEPT !.did_at_least_one_buffer = FALSE,
                                                                  !.pc = "curl"]
        BY <1>t, <3>1 DEF Threads, OpenInv
      <3>2. CASE UNCHANGED session
        BY <1>t, <2>2, <3>2 DEF audio_track_begin, At, Calls, OpenInv, session
      <3>3. CASE unanswered' = TRUE
        BY <3>3 DEF OpenInv
      <3> QED BY <2>2, <3>1, <3>2, <3>3 DEF audio_track_begin, Fails
    <2>3. CASE audio_buffer
      <3>1. thread.pc = "buffer" /\ thread'.pc \in {"curl", "end"} /\ thread'.token = thread.token
        BY <1>t, <2>3 DEF audio_buffer, token_lost, At, Calls, Goto, Threads
      <3>2. UNCHANGED session
        BY <2>3 DEF audio_buffer
      <3> QED BY <3>1, <3>2 DEF OpenInv, session
    <2>5. CASE audio_flush \/ audio_pause \/ curl_cancelled
      <3>1. UNCHANGED session
        BY <2>5 DEF audio_flush, audio_pause, curl_cancelled
      <3>2. CASE audio_flush
        <4>1. thread'.pc = "acquire"
          BY <1>t, <3>2 DEF audio_flush, Threads
        <4> QED BY <4>1 DEF OpenInv
      <3>3. CASE audio_pause \/ curl_cancelled
        <4>1. /\ thread.pc \in {"curl", "pause"} /\ thread'.pc = "end"
              /\ thread'.token = thread.token
          BY <1>t, <3>3 DEF audio_pause, curl_cancelled, At, Calls, Goto, Threads
        <4> QED BY <3>1, <4>1 DEF OpenInv, session
      <3> QED BY <2>5, <3>2, <3>3
    <2>4. CASE \/ run_play_thread \/ acquired \/ set_station \/ can_track_begin_ended
               \/ play_task_out \/ signal_playlist_advance \/ thread_return
      <3>1. thread.pc \in {"init", "acquired", "station", "can_begin", "out", "signal", "return"}
        BY <2>4 DEF run_play_thread, acquired, set_station, can_track_begin_ended,
          audio_can_track_begin, play_task_out, signal_playlist_advance, thread_return, At, Calls
      <3>2. UNCHANGED session
        BY <2>4 DEF run_play_thread, acquired, set_station, can_track_begin_ended,
          audio_can_track_begin, play_task_out, signal_playlist_advance, thread_return
      <3> QED BY <3>1, <3>2 DEF OpenInv, session
    <2> QED BY <1>3, <2>1, <2>2, <2>3, <2>4, <2>5 DEF PlayStep
  <1>4. CASE Outside
    BY <1>t, <1>4 DEF Outside, audio_can_track_begin, audio_can_buffer, token_lost,
      write_cb_bad_code, curl_done, other_acquire, At, Calls, Goto, Threads, OpenInv, session
  <1> QED BY <1>0, <1>1, <1>2, <1>3, <1>4 DEF Next, MainStep, vars

(* However a track was cut short, the thread that begins the next one under  *)
(* the same token finds it ended, if the distributor has answered the calls  *)
(* that open and end the tracks of that token.                               *)
THEOREM BeginsAreEndedAlways == Spec => []BeginsAreEnded
  <1>1. Init => TypeInv /\ OpenInv
    BY InitType DEF Init, OpenInv
  <1>2. TypeInv /\ OpenInv => BeginsAreEnded
    BY DEF OpenInv, BeginsAreEnded, At
  <1> QED BY <1>1, <1>2, TypeStep, OpenStep, PTL DEF Spec
=============================================================================
