----------------------------- MODULE AppGeneric -----------------------------
(* apps/app_generic.c with the audio_* calls of lib/beep/app.c: the app that *)
(* plays urls.  The main (ubus) thread owns the playlist; one play thread at *)
(* a time plays one track.  They share three flags and an eventfd.           *)
(*                                                                           *)
(* A ubus call of the play thread is made on the main thread's event loop    *)
(* (other_thread_ubus_invoke), so that it returns only while the main thread *)
(* is not blocked in pthread_join.  A ubus call of the main thread runs the  *)
(* event loop itself until its answer is there (ubus_complete_request), so   *)
(* that handlers and callbacks nest inside a handler that is still waiting.  *)
EXTENDS Integers, Sequences

CONSTANTS Enqueue,     \* the handlers used: enqueue (TRUE), play (FALSE)
          Items,       \* how many usable items a list has
          MaxCalls,    \* bound on the requests of the app's clients
          MaxDepth     \* bound on nested requests (ubus nests at most 3)

ASSUME BoundsAssumption == MaxCalls \in Nat /\ MaxDepth \in Nat \ {0}
ASSUME InputsAssumption == Enqueue \subseteq BOOLEAN /\ Items \subseteq Nat

VARIABLES playlist,    \* of each track, whether it is perpetual
          thread,      \* the play thread and its PlayCtx
          end_current_play_task, clear_playlist_signal, last_token,
          advance,     \* playlist_advance_fd is readable
          stack,       \* the handlers waiting for audio_resume
          joining,     \* the track create_play_thread waits to start, if any
          open,        \* the distributor has begun a track for the live token
          unanswered,  \* history: a call that opens or ends its tracks failed
          calls,
          misled       \* history: play_if_needed went by a thread it had missed

flags == <<end_current_play_task, clear_playlist_signal, last_token>>
mainVars == <<playlist, stack, joining, calls, misled>>
session == <<open, unanswered>>
vars == <<mainVars, thread, flags, advance, session>>

\* A token the distributor gave this app is live until the next acquire.
Tokens == {"none", "live", "dead"}
Outlived(token) == IF token = "live" THEN "dead" ELSE token

NoThread == [pc |-> "none", perpetual |-> FALSE, token |-> "none",
             did_at_least_one_buffer |-> FALSE, n_retries |-> 0, finalize |-> FALSE]

NewThread(track) == [NoThread EXCEPT !.pc = "init", !.perpetual = track]

\* play_thread && pthread_kill(play_thread, 0) != ESRCH
Exists == thread.pc \notin {"none", "exited"}

MainRuns == joining = << >>

Init ==
  /\ playlist = << >> /\ thread = NoThread
  /\ end_current_play_task = FALSE /\ clear_playlist_signal = FALSE
  /\ last_token = "none" /\ advance = FALSE
  /\ stack = << >> /\ joining = << >> /\ open = FALSE /\ calls = 0
  /\ unanswered = FALSE /\ misled = FALSE
-----------------------------------------------------------------------------
\* The main thread.

ClearUnless(enqueue) ==
  /\ last_token' = IF enqueue THEN last_token ELSE "none"
  /\ clear_playlist_signal' = (enqueue /\ clear_playlist_signal)

\* The part of a handler before audio_resume: play_if_needed looks for the
\* thread, and uses what it saw when the distributor has answered.
Request(enqueue, tracks) ==
  /\ MainRuns /\ calls < MaxCalls /\ Len(stack) < MaxDepth
  /\ ClearUnless(enqueue)
  /\ playlist' = (IF enqueue THEN playlist ELSE << >>) \o tracks
  /\ stack' = Append(stack, [enqueue |-> enqueue, exists |-> Exists])
  /\ calls' = calls + 1
  /\ UNCHANGED <<thread, end_current_play_task, advance, joining, session, misled>>

generic_play(enqueue) == Request(enqueue, <<FALSE>>)

generic_play_station == Request(FALSE, <<TRUE>>)

\* A list without a usable item is refused, after the playlist is cleared.
generic_play_list(enqueue, n) ==
  \/ n > 0 /\ Request(enqueue, [i \in 1 .. n |-> FALSE])
  \/ /\ n = 0 /\ MainRuns /\ calls < MaxCalls
     /\ ClearUnless(enqueue)
     /\ playlist' = IF enqueue THEN playlist ELSE << >>
     /\ calls' = calls + 1
     /\ UNCHANGED <<thread, end_current_play_task, advance, stack, joining, session, misled>>

\* A handler that always signals the advance.
play_if_neededMutant ==
  /\ MainRuns /\ stack # << >>
  /\ advance' = TRUE
  /\ stack' = SubSeq(stack, 1, Len(stack) - 1)
  /\ misled' = (misled \/ (Exists /\ ~stack[Len(stack)].exists))
  /\ UNCHANGED <<playlist, joining, calls, thread, flags, session>>

\* The rest of play_if_needed, in the innermost waiting handler.
play_if_needed ==
  /\ MainRuns /\ stack # << >>
  /\ LET frame == stack[Len(stack)]
     IN  /\ advance' = (advance \/ ~frame.exists)
         /\ end_current_play_task' = (end_current_play_task \/ (frame.exists /\ ~frame.enqueue))
         /\ misled' = (misled \/ (Exists /\ ~frame.exists))
  /\ stack' = SubSeq(stack, 1, Len(stack) - 1)
  /\ UNCHANGED <<playlist, joining, calls, thread, clear_playlist_signal, last_token, session>>

\* skip tests play_thread, which stays set until the thread is joined.
generic_skip ==
  /\ MainRuns /\ playlist # << >> /\ calls < MaxCalls
  /\ calls' = calls + 1
  /\ \/ /\ thread.pc # "none"
        /\ last_token' = "none" /\ end_current_play_task' = TRUE
        /\ UNCHANGED advance
     \/ /\ thread.pc = "none"
        /\ advance' = TRUE
        /\ UNCHANGED <<last_token, end_current_play_task>>
  /\ UNCHANGED <<playlist, stack, joining, thread, clear_playlist_signal, session, misled>>

\* The first half of create_play_thread's work is to wait for the old thread.
on_playlist_advanced ==
  /\ MainRuns /\ advance
  /\ advance' = FALSE
  /\ clear_playlist_signal' = FALSE
  /\ \/ /\ clear_playlist_signal \/ playlist = << >>
        /\ playlist' = << >>
        /\ UNCHANGED joining
     \/ /\ ~clear_playlist_signal /\ playlist # << >>
        /\ playlist' = Tail(playlist)
        /\ joining' = <<Head(playlist)>>
  /\ UNCHANGED <<stack, calls, thread, end_current_play_task, last_token, session, misled>>

create_play_thread ==
  /\ ~MainRuns /\ ~Exists
  /\ thread' = NewThread(joining[1])
  /\ joining' = << >>
  /\ end_current_play_task' = FALSE
  /\ UNCHANGED <<playlist, stack, calls, clear_playlist_signal, last_token, advance, session, misled>>
-----------------------------------------------------------------------------
\* The play thread.  Every call to the distributor needs the main thread.

Goto(pc) == thread' = [thread EXCEPT !.pc = pc]
At(pc) == thread.pc = pc
Calls(pc) == At(pc) /\ MainRuns

run_play_thread ==
  /\ At("init")
  /\ thread' = [thread EXCEPT !.token = last_token,
                              !.pc = IF last_token = "none" THEN "acquire" ELSE "can_begin"]
  /\ UNCHANGED <<mainVars, flags, advance, session>>

\* The distributor ends the old token before it looks at another command.  Its
\* answer is the new token.  The call may also fail, on an error of ubus or after
\* its 21 s: the result is -1 then, whether or not the distributor was reached.
audio_acquire ==
  /\ Calls("acquire")
  /\ \/ /\ thread' \in {[thread EXCEPT !.token = "live", !.pc = "acquired"],
                         [thread EXCEPT !.finalize = TRUE, !.pc = "out"]}
        /\ last_token' = Outlived(last_token)
        /\ open' = FALSE /\ unanswered' = FALSE
     \/ /\ thread' = [thread EXCEPT !.finalize = TRUE, !.pc = "out"]
        /\ unanswered' = TRUE
        /\ UNCHANGED <<last_token, open>>
  /\ UNCHANGED <<mainVars, end_current_play_task, clear_playlist_signal, advance>>

acquired ==
  /\ At("acquired")
  /\ last_token' = thread.token
  /\ Goto("station")
  /\ UNCHANGED <<mainVars, end_current_play_task, clear_playlist_signal, advance, session>>

set_station ==
  /\ Calls("station")
  /\ \/ thread.token = "live" /\ Goto("can_begin")
     \/ Goto("out")
  /\ UNCHANGED <<mainVars, flags, advance, session>>

\* The players may not be able to begin a track for as long as they like.
\* The branch for an invalid token is never taken: -1 ends the loop as 1 does.
audio_can_track_begin ==
  /\ Calls("can_begin")
  /\ Goto("begin")
  /\ UNCHANGED <<mainVars, flags, advance, session>>

\* A loop that only ends when the players can begin.
can_track_begin_endedMutant == FALSE

\* The loop also ends when the task is to end, whatever the distributor says.
can_track_begin_ended == end_current_play_task /\ audio_can_track_begin

\* A call with a live token that fails may have been carried out or not.
Fails == thread.token = "live" /\ unanswered' = TRUE

\* When it fails, play_task leaves at once, and last_token stays what it was.
audio_track_begin ==
  /\ Calls("begin")
  /\ \/ /\ thread.token = "live"
        /\ open' = TRUE /\ UNCHANGED unanswered
        /\ thread' = [thread EXCEPT !.did_at_least_one_buffer = FALSE, !.pc = "curl"]
     \/ thread.token # "live" /\ Goto("out") /\ UNCHANGED session
     \/ Fails /\ Goto("out") /\ open' \in {open, TRUE}
  /\ UNCHANGED <<mainVars, flags, advance>>

\* Either callback ends the transfer once the task is to end.
curl_cancelled ==
  /\ At("curl") /\ end_current_play_task
  /\ Goto("end")
  /\ UNCHANGED <<mainVars, flags, advance, session>>

write_cb_bad_code ==
  /\ At("curl")
  /\ last_token' = "none"
  /\ Goto("end")
  /\ UNCHANGED <<mainVars, end_current_play_task, clear_playlist_signal, advance, session>>

token_lost ==
  /\ clear_playlist_signal' = TRUE
  /\ last_token' = "none"
  /\ Goto("end")

\* With a live token the players may be full, and curl is paused.  A call that
\* fails is taken for a lost token, whatever became of the token.
audio_can_buffer ==
  /\ Calls("curl") /\ ~end_current_play_task
  /\ \/ thread.token = "live" /\ Goto("buffer") /\ UNCHANGED <<clear_playlist_signal, last_token>>
     \/ token_lost
  /\ UNCHANGED <<mainVars, end_current_play_task, advance, session>>

audio_buffer ==
  /\ Calls("buffer")
  /\ \/ /\ thread.token = "live"
        /\ thread' = [thread EXCEPT !.did_at_least_one_buffer = TRUE, !.pc = "curl"]
        /\ UNCHANGED <<clear_playlist_signal, last_token>>
     \/ token_lost
  /\ UNCHANGED <<mainVars, end_current_play_task, advance, session>>

\* A task that returns without track_end.
curl_doneMutant(ok) ==
  /\ At("curl")
  /\ Goto("out")
  /\ UNCHANGED <<mainVars, flags, advance, session>>

\* One attempt too many.
curl_doneOnceMoreMutant(ok) ==
  /\ At("curl")
  /\ thread' = [thread EXCEPT !.pc = "flush", !.n_retries = @ + 1]
  /\ thread.n_retries <= 2
  /\ UNCHANGED <<mainVars, flags, advance, session>>

\* The transfer ends, well (ok) or with an error of the network.  A perpetual
\* item is always tried again, another one twice, but only if it has played.
curl_done(ok) ==
  /\ At("curl")
  /\ LET again == thread.did_at_least_one_buffer /\ (~ok \/ thread.perpetual)
     IN  \/ /\ again /\ (thread.perpetual \/ thread.n_retries < 2)
            /\ thread' = [thread EXCEPT !.pc = "flush",
                            !.n_retries = IF thread.perpetual THEN @ ELSE @ + 1]
         \/ /\ again /\ ~thread.perpetual /\ thread.n_retries = 2
            /\ Goto("pause")
         \/ ~again /\ Goto("end")
  /\ UNCHANGED <<mainVars, flags, advance, session>>

audio_flush ==
  /\ Calls("flush")
  /\ thread' = [thread EXCEPT !.token = "none", !.pc = "acquire"]
  /\ UNCHANGED <<mainVars, flags, advance, session>>

audio_pause ==
  /\ Calls("pause")
  /\ Goto("end")
  /\ UNCHANGED <<mainVars, flags, advance, session>>

audio_track_end ==
  /\ Calls("end")
  /\ \/ thread.token = "live" /\ open' = FALSE /\ UNCHANGED unanswered
     \/ thread.token # "live" /\ UNCHANGED session
     \/ Fails /\ open' \in {open, FALSE}
  /\ Goto("out")
  /\ UNCHANGED <<mainVars, flags, advance>>

play_task_out ==
  /\ At("out")
  /\ clear_playlist_signal' = (clear_playlist_signal \/ thread.finalize)
  /\ Goto("signal")
  /\ UNCHANGED <<mainVars, end_current_play_task, last_token, advance, session>>

signal_playlist_advance ==
  /\ At("signal")
  /\ advance' = TRUE
  /\ Goto("return")
  /\ UNCHANGED <<mainVars, flags, session>>

thread_return ==
  /\ At("return")
  /\ Goto("exited")
  /\ UNCHANGED <<mainVars, flags, advance, session>>
-----------------------------------------------------------------------------
\* Another app acquires the audio.
other_acquire ==
  /\ last_token' = Outlived(last_token)
  /\ thread' = [thread EXCEPT !.token = Outlived(@)]
  /\ open' = FALSE /\ unanswered' = FALSE
  /\ UNCHANGED <<mainVars, end_current_play_task, clear_playlist_signal, advance>>

Handler ==
  \/ \E enqueue \in Enqueue : generic_play(enqueue)
  \/ generic_play_station
  \/ \E enqueue \in Enqueue, n \in Items : generic_play_list(enqueue, n)
  \/ generic_skip

MainStep == play_if_needed \/ on_playlist_advanced \/ create_play_thread

PlayStep ==
  \/ run_play_thread \/ audio_acquire \/ acquired \/ set_station
  \/ can_track_begin_ended \/ audio_track_begin \/ curl_cancelled \/ audio_buffer
  \/ audio_flush \/ audio_pause \/ audio_track_end
  \/ play_task_out \/ signal_playlist_advance \/ thread_return

\* What the network and the players do is up to them.
Outside ==
  \/ audio_can_track_begin \/ audio_can_buffer \/ write_cb_bad_code
  \/ \E ok \in BOOLEAN : curl_done(ok)
  \/ other_acquire

Next == Handler \/ MainStep \/ PlayStep \/ Outside

Spec == Init /\ [][Next]_vars

(* The event loop answers, dispatches its descriptors and its nested calls,  *)
(* and the play thread runs; ubus and libcurl keep calling back.             *)
Fairness == WF_vars(MainStep) /\ WF_vars(PlayStep)

FairSpec == Spec /\ Fairness
-----------------------------------------------------------------------------
(* The threads' fields have their types, a transfer is tried at most three   *)
(* times (play_task), and handlers nest no deeper than the bound.            *)
TypeOK ==
  /\ playlist \in Seq(BOOLEAN) /\ joining \in {<< >>, <<TRUE>>, <<FALSE>>}
  /\ thread.pc \in {"none", "init", "acquire", "acquired", "station", "can_begin", "begin",
                    "curl", "buffer", "flush", "pause", "end", "out", "signal", "return", "exited"}
  /\ {thread.token, last_token} \subseteq Tokens
  /\ thread.n_retries \in 0 .. 2
  /\ Len(stack) <= MaxDepth /\ calls \in 0 .. MaxCalls

(* pthread_join on the ubus thread only waits for a thread that is about to  *)
(* return.  If it waited for one that still plays, the two would wait for    *)
(* each other: the play thread's next ubus call needs the ubus thread.  So   *)
(* it is as long as no handler was misled about the play thread.             *)
JoinEnds == ~MainRuns /\ ~misled => thread.pc \in {"none", "return", "exited"}

(* A task told to end does end, wherever it is: in the wait for the players, *)
(* in a paused transfer, or between two attempts at a broken stream.         *)
EndedTaskEnds == end_current_play_task /\ Exists ~> ~Exists \/ misled

(* Successive play threads use one token for a run of tracks.  None begins a *)
(* track under a token whose last track it has not ended, whichever way that *)
(* track was cut short, as long as the distributor has answered every        *)
(* acquire, track_begin and track_end of that token: play_task does not look *)
(* at track_end's result, and keeps last_token when track_begin fails.       *)
BeginsAreEnded == At("begin") /\ thread.token = "live" /\ ~unanswered => ~open

(* "the logic is still correct, because the only time we care that it was    *)
(* true we're just signaling play_thread to stop, so the same effect is      *)
(* achieved by it stopping on it's own": a track asked for is started.       *)
AskedIsStarted == playlist # << >> ~> playlist = << >> \/ misled
=============================================================================
