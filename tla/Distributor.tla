----------------------------- MODULE Distributor -----------------------------
(***************************************************************************)
(* The distributor's streaming core (lua/distributor.lua): stream_thread,   *)
(* buffer_thread with do_rebuffer, play_thread, and player_states_thread of *)
(* lua/distributor_players.lua, with the mults that connect them.           *)
(*                                                                         *)
(* Apps send audio with acquire, track_begin, buffer, flush, track_end.     *)
(* stream_thread writes it to every player's stream socket.  buffer_thread  *)
(* remembers what the players have not played yet, and when a player joins  *)
(* in the middle of a track it stops all players and sends them that        *)
(* history again (a rebuffer).  play_thread pauses and resumes the players. *)
(* The threads tell the old session's answers from the new one's by a       *)
(* cookie that each stop and flush hands to the players.                    *)
(*                                                                         *)
(* Scheduling is that of async.run: a pass resumes the mults and then the   *)
(* threads in a fixed order, each until it waits; ubus requests, replies    *)
(* and timers come in between passes.                                       *)
(*                                                                         *)
(* A chunk of audio is its number in the app's session.  A Player object    *)
(* and its device are one; the stream socket delivers at once, decoding     *)
(* takes no time and ubus calls to a device are served in order.            *)
(***************************************************************************)
EXTENDS Naturals, Sequences, FiniteSets

CONSTANTS Players,       \* Player objects
          Apps,          \* apps that stream audio
          Methods,       \* the requests they use; "can" is can_track_begin or can_buffer
          None,          \* nil, or an empty channel
          Live,          \* a reference to do_rebuffer's own table of players
          Capacity,      \* chunks a player's stream and output buffers hold
          OutputSize,    \* chunks of them that the output buffer holds, whole or in part
          MaxExtra,      \* chunks kept at most beyond the stream buffer's size
          MissLimit,     \* polls do_rebuffer waits for a player before it gives up
          MaxAcquires,   \* bound: acquires
          MaxChunks,     \* bound: chunks of a session
          MaxFlushes,    \* bound: flushes
          MaxControls,   \* bound: pauses and resumes by the user
          MaxChanges,    \* bound: players added or removed
          MaxLosses,     \* bound: players whose connection breaks
          MayEmpty       \* whether the last player may be removed

Requests == {"acquire", "can", "track_begin", "buffer", "flush", "track_end"}

ASSUME ConstantsAssumption ==
    /\ Methods \subseteq Requests
    /\ None \notin Players \cup Requests /\ Live \notin Players /\ None # Live
    /\ {Capacity, OutputSize, MissLimit} \subseteq Nat \ {0}
    /\ OutputSize < Capacity /\ MaxExtra \in Nat
    /\ {MaxAcquires, MaxChunks, MaxFlushes, MaxControls, MaxChanges,
        MaxLosses} \subseteq Nat
    /\ MayEmpty \in BOOLEAN

VARIABLES
    turn,    \* the thread of the pass that ran last, 9 when requests came in since
    group,   \* players_thread's side: [table, added, changes]
    lost,    \* players whose connection is broken
    failed,  \* players whose has_error is set
    dev,     \* player -> its device
    view,    \* player -> Player.state, the last reported state
    calls,   \* player -> ubus calls under way, oldest first
    stops,   \* player -> the stop that stop_players waits for
    app,     \* app -> its session and outstanding request
    used,    \* how much of the bounds is used: [acquires, flushes, controls]
    ch,      \* the channels
    poll,    \* player_states_thread
    str,     \* stream_thread
    buf,     \* buffer_thread
    ply      \* play_thread

vars == <<turn, group, lost, failed, dev, view, calls, stops, app, used, ch,
          poll, str, buf, ply>>

-----------------------------------------------------------------------------
(* Devices (playnet, player_local): what a player does with its commands.   *)

NoCookie  == 0   \* the -2 a Player is connected with
AnyCookie == 1   \* the -1 player_states_thread starts with, below every cookie in use

\* A device before its first command; `bad` remembers audio that arrived out
\* of place.
NewDevice == [cookie |-> NoCookie, st |-> "stopped", token |-> 0, first |-> 0, last |-> 0,
              fill |-> 0, run |-> FALSE, bad |-> FALSE]

\* The decoder is idle, or the stream has ended and all of it is decoded.
CanBegin(d) == d.st \in {"stopped", "started"} \/ (d.st = "ended" /\ d.fill <= OutputSize)

GetStop(d, c)  == [d EXCEPT !.cookie = c, !.st = "stopped", !.fill = 0,
                            !.last = 0, !.run = FALSE]
GetStart(d)    == [d EXCEPT !.st = "started"]
GetBegin(d, t) == [d EXCEPT !.st = "streaming", !.token = t, !.last = 0,
                            !.bad = @ \/ d.st = "stopped" \/ ~CanBegin(d)]
GetChunk(d, t, n) ==
    [d EXCEPT !.last = n, !.fill = @ + 1, !.first = IF d.last = 0 THEN n ELSE @,
              !.bad = \/ @
                      \/ d.st # "streaming" \/ d.token # t \/ d.fill = Capacity
                      \/ d.last # 0 /\ n # d.last + 1]
GetEnd(d)      == [d EXCEPT !.st = "ended", !.bad = @ \/ d.st # "streaming"]
GetFlush(d, c) == [d EXCEPT !.cookie = c, !.fill = 0, !.last = 0]

\* What get_state reports.
Snapshot(d) == [cookie |-> d.cookie, free |-> Capacity - d.fill,
                canBegin |-> CanBegin(d), output |-> d.fill > 0]

\* The players of ps that a write to the stream socket reaches: a broken
\* connection fails the player, one that failed before is not written to.
Wrote(ps) == ps \ (lost \cup failed)

WriteTo(ps, Get(_)) ==
    /\ dev' = [p \in Players |-> IF p \in Wrote(ps) THEN Get(dev[p]) ELSE dev[p]]
    /\ failed' = failed \cup (ps \cap lost)

\* Player:track_begin and Player:buffer adjust the last reported state.
SpendBegin(ps) == [p \in Players |-> IF p \in ps THEN [view[p] EXCEPT !.canBegin = FALSE]
                                                 ELSE view[p]]

\* Mistaken variant: what is sent is not counted until the next report.
SpendChunkMutant(ps) == view

SpendChunk(ps) == [p \in Players |-> IF p \in ps THEN [view[p] EXCEPT !.free = @ - 1]
                                                 ELSE view[p]]

\* Mistaken variant: a player whose report has another cookie will do.
AllMatchMutant(ps, states) == ps \subseteq states.matched \cup states.other

\* is_subset_of(players, cookie_matched_ids)
AllMatch(ps, states) == ps \subseteq states.matched

AllCanBegin(ps)  == \A p \in ps : view[p].canBegin

\* Mistaken variant: the comparison is off by one.
AllCanBufferMutant(ps) == \A p \in ps : view[p].free >= 0

AllCanBuffer(ps) == \A p \in ps : view[p].free > 0

\* player:call for every player of ps; a failed player is not called.
Call(ps, method) == [p \in Players |-> IF p \in ps \ failed THEN Append(calls[p], method)
                                                           ELSE calls[p]]

-----------------------------------------------------------------------------
\* A message of stream_event_ch; n is the chunk of a BUFFER.
Event(e, n) == [event |-> e, n |-> n]

Init ==
    /\ turn = 9
    /\ group = [table |-> {}, added |-> {}, changes |-> 0]
    /\ lost = {}
    /\ failed = {}
    /\ dev = [p \in Players |-> NewDevice]
    /\ view = [p \in Players |-> Snapshot(NewDevice)]
    /\ calls = [p \in Players |-> <<>>]
    /\ stops = [p \in Players |-> "none"]
    /\ app = [a \in Apps |-> [token |-> 0, next |-> 1, at |-> "out", req |-> None]]
    /\ used = [acquires |-> 0, flushes |-> 0, controls |-> 0]
    /\ ch = [acquire |-> <<>>, command |-> <<>>, play |-> None,
             pollPlayers |-> None, streamPlayers |-> None,
             cookie |-> None, rebufferRequest |-> FALSE, rebufferDone |-> FALSE,
             streaming |-> None, bufStreaming |-> None, plyStreaming |-> None,
             events |-> <<Event("WAITING", 0)>>, bufEvent |-> None, plyEvent |-> None,
             states |-> None, statesHand |-> None,
             strStates |-> FALSE, bufStates |-> None, plyStates |-> None]
    /\ poll = [pc |-> "wait", players |-> {}, cookie |-> AnyCookie, fired |-> FALSE,
               ask |-> {}, replied |-> {}, matched |-> {}, other |-> {}]
    /\ str = [pc |-> "waiting", players |-> {}, cookie |-> AnyCookie, owner |-> 0,
              cmd |-> None, new |-> None, needRebuffer |-> FALSE,
              rebufferPlayers |-> {}, afterTrackEnd |-> FALSE,
              beginNow |-> FALSE, listen |-> FALSE]
    /\ buf = [pc |-> "loop", streaming |-> {}, players |-> {}, track |-> FALSE,
              buffers |-> <<>>, trackEnd |-> FALSE, misses |-> 0, next |-> 1,
              dropped |-> {}, overtook |-> FALSE]
    /\ ply = [audio |-> "PAUSED", players |-> {}, last |-> None, ended |-> FALSE,
              timers |-> 0]

-----------------------------------------------------------------------------
(* The order of a pass: async.run resumes the mults first, in the order they *)
(* were made, then the threads; what is put for an earlier one waits for the *)
(* next pass.                                                                *)

StatesMult    == 1
StreamingMult == 2
EventMult     == 3
PollThread    == 4
StreamThread  == 5
BufferThread  == 6
PlayThread    == 7
StopThreads   == 8   \* the threads player_stop makes, after all others
Threads       == 1..8

\* do_rebuffer need not wait for a report of the players.
RebufferCanGoOn ==
    \/ buf.pc = "begin" /\ AllCanBegin(buf.players)
    \/ buf.pc = "buffer" /\ (buf.next > Len(buf.buffers) \/ AllCanBuffer(buf.players))

Stopped(p) == stops[p] \in {"ok", "error"}

Ready(t) ==
    CASE t = StatesMult    -> IF ch.statesHand # None THEN ch.bufStates = None
                                                      ELSE ch.states # None
      [] t = StreamingMult -> ch.streaming # None
      [] t = EventMult     -> ch.events # <<>> /\ ch.bufEvent = None
      [] t = PollThread    ->
           \/ ch.pollPlayers # None
           \/ poll.pc = "wait" /\ (ch.cookie # None \/ poll.fired)
           \/ poll.pc = "cycle" /\ (poll.replied # {} \/ poll.ask = {})
      [] t = StreamThread  ->
           \/ str.pc \in {"waiting", "loop"}
                /\ (ch.streamPlayers # None \/ ch.acquire # <<>> \/ ch.command # <<>>)
           \/ str.pc = "stopping" /\ \E p \in Players : Stopped(p)
           \/ str.pc = "wait"
                /\ (ch.streamPlayers # None \/ ch.acquire # <<>> \/ ch.strStates)
           \/ str.pc = "rebuffer"
                /\ (ch.rebufferDone \/ (str.listen /\ ch.command # <<>>))
      [] t = BufferThread  ->
           \/ buf.pc = "loop" /\ (ch.bufStreaming # None \/ ch.bufStates # None
                                    \/ ch.bufEvent # None \/ ch.rebufferRequest)
           \/ buf.pc = "stopping" /\ \E p \in Players : Stopped(p)
           \/ buf.pc \in {"match", "begin", "buffer"} /\ (RebufferCanGoOn \/ ch.bufStates # None)
      [] t = PlayThread    -> ch.plyStreaming # None \/ ch.plyStates # None
                                \/ ch.play # None \/ ch.plyEvent # None
      [] t = StopThreads   -> \E p \in Players : stops[p] = "wanted"

\* Every thread of the pass waits.
Idle == \A t \in turn..8 : ~Ready(t)

\* Thread t is the next to run: in this pass, or first in a new one.
Runs(t) ==
    /\ Ready(t)
    /\ \/ turn <= t /\ \A u \in turn..(t - 1) : ~Ready(u)
       \/ Idle /\ \A u \in 1..(t - 1) : ~Ready(u)
    /\ turn' = t

PollAt(pc)   == poll.pc = pc /\ Runs(PollThread)
StreamAt(pc) == str.pc = pc /\ Runs(StreamThread)
BufferAt(pc) == buf.pc = pc /\ Runs(BufferThread)

\* A request, a reply or a timer between two passes.
Between == Idle /\ turn' = 9

-----------------------------------------------------------------------------
(* What comes from outside between passes: the manager's changes of the      *)
(* table of players (DistributorPlayers), requests of apps and controllers,  *)
(* the devices' replies, timers, broken connections.                         *)

\* players_ch: the new table goes to the poll and the stream threads.
Publish(ps) ==
    /\ group' = [group EXCEPT !.table = ps, !.added = @ \cup ps,
                              !.changes = IF ps = group.table \ failed THEN @ ELSE @ + 1]
    /\ ch' = [ch EXCEPT !.pollPlayers = ps, !.streamPlayers = ps]
    /\ UNCHANGED <<lost, failed, dev, view, calls, stops, app, used, poll, str, buf, ply>>

AddPlayer(p) ==
    /\ p \notin group.added /\ group.changes < MaxChanges
    /\ Between
    /\ Publish(group.table \cup {p})

RemovePlayer(p) ==
    /\ p \in group.table \ failed /\ group.changes < MaxChanges
    /\ MayEmpty \/ group.table # {p}
    /\ Between
    /\ Publish(group.table \ {p})

\* Player:_on_error has told players_thread.
DropFailed ==
    /\ group.table \cap failed # {}
    /\ Between
    /\ Publish(group.table \ failed)

ConnectionLost(p) ==
    /\ p \in group.table \ lost /\ Cardinality(lost) < MaxLosses
    /\ Between
    /\ lost' = lost \cup {p}
    /\ UNCHANGED <<group, failed, dev, view, calls, stops, app, used, ch, poll, str, buf, ply>>

\* The 100 ms timeout of player_states_thread.
PollTimer ==
    /\ poll.pc = "wait" /\ poll.players # {} /\ ~poll.fired
    /\ Between
    /\ poll' = [poll EXCEPT !.fired = TRUE]
    /\ UNCHANGED <<group, lost, failed, dev, view, calls, stops, app, used, ch, str, buf, ply>>

\* A device serves its oldest call; its reply updates the Player.
Serve(p) ==
    /\ calls[p] # <<>> /\ p \notin lost \cup failed
    /\ Between
    /\ calls' = [calls EXCEPT ![p] = Tail(@)]
    /\ LET method == Head(calls[p])
       IN  /\ dev' = [dev EXCEPT ![p] =
                        CASE method = "stop"   -> GetStop(@, str.cookie)
                          [] method = "pause"  -> [@ EXCEPT !.run = FALSE]
                          [] method = "resume" -> [@ EXCEPT !.run = TRUE]
                          [] OTHER             -> @]
           /\ stops' = IF method = "stop" THEN [stops EXCEPT ![p] = "ok"] ELSE stops
           /\ view' = IF method \in {"state", "late"}
                        THEN [view EXCEPT ![p] = Snapshot(dev[p])] ELSE view
           /\ poll' = IF method = "state"
                        THEN [poll EXCEPT !.ask = @ \ {p}, !.replied = @ \cup {p}] ELSE poll
    /\ UNCHANGED <<group, lost, failed, app, used, ch, str, buf, ply>>

\* A call ends in an error, for a broken connection or a Player that failed.
CallFails(p) ==
    /\ calls[p] # <<>> /\ p \in lost \cup failed
    /\ Between
    /\ calls' = [calls EXCEPT ![p] = Tail(@)]
    /\ failed' = failed \cup {p}
    /\ stops' = IF Head(calls[p]) = "stop" THEN [stops EXCEPT ![p] = "error"] ELSE stops
    /\ poll' = IF Head(calls[p]) = "state" THEN [poll EXCEPT !.ask = @ \ {p}] ELSE poll
    /\ UNCHANGED <<group, lost, dev, view, app, used, ch, str, buf, ply>>

DevicePlays(p) ==
    /\ dev[p].run /\ dev[p].fill > 0
    /\ Between
    /\ dev' = [dev EXCEPT ![p].fill = @ - 1]
    /\ UNCHANGED <<group, lost, failed, view, calls, stops, app, used, ch, poll, str, buf, ply>>

\* What an app may ask for next; it waits for the reply to each request, and
\* sends at least one chunk of a track.
MayAsk(a, method) ==
    CASE method = "acquire"     -> used.acquires < MaxAcquires
      [] method = "can"         -> app[a].at # "out"
      [] method = "track_begin" -> app[a].at = "begin" /\ app[a].next <= MaxChunks
      [] method = "buffer"      -> app[a].at \in {"track", "sent"} /\ app[a].next <= MaxChunks
      [] method = "flush"       -> app[a].at # "out" /\ used.flushes < MaxFlushes
      [] method = "track_end"   -> app[a].at = "sent"

Ask(a, method) ==
    /\ app[a].req = None /\ MayAsk(a, method)
    /\ Between
    /\ app' = [app EXCEPT ![a].req = method]
    /\ used' = [used EXCEPT !.acquires = @ + IF method = "acquire" THEN 1 ELSE 0,
                            !.flushes = @ + IF method = "flush" THEN 1 ELSE 0]
    /\ ch' = IF method = "acquire" THEN [ch EXCEPT !.acquire = Append(@, a)]
                                   ELSE [ch EXCEPT !.command = Append(@, a)]
    /\ UNCHANGED <<group, lost, failed, dev, view, calls, stops, poll, str, buf, ply>>

\* do_pause and resume of beep.distributor.
Control(method) ==
    /\ ch.play = None /\ used.controls < MaxControls
    /\ Between
    /\ ch' = [ch EXCEPT !.play = method]
    /\ used' = [used EXCEPT !.controls = @ + 1]
    /\ UNCHANGED <<group, lost, failed, dev, view, calls, stops, app, poll, str, buf, ply>>

\* play_thread's 10 s timer of an ended track: it goes to PAUSED by itself.
TrackEndTimer ==
    /\ ply.timers > 0
    /\ Between
    /\ ply' = [ply EXCEPT !.timers = @ - 1,
                          !.audio = IF ply.last = "TRACK_END" THEN "PAUSED" ELSE @]
    /\ UNCHANGED <<group, lost, failed, dev, view, calls, stops, app, used, ch, poll, str, buf>>

Environment ==
    \/ \E p \in Players : \/ AddPlayer(p) \/ RemovePlayer(p) \/ ConnectionLost(p)
                          \/ Serve(p) \/ CallFails(p) \/ DevicePlays(p)
    \/ DropFailed \/ PollTimer \/ TrackEndTimer
    \/ \E a \in Apps, method \in Methods : Ask(a, method)
    \/ \E method \in {"pause", "resume"} : Control(method)

-----------------------------------------------------------------------------
(* The mults.  buffer_thread's taps of the states and the events hold one    *)
(* message and block the mult while it is not taken.                         *)

\* Taps in order: stream, buffer, play; the mult may wait at buffer's with a
\* message in hand.
StatesMultStep ==
    /\ Runs(StatesMult)
    /\ LET first == IF ch.statesHand # None THEN ch.statesHand ELSE ch.states
           next  == IF ch.statesHand # None THEN ch.states ELSE None
           room  == ch.bufStates = None
       IN  ch' = [ch EXCEPT !.bufStates = IF room THEN first ELSE ch.bufStates,
                            !.plyStates = IF room THEN first ELSE ch.plyStates,
                            !.strStates = ch.strStates \/ ch.states # None,
                            !.statesHand = IF room THEN next ELSE first,
                            !.states = None]
    /\ UNCHANGED <<group, lost, failed, dev, view, calls, stops, app, used, poll, str, buf, ply>>

StreamingMultStep ==
    /\ Runs(StreamingMult)
    /\ ch' = [ch EXCEPT !.bufStreaming = ch.streaming, !.plyStreaming = ch.streaming,
                        !.streaming = None]
    /\ UNCHANGED <<group, lost, failed, dev, view, calls, stops, app, used, poll, str, buf, ply>>

EventMultStep ==
    /\ Runs(EventMult)
    /\ ch' = [ch EXCEPT !.bufEvent = Head(ch.events), !.plyEvent = Head(ch.events),
                        !.events = Tail(@)]
    /\ UNCHANGED <<group, lost, failed, dev, view, calls, stops, app, used, poll, str, buf, ply>>

-----------------------------------------------------------------------------
(* player_states_thread: every 100 ms it asks all players for their state,   *)
(* and when all have answered says which have the current cookie.            *)

\* A thread waits in alts again: what it takes also restarts the timeout.
PollTakes ==
    /\ (ch.pollPlayers # None \/ ch.cookie # None) /\ PollAt("wait")
    /\ IF ch.pollPlayers # None
         THEN /\ poll' = [poll EXCEPT !.players = ch.pollPlayers, !.fired = FALSE]
              /\ ch' = [ch EXCEPT !.pollPlayers = None]
         ELSE /\ poll' = [poll EXCEPT !.cookie = ch.cookie, !.fired = FALSE]
              /\ ch' = [ch EXCEPT !.cookie = None]
    /\ UNCHANGED <<group, lost, failed, dev, view, calls, stops, app, used, str, buf, ply>>

PollAsks ==
    /\ ch.pollPlayers = None /\ ch.cookie = None /\ PollAt("wait")
    /\ poll' = [poll EXCEPT !.pc = "cycle", !.fired = FALSE, !.ask = poll.players \ failed,
                            !.replied = {}, !.matched = {}, !.other = {}]
    /\ calls' = Call(poll.players, "state")
    /\ UNCHANGED <<group, lost, failed, dev, view, stops, app, used, ch, str, buf, ply>>

\* Replies are counted before a new table is looked at; the new table aborts
\* the cycle, and answers that come after that are nobody's.
PollCounts ==
    /\ PollAt("cycle")
    /\ LET fits     == {p \in poll.replied : view[p].cookie = poll.cookie}
           matched  == poll.matched \cup fits
           other    == poll.other \cup (poll.replied \ fits)
           complete == poll.ask = {}
           abort    == ~complete /\ ch.pollPlayers # None
       IN  /\ poll' = [poll EXCEPT
                  !.pc = IF complete \/ abort THEN "wait" ELSE @,
                  !.players = IF abort THEN ch.pollPlayers ELSE @,
                  !.ask = IF abort THEN {} ELSE @,
                  !.replied = {},
                  !.matched = IF complete \/ abort THEN {} ELSE matched,
                  !.other = IF complete \/ abort THEN {} ELSE other]
           /\ ch' = [ch EXCEPT
                  !.states = IF complete THEN [matched |-> matched, other |-> other] ELSE @,
                  !.pollPlayers = IF abort THEN None ELSE @]
           /\ calls' = IF abort
                 THEN [p \in Players |-> [i \in DOMAIN calls[p] |->
                          IF calls[p][i] = "state" THEN "late" ELSE calls[p][i]]]
                 ELSE calls
    /\ UNCHANGED <<group, lost, failed, dev, view, stops, app, used, str, buf, ply>>

-----------------------------------------------------------------------------
(* stop_players, for stream_thread and buffer_thread.                        *)

\* The threads of player_stop call the players.
StopCalls ==
    /\ Runs(StopThreads)
    /\ LET wanted == {p \in Players : stops[p] = "wanted"}
       IN  /\ calls' = Call(wanted, "stop")
           /\ stops' = [p \in Players |-> CASE p \in wanted \cap failed -> "error"
                                            [] p \in wanted \ failed   -> "called"
                                            [] OTHER                   -> stops[p]]
    /\ UNCHANGED <<group, lost, failed, dev, view, app, used, ch, poll, str, buf, ply>>

WantStops(ps) == [p \in Players |-> IF p \in ps THEN "wanted" ELSE "none"]

\* The answers that came are counted: players that stopped are started again.
Answered(result) == {p \in Players : stops[p] = result}
CountStops ==
    /\ WriteTo(Answered("ok"), GetStart)
    /\ stops' = [p \in Players |-> IF Stopped(p) THEN "none" ELSE stops[p]]

AllStopped == \A p \in Players : stops[p] \notin {"wanted", "called"}
StopFailed == Answered("error") \cup (Answered("ok") \ Wrote(Answered("ok")))

-----------------------------------------------------------------------------
(* stream_thread and handle_stream_command.                                  *)

Emit(c, e, n) == [c EXCEPT !.events = Append(@, Event(e, n))]

\* The app gets its reply: "ok", "block" (would block) or "error".
Replied(s, result) ==
    CASE result = "error" -> [s EXCEPT !.req = None, !.at = "out"]
      [] result = "block" -> [s EXCEPT !.req = None]
      [] result = "ok"    ->
           CASE s.req = "acquire"     -> [token |-> str.owner + 1, next |-> 1,
                                          at |-> "begin", req |-> None]
             [] s.req = "track_begin" -> [s EXCEPT !.req = None, !.at = "track"]
             [] s.req = "buffer"      -> [s EXCEPT !.req = None, !.at = "sent", !.next = @ + 1]
             [] s.req = "track_end"   -> [s EXCEPT !.req = None, !.at = "begin"]
             [] OTHER                 -> [s EXCEPT !.req = None]

\* Mistaken variant: the error path returns without a reply.
ReplyMutant(a, result) ==
    IF result = "error" THEN app ELSE [app EXCEPT ![a] = Replied(@, result)]

Reply(a, result) == [app EXCEPT ![a] = Replied(@, result)]

\* The top of the stream loop with no players.
WaitForAcquire(s, c) ==
    /\ str' = [s EXCEPT !.pc = "waiting", !.players = {}, !.cmd = None, !.new = None]
    /\ ch' = Emit(c, "WAITING", 0)
    /\ UNCHANGED stops

\* The top of the stream loop with an acquire: players are stopped.
BeginAcquire(a, s, c) ==
    /\ str' = [s EXCEPT !.pc = "stopping", !.cmd = a, !.new = None, !.cookie = @ + 1]
    /\ ch' = Emit([c EXCEPT !.streaming = s.players, !.cookie = s.cookie + 1],
                  "ACQUIRE_STARTED", 0)
    /\ stops' = WantStops(s.players)

WaitingPlayers ==
    /\ ch.streamPlayers # None /\ StreamAt("waiting")
    /\ str' = [str EXCEPT !.players = ch.streamPlayers]
    /\ ch' = [ch EXCEPT !.streamPlayers = None]
    /\ UNCHANGED <<group, lost, failed, dev, view, calls, stops, app, used, poll, buf, ply>>

WaitingAcquire ==
    /\ ch.streamPlayers = None /\ ch.acquire # <<>> /\ StreamAt("waiting")
    /\ LET a == Head(ch.acquire)
           c == [ch EXCEPT !.acquire = Tail(@)]
       IN  IF str.players = {}
             THEN /\ app' = Reply(a, "error")
                  /\ ch' = c
                  /\ UNCHANGED <<str, stops>>
             ELSE BeginAcquire(a, str, c) /\ UNCHANGED app
    /\ UNCHANGED <<group, lost, failed, dev, view, calls, used, poll, buf, ply>>

\* "Stream command invalid before acquire"
WaitingCommand ==
    /\ ch.streamPlayers = None /\ ch.acquire = <<>> /\ StreamAt("waiting")
    /\ app' = Reply(Head(ch.command), "error")
    /\ ch' = [ch EXCEPT !.command = Tail(@)]
    /\ UNCHANGED <<group, lost, failed, dev, view, calls, stops, used, poll, str, buf, ply>>

\* stop_players of an acquire; its failures are left to players_thread.
AcquireStops ==
    /\ StreamAt("stopping")
    /\ CountStops
    /\ IF AllStopped
         THEN /\ str' = [str EXCEPT !.pc = "loop", !.cmd = None, !.owner = @ + 1,
                                    !.beginNow = TRUE, !.needRebuffer = FALSE,
                                    !.rebufferPlayers = {}, !.afterTrackEnd = FALSE]
              /\ ch' = Emit(ch, "ACQUIRE_DONE", 0)
              /\ app' = Reply(str.cmd, "ok")
         ELSE UNCHANGED <<str, ch, app>>
    /\ UNCHANGED <<group, lost, view, calls, used, poll, buf, ply>>

\* Mistaken variant: the tables' sizes are compared.
RebufferIsNeededMutant(players, new) == Cardinality(new) > Cardinality(players)

\* Mistaken variant: the two tables are swapped.
RebufferIsNeededSwapped(players, new) == players \ new # {}

\* rebuffer_is_needed
RebufferIsNeeded(players, new) == new \ players # {}

\* A new table: one with a player we do not stream to waits for a rebuffer,
\* any other is used at once.
Adopt(s, new) ==
    IF RebufferIsNeeded(s.players, new)
      THEN [s EXCEPT !.needRebuffer = TRUE, !.rebufferPlayers = new]
      ELSE [s EXCEPT !.needRebuffer = FALSE, !.players = new]
Announce(c, s, new) ==
    IF RebufferIsNeeded(s.players, new) THEN c ELSE [c EXCEPT !.streaming = new]

StartRebuffer(s, c) ==
    /\ str' = [s EXCEPT !.pc = "rebuffer", !.cookie = @ + 1, !.players = s.rebufferPlayers,
                        !.listen = TRUE]
    /\ ch' = Emit([c EXCEPT !.streaming = s.rebufferPlayers, !.rebufferRequest = TRUE],
                  "REBUFFER", 0)

LoopPlayers ==
    /\ ch.streamPlayers # None /\ StreamAt("loop")
    /\ LET new == ch.streamPlayers
           c   == [ch EXCEPT !.streamPlayers = None]
       IN  CASE new = {} -> WaitForAcquire(str, c)
             [] new # {} /\ RebufferIsNeeded(str.players, new) /\ str.afterTrackEnd ->
                  StartRebuffer(Adopt(str, new), c) /\ UNCHANGED stops
             [] OTHER -> /\ str' = Adopt(str, new)
                         /\ ch' = Announce(c, str, new)
                         /\ UNCHANGED stops
    /\ UNCHANGED <<group, lost, failed, dev, view, calls, app, used, poll, buf, ply>>

LoopAcquire ==
    /\ ch.streamPlayers = None /\ ch.acquire # <<>> /\ StreamAt("loop")
    /\ BeginAcquire(Head(ch.acquire),
                    [str EXCEPT !.players = IF str.needRebuffer THEN str.rebufferPlayers ELSE @],
                    [ch EXCEPT !.acquire = Tail(@)])
    /\ UNCHANGED <<group, lost, failed, dev, view, calls, app, used, poll, buf, ply>>

\* A stream command is next, from the app that owns the stream.
Asker == Head(ch.command)
TakesCommand ==
    str.pc = "loop" /\ ch.streamPlayers = None /\ ch.acquire = <<>> /\ ch.command # <<>>
\* Mistaken variant: the token is not looked at.
HandlesMutant(method) ==
    /\ TakesCommand /\ app[Asker].req = method
    /\ StreamAt("loop")

Handles(method) ==
    /\ TakesCommand /\ app[Asker].token = str.owner /\ app[Asker].req = method
    /\ StreamAt("loop")

AfterTake    == [ch EXCEPT !.command = Tail(@)]
NotTrackEnd  == [str EXCEPT !.afterTrackEnd = FALSE]

InvalidToken ==
    /\ TakesCommand /\ app[Asker].token # str.owner
    /\ StreamAt("loop")
    /\ app' = Reply(Asker, "error")
    /\ ch' = AfterTake
    /\ str' = NotTrackEnd
    /\ UNCHANGED <<group, lost, failed, dev, view, calls, stops, used, poll, buf, ply>>

\* Whether the request of the command's app can be done by all players.
Fits(s, a) ==
    IF app[a].at = "begin" THEN s.beginNow \/ AllCanBegin(s.players)
                           ELSE AllCanBuffer(s.players)

\* can_track_begin and can_buffer: the opportune moment for a rebuffer.
HandleCan ==
    /\ Handles("can")
    /\ IF str.needRebuffer
         THEN /\ app' = Reply(Asker, "block")
              /\ StartRebuffer(NotTrackEnd, AfterTake)
         ELSE /\ app' = Reply(Asker, IF Fits(str, Asker) THEN "ok" ELSE "block")
              /\ str' = NotTrackEnd
              /\ ch' = AfterTake
    /\ UNCHANGED <<group, lost, failed, dev, view, calls, stops, used, poll, buf, ply>>

\* track_begin and buffer once they can be done, with the players that came
\* while they waited.
Perform(s, c) ==
    LET a     == s.cmd
        begin == app[a].req = "track_begin"
        n     == app[a].next
        done  == [s EXCEPT !.pc = "loop", !.cmd = None, !.new = None,
                           !.beginNow = @ /\ ~begin]
    IN  /\ WriteTo(s.players, LAMBDA d : IF begin THEN GetBegin(d, s.owner)
                                                  ELSE GetChunk(d, s.owner, n))
        /\ view' = IF begin THEN SpendBegin(s.players) ELSE SpendChunk(s.players)
        /\ app' = Reply(a, "ok")
        /\ str' = IF s.new = None THEN done ELSE Adopt(done, s.new)
        /\ LET c2 == IF begin THEN c ELSE Emit(c, "BUFFER", n)
           IN  ch' = IF s.new = None THEN c2 ELSE Announce(c2, s, s.new)

PerformOrWait(s, c) ==
    IF Fits(s, s.cmd)
      THEN Perform(s, c)
      ELSE /\ str' = [s EXCEPT !.pc = "wait"]
           /\ ch' = c
           /\ UNCHANGED <<dev, failed, view, app>>

HandleTrackBegin ==
    /\ Handles("track_begin")
    /\ PerformOrWait([NotTrackEnd EXCEPT !.cmd = Asker], Emit(AfterTake, "TRACK_BEGIN", 0))
    /\ UNCHANGED <<group, lost, calls, stops, used, poll, buf, ply>>

HandleBuffer ==
    /\ Handles("buffer")
    /\ PerformOrWait([NotTrackEnd EXCEPT !.cmd = Asker], AfterTake)
    /\ UNCHANGED <<group, lost, calls, stops, used, poll, buf, ply>>

\* The wait for all players: it looks at players_ch, acquire_ch and
\* player_states_ch, and goes on testing the players it started with.
WaitPlayers ==
    /\ ch.streamPlayers # None /\ StreamAt("wait")
    /\ LET c == [ch EXCEPT !.streamPlayers = None]
       IN  IF ch.streamPlayers = {}
             THEN /\ app' = Reply(str.cmd, "ok")
                  /\ WaitForAcquire(str, c)
                  /\ UNCHANGED <<dev, failed, view>>
             ELSE /\ PerformOrWait([str EXCEPT !.new = ch.streamPlayers], c)
                  /\ UNCHANGED stops
    /\ UNCHANGED <<group, lost, calls, used, poll, buf, ply>>

\* "We can tell the requester that the buffer was successful."
WaitAcquire ==
    /\ ch.streamPlayers = None /\ ch.acquire # <<>> /\ StreamAt("wait")
    /\ app' = Reply(str.cmd, "ok")
    /\ LET s == IF str.new = None THEN str ELSE Adopt(str, str.new)
           c == [ch EXCEPT !.acquire = Tail(@)]
       IN  BeginAcquire(Head(ch.acquire),
                        [s EXCEPT !.players = IF s.needRebuffer THEN s.rebufferPlayers ELSE @], c)
    /\ UNCHANGED <<group, lost, failed, dev, view, calls, used, poll, buf, ply>>

WaitStates ==
    /\ ch.streamPlayers = None /\ ch.acquire = <<>> /\ StreamAt("wait")
    /\ PerformOrWait(str, [ch EXCEPT !.strStates = FALSE])
    /\ UNCHANGED <<group, lost, calls, stops, used, poll, buf, ply>>

HandleFlush ==
    /\ Handles("flush")
    /\ app' = Reply(Asker, "ok")
    /\ str' = [NotTrackEnd EXCEPT !.cookie = @ + 1]
    /\ ch' = Emit([AfterTake EXCEPT !.cookie = str.cookie + 1], "FLUSH", 0)
    /\ WriteTo(str.players, LAMBDA d : GetFlush(d, str.cookie + 1))
    /\ UNCHANGED <<group, lost, view, calls, stops, used, poll, buf, ply>>

\* "if we get a track end we can rebuffer now"
HandleTrackEnd ==
    /\ Handles("track_end")
    /\ WriteTo(str.players, GetEnd)
    /\ app' = Reply(Asker, "ok")
    /\ LET s == [str EXCEPT !.afterTrackEnd = TRUE]
           c == Emit(AfterTake, "TRACK_END", 0)
       IN  IF str.needRebuffer THEN StartRebuffer(s, c) ELSE str' = s /\ ch' = c
    /\ UNCHANGED <<group, lost, view, calls, stops, used, poll, buf, ply>>

\* During a rebuffer only can_buffer and can_track_begin are answered; any
\* other command is put back and ends the listening.
RebufferCommand ==
    /\ ~ch.rebufferDone /\ StreamAt("rebuffer")
    /\ IF app[Asker].req = "can"
         THEN /\ app' = Reply(Asker, "block")
              /\ ch' = AfterTake
              /\ UNCHANGED str
         ELSE /\ ch' = [ch EXCEPT !.command = Append(Tail(@), Asker)]
              /\ str' = [str EXCEPT !.listen = FALSE]
              /\ UNCHANGED app
    /\ UNCHANGED <<group, lost, failed, dev, view, calls, stops, used, poll, buf, ply>>

RebufferDone ==
    /\ ch.rebufferDone /\ StreamAt("rebuffer")
    /\ str' = [str EXCEPT !.pc = "loop", !.needRebuffer = FALSE, !.rebufferPlayers = {},
                          !.listen = FALSE]
    /\ LET c == [ch EXCEPT !.rebufferDone = FALSE]
       IN  ch' = IF str.afterTrackEnd THEN Emit(c, "TRACK_END", 0) ELSE c
    /\ UNCHANGED <<group, lost, failed, dev, view, calls, stops, app, used, poll, buf, ply>>

StreamStep ==
    \/ WaitingPlayers \/ WaitingAcquire \/ WaitingCommand \/ AcquireStops
    \/ LoopPlayers \/ LoopAcquire \/ InvalidToken
    \/ HandleCan \/ HandleTrackBegin \/ HandleBuffer \/ HandleFlush \/ HandleTrackEnd
    \/ WaitPlayers \/ WaitAcquire \/ WaitStates
    \/ RebufferCommand \/ RebufferDone

-----------------------------------------------------------------------------
(* buffer_thread: the history of what players may not have played yet.       *)

\* Mistaken variant: one too many is dropped.
LastOfMutant(q, k) == IF Len(q) < k THEN q ELSE SubSeq(q, Len(q) - k + 2, Len(q))

\* What is left of q once its oldest are dropped, whole, down to k.
LastOf(q, k) == IF Len(q) <= k THEN q ELSE SubSeq(q, Len(q) - k + 1, Len(q))

\* How many chunks buffer_thread may keep for a player that reports so much
\* free: as many as fit in the bytes of its stream buffer, to which it adds a
\* guess of what the output buffer's audio was before it was decoded, and which
\* it limits.  The guess is nothing as long as the bitrate is not known, too
\* little or too much when it is wrong; a chunk that is partly decoded may go.
Amounts(free) == {k \in 0..(Capacity - OutputSize + MaxExtra) : k + OutputSize >= Capacity - free}

BufferPlayers ==
    /\ ch.bufStreaming # None /\ BufferAt("loop")
    /\ buf' = [buf EXCEPT !.streaming = ch.bufStreaming]
    /\ ch' = [ch EXCEPT !.bufStreaming = None]
    /\ UNCHANGED <<group, lost, failed, dev, view, calls, stops, app, used, poll, str, ply>>

\* The history is pruned by the report of one player, whichever comes first.
BufferStates ==
    /\ ch.bufStreaming = None /\ ch.bufStates # None /\ BufferAt("loop")
    /\ IF buf.streaming # {} /\ AllMatch(buf.streaming, ch.bufStates)
         THEN \E player1 \in buf.streaming : \E k \in Amounts(view[player1].free) :
                buf' = [buf EXCEPT !.buffers = LastOf(@, k)]
         ELSE UNCHANGED buf
    /\ ch' = [ch EXCEPT !.bufStates = None]
    /\ UNCHANGED <<group, lost, failed, dev, view, calls, stops, app, used, poll, str, ply>>

Remember(b, e) ==
    CASE e.event = "ACQUIRE_STARTED" -> [b EXCEPT !.track = FALSE, !.buffers = <<>>, !.trackEnd = FALSE]
      [] e.event = "TRACK_BEGIN"     -> [b EXCEPT !.track = TRUE, !.buffers = <<>>, !.trackEnd = FALSE]
      [] e.event = "BUFFER"          -> [b EXCEPT !.buffers = Append(@, e.n)]
      [] e.event = "FLUSH"           -> [b EXCEPT !.buffers = <<>>]
      [] e.event = "TRACK_END"       -> [b EXCEPT !.trackEnd = TRUE]
      [] OTHER                       -> b

BufferEvent ==
    /\ ch.bufStreaming = None /\ ch.bufStates = None /\ ch.bufEvent # None /\ BufferAt("loop")
    /\ buf' = Remember(buf, ch.bufEvent)
    /\ ch' = [ch EXCEPT !.bufEvent = None]
    /\ UNCHANGED <<group, lost, failed, dev, view, calls, stops, app, used, poll, str, ply>>

\* The rebuffer would begin with events still on their way that say what to
\* send: they were put before it was asked for.
OfHistory(e) == e.event \in {"ACQUIRE_STARTED", "TRACK_BEGIN", "BUFFER", "FLUSH"}
Overtakes == \E i \in DOMAIN ch.events : OfHistory(ch.events[i])

\* rebuffer_request_ch; do_rebuffer works on a copy of the table.  `overtook`
\* remembers whether a request has ever overtaken such an event.
BufferRequest ==
    /\ ch.bufStreaming = None /\ ch.bufStates = None /\ ch.bufEvent = None /\ BufferAt("loop")
    /\ buf' = [buf EXCEPT !.pc = "stopping", !.players = str.players,
                            !.overtook = @ \/ Overtakes]
    /\ ch' = [ch EXCEPT !.rebufferRequest = FALSE, !.cookie = str.cookie]
    /\ stops' = WantStops(str.players)
    /\ UNCHANGED <<group, lost, failed, dev, view, calls, app, used, poll, str, ply>>

\* do_rebuffer's table changes no more: c with the table in place of references.
Settled(b, c) ==
    LET Fix(x) == IF x = Live THEN b.players ELSE x
    IN  /\ buf' = [b EXCEPT !.pc = "loop", !.players = {}, !.misses = 0, !.next = 1]
        /\ ch' = [c EXCEPT !.streaming = Fix(@), !.bufStreaming = Fix(@), !.plyStreaming = Fix(@)]
        /\ ply' = [ply EXCEPT !.players = Fix(@)]

\* Mistaken variant: the early return without players does not say it is done.
RebufferReturnsMutant(b, c) == Settled(b, [c EXCEPT !.rebufferDone = b.players # {}])

RebufferReturns(b, c) == Settled(b, [c EXCEPT !.rebufferDone = TRUE])

\* It goes on at pc, or returns when no player is left.
RebufferGoesOn(b, c, pc) ==
    IF b.players = {} \/ pc = "return"
      THEN RebufferReturns(b, c)
      ELSE /\ buf' = [b EXCEPT !.pc = pc]
           /\ ch' = c
           /\ UNCHANGED ply

RebufferStops ==
    /\ BufferAt("stopping")
    /\ CountStops
    /\ LET b == [buf EXCEPT !.players = @ \ StopFailed]
       IN  IF AllStopped THEN RebufferGoesOn(b, ch, "match") ELSE buf' = b /\ UNCHANGED <<ch, ply>>
    /\ UNCHANGED <<group, lost, view, calls, app, used, poll, str>>

\* A player that is dropped is taken out of the table that was or is now sent.
Drop(b, gone) == [b EXCEPT !.players = @ \ gone, !.dropped = @ \cup gone]
Missed(b) == [b EXCEPT !.misses = @ + 1]
TellDrop(c, gone) == IF gone = {} THEN c ELSE [c EXCEPT !.streaming = Live]

\* "wait until cookie matches for all players"
RebufferMatches ==
    /\ BufferAt("match")
    /\ LET states == ch.bufStates
           c      == [ch EXCEPT !.bufStates = None]
           gone   == buf.players \ (states.matched \cup states.other)
           onward == IF buf.track THEN "begin" ELSE "return"
       IN  IF AllMatch(buf.players, states)
             THEN RebufferGoesOn([buf EXCEPT !.misses = 0], c, onward)
             ELSE IF buf.misses + 1 < MissLimit
               THEN RebufferGoesOn(Missed(Drop(buf, gone)), TellDrop(c, gone), "match")
               ELSE RebufferGoesOn([Drop(buf, buf.players \ states.matched) EXCEPT !.misses = 0],
                                   TellDrop(c, gone), onward)
    /\ UNCHANGED <<group, lost, failed, dev, view, calls, stops, app, used, poll, str>>

\* The waits for track_begin and buffer: players that do not match any more
\* are dropped, at the limit those that cannot take it fail.
RebufferWaits(able) ==
    LET gone == buf.players \ ch.bufStates.matched
        left == Drop(buf, gone)
        slow == IF buf.misses + 1 >= MissLimit THEN left.players \ able ELSE {}
    IN  /\ ch.bufStates # None
        /\ RebufferGoesOn(Missed(Drop(left, slow)), TellDrop([ch EXCEPT !.bufStates = None], gone), buf.pc)
        /\ failed' = failed \cup slow
        /\ UNCHANGED <<dev, view>>

RebufferBegins ==
    /\ BufferAt("begin")
    /\ IF AllCanBegin(buf.players)
         THEN /\ WriteTo(buf.players, LAMBDA d : GetBegin(d, str.owner))
              /\ view' = SpendBegin(buf.players)
              /\ RebufferGoesOn([buf EXCEPT !.players = Wrote(@), !.next = 1, !.misses = 0],
                                ch, "buffer")
         ELSE RebufferWaits({p \in Players : view[p].canBegin})
    /\ UNCHANGED <<group, lost, calls, stops, app, used, poll, str>>

\* One chunk of the history, and the track end after the last.
RebufferBuffers ==
    /\ BufferAt("buffer")
    /\ CASE buf.next > Len(buf.buffers) /\ ~buf.trackEnd ->
              RebufferReturns(buf, ch) /\ UNCHANGED <<dev, failed, view>>
         [] buf.next > Len(buf.buffers) /\ buf.trackEnd ->
              /\ WriteTo(buf.players, GetEnd)
              /\ RebufferReturns([buf EXCEPT !.players = Wrote(@)], ch)
              /\ UNCHANGED view
         [] buf.next <= Len(buf.buffers) /\ AllCanBuffer(buf.players) ->
              /\ WriteTo(buf.players, LAMBDA d : GetChunk(d, str.owner, buf.buffers[buf.next]))
              /\ view' = SpendChunk(buf.players)
              /\ RebufferGoesOn([buf EXCEPT !.players = Wrote(@), !.next = @ + 1, !.misses = 0],
                                ch, "buffer")
         [] buf.next <= Len(buf.buffers) /\ ~AllCanBuffer(buf.players) ->
              RebufferWaits({p \in Players : view[p].free > 0})
    /\ UNCHANGED <<group, lost, calls, stops, app, used, poll, str>>

BufferStep ==
    \/ BufferPlayers \/ BufferStates \/ BufferEvent \/ BufferRequest
    \/ RebufferStops \/ RebufferMatches \/ RebufferBegins \/ RebufferBuffers

-----------------------------------------------------------------------------
(* play_thread: starts the players when all have audio, pauses them when one *)
(* runs dry.  Its STARTING and PLAYING states differ only in what it reports *)
(* and are one here.                                                         *)

PlayPlayers ==
    /\ ch.plyStreaming # None /\ Runs(PlayThread)
    /\ ply' = [ply EXCEPT !.players = ch.plyStreaming]
    /\ ch' = [ch EXCEPT !.plyStreaming = None]
    /\ UNCHANGED <<group, lost, failed, dev, view, calls, stops, app, used, poll, str, buf>>

\* The table play_thread has: it may be the one do_rebuffer is working on.
PlayTable == IF ply.players = Live THEN buf.players ELSE ply.players

AllReady == \A p \in PlayTable : view[p].output

\* Mistaken variant: only right after a buffer.
UnderrunMutant == ply.last = "BUFFER" /\ ply.audio = "PLAYING" /\ ~AllReady

\* A player is low on audio although the app has not ended its track.
Underrun == ply.last # "TRACK_END" /\ ply.audio = "PLAYING" /\ ~AllReady

PlayStates ==
    /\ ch.plyStreaming = None /\ ch.plyStates # None /\ Runs(PlayThread)
    /\ ch' = [ch EXCEPT !.plyStates = None]
    /\ IF PlayTable = {} \/ ~AllMatch(PlayTable, ch.plyStates)
         THEN UNCHANGED <<ply, calls>>
         ELSE \E player1 \in PlayTable :
           LET start == ply.audio = "AUTOSTART" /\ AllReady
               ended == ply.last = "TRACK_END" /\ ~view[player1].output /\ ~ply.ended
           IN  /\ ply' = [ply EXCEPT !.audio = CASE start              -> "PLAYING"
                                                [] Underrun \/ ended -> "AUTOSTART"
                                                [] OTHER             -> @,
                                      !.ended = @ \/ ended,
                                      !.timers = @ + IF ended THEN 1 ELSE 0]
               /\ calls' = CASE start              -> Call(PlayTable, "resume")
                             [] Underrun \/ ended -> Call(PlayTable, "pause")
                             [] OTHER             -> calls
    /\ UNCHANGED <<group, lost, failed, dev, view, stops, app, used, poll, str, buf>>

PlayCommand ==
    /\ ch.plyStreaming = None /\ ch.plyStates = None /\ ch.play # None /\ Runs(PlayThread)
    /\ ch' = [ch EXCEPT !.play = None]
    /\ CASE ch.play = "pause" /\ ply.audio # "PAUSED" ->
              /\ ply' = [ply EXCEPT !.audio = "PAUSED"]
              /\ calls' = Call(PlayTable, "pause")
         [] ch.play = "resume" /\ ply.audio = "PAUSED" ->
              ply' = [ply EXCEPT !.audio = "AUTOSTART"] /\ UNCHANGED calls
         [] OTHER -> UNCHANGED <<ply, calls>>
    /\ UNCHANGED <<group, lost, failed, dev, view, stops, app, used, poll, str, buf>>

PlayEvent ==
    /\ ch.plyStreaming = None /\ ch.plyStates = None /\ ch.play = None /\ Runs(PlayThread)
    /\ LET e == ch.plyEvent.event
       IN  /\ ply' = [ply EXCEPT !.last = e,
                     !.ended = IF e = "TRACK_END" THEN FALSE ELSE @,
                     !.audio = CASE e = "FLUSH"                          -> "AUTOSTART"
                                 [] e = "ACQUIRE_DONE" /\ @ = "PLAYING" -> "AUTOSTART"
                                 [] OTHER                               -> @]
           /\ calls' = IF e = "FLUSH" THEN Call(PlayTable, "pause") ELSE calls
    /\ ch' = [ch EXCEPT !.plyEvent = None]
    /\ UNCHANGED <<group, lost, failed, dev, view, stops, app, used, poll, str, buf>>

PlayStep == PlayPlayers \/ PlayStates \/ PlayCommand \/ PlayEvent

-----------------------------------------------------------------------------
PollStep == PollTakes \/ PollAsks \/ PollCounts

ThreadStep ==
    \/ StatesMultStep \/ StreamingMultStep \/ EventMultStep
    \/ PollStep \/ StreamStep \/ BufferStep \/ PlayStep \/ StopCalls

Next == Environment \/ ThreadStep

Spec == Init /\ [][Next]_vars

\* Threads run when they can.  Calls end and the poll timer fires, however
\* often passes come in between: uloop serves its descriptors and timers
\* between passes.  Nothing is assumed of apps, controllers, the manager or of
\* how fast audio plays.
Fairness ==
    /\ WF_vars(ThreadStep)
    /\ \A p \in Players : SF_vars(Serve(p) \/ CallFails(p))
    /\ SF_vars(PollTimer)

FairSpec == Spec /\ Fairness

-----------------------------------------------------------------------------
Tables   == SUBSET Players
Maybe(S) == S \cup {None}
Events   == [event : {"WAITING", "ACQUIRE_STARTED", "ACQUIRE_DONE", "TRACK_BEGIN", "BUFFER",
                      "FLUSH", "TRACK_END", "REBUFFER"}, n : 0..MaxChunks]
States   == [matched : Tables, other : Tables]

\* An empty channel is told from one with a message.
ASSUME MessagesAssumption == None \notin Events

\* The types of the threads' and channels' state.
TypeOK ==
    /\ turn \in Threads \cup {9}
    /\ group.table \in Tables /\ group.added \in Tables
    /\ lost \in Tables /\ failed \in Tables
    /\ \A p \in Players :
         /\ dev[p].st \in {"stopped", "started", "streaming", "ended"}
         /\ dev[p].fill \in 0..Capacity
         /\ view[p].free \in 0..Capacity
         /\ stops[p] \in {"none", "wanted", "called", "ok", "error"}
    /\ \A a \in Apps : app[a].at \in {"out", "begin", "track", "sent"} /\ app[a].req \in Maybe(Methods)
    /\ {ch.pollPlayers, ch.streamPlayers} \subseteq Maybe(Tables)
    /\ {ch.streaming, ch.bufStreaming, ch.plyStreaming} \subseteq Maybe(Tables \cup {Live})
    /\ {ch.states, ch.statesHand, ch.bufStates, ch.plyStates} \subseteq Maybe(States)
    /\ {ch.bufEvent, ch.plyEvent} \subseteq Maybe(Events)
    /\ ch.events \in Seq(Events)
    /\ str.pc \in {"waiting", "stopping", "loop", "wait", "rebuffer"}
    /\ buf.pc \in {"loop", "stopping", "match", "begin", "buffer"}
    /\ buf.streaming \in Tables /\ ply.players \in Tables \cup {Live}
    /\ poll.pc \in {"wait", "cycle"}
    /\ ply.audio \in {"PAUSED", "AUTOSTART", "PLAYING"}

-----------------------------------------------------------------------------
(* Properties.                                                              *)

Healthy(p) == p \notin lost \cup failed

\* Whatever joins, leaves, flushes and acquires interleave, a player gets a
\* track's audio in order, from the session it began the track in and no more
\* than it has room for (handle_stream_command, do_rebuffer) - except one that
\* a rebuffer has dropped.
AudioIsInPlace == \A p \in Players : dev[p].bad => p \in buf.dropped

\* When do_rebuffer begins the track again it has the word of every player
\* that it stopped: no report from before the stop is taken for it.
RebufferKnowsItsPlayers ==
    buf.pc = "begin" => \A p \in buf.players : Healthy(p) =>
                          view[p].cookie = str.cookie /\ view[p].canBegin

\* The events that buffer_thread has yet to take, and what it will keep of a
\* chunk when it has taken them.
Pending == (IF ch.bufEvent = None THEN <<>> ELSE <<ch.bufEvent>>) \o ch.events
Clears(e) == e.event \in {"ACQUIRE_STARTED", "TRACK_BEGIN", "FLUSH"}
Kept(n) ==
    \/ /\ \E i \in DOMAIN buf.buffers : buf.buffers[i] = n
       /\ \A j \in DOMAIN Pending : ~Clears(Pending[j])
    \/ \E i \in DOMAIN Pending :
         /\ Pending[i] = Event("BUFFER", n)
         /\ \A j \in (i + 1)..Len(Pending) : ~Clears(Pending[j])

\* The chunks of its current track that a device has not begun to decode.
Undecoded(p) == {n \in dev[p].first..dev[p].last : n + dev[p].fill > dev[p].last + OutputSize}

\* The history buffer_thread prunes by the report of one player still has all
\* that some player has not begun to decode, whatever the bitrate makes of the
\* rest, so that a rebuffer never skips more than that player's output buffer -
\* as long as no player has left, which might be the one that reported.
UndecodedIsKept ==
    LET ps == {p \in str.players \ buf.dropped : dev[p].st \in {"streaming", "ended"}}
    IN  str.pc = "loop" /\ group.added \subseteq group.table \ lost /\ ps # {}
          => \E p \in ps : \A n \in Undecoded(p) : Kept(n)

\* An acquire is answered, whatever the stream is doing.
AcquireAnswered == \A a \in Apps : app[a].req = "acquire" ~> app[a].req = None

\* A rebuffer ends.
RebufferEnds == str.pc = "rebuffer" ~> str.pc # "rebuffer"

\* play_thread's PLAYING state means what it says: once the players of its
\* table have reported from the current session, each of them plays or is
\* being told to.  A rebuffer stops the players behind play_thread's back.
PlayingIsAudible ==
    [][LET report == ch.plyStates
       IN  /\ report # None /\ ch'.plyStates = None
           /\ AllMatch(PlayTable, report)
           /\ \A p \in PlayTable : Healthy(p) /\ view[p].cookie = str.cookie
           /\ ply'.audio = "PLAYING"
           => \A p \in PlayTable : dev[p].run \/ \E i \in DOMAIN calls'[p] : calls'[p][i] = "resume"
      ]_vars
=============================================================================
