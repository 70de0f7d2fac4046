# The Beep device software in TLA+

The repository holds the software of the Beep, a multi-room music player: a
small OpenWrt device with a dial, and a set of daemons that talk over ubus.
One device of a group is the *source*: an app on it downloads a track, and its
`distributor` sends the audio to every device of the group (itself included),
keeps the devices in step and reports what is playing.  The program's own code
is under `device/src`; the rest is OpenWrt, boot loaders and libraries.

This directory follows the audio through `device/src`, along the parts in which
most activities interleave: the app that downloads it (`AppGeneric`), the
distributor that sends it out (`DistributorPlayers`, `Distributor`), the player of
a device (`PlayerLocal`) and the stream buffer in that player (`StreamBuf` over
`Fifo2`); and, beside it, the manager's connections to the devices of a group
(`ManagerDevice`).  TLC checks all of them on small instances, liveness included;
TLAPS proves the invariants that carry each of them for every value of the
constants (of `Distributor`, that no player is sent more than it has room for and
that every player gets a track's audio in order and in its session), and that the
ring buffer implements a byte stream and the stream buffer a stream of commands.
Paths below are relative to `src/device/src/` unless they begin with `src/`; `D`
is `lua/distributor.lua` and `DP` is `lua/distributor_players.lua`.

## Inventory

| part | source | state | operations | what makes it correct |
|---|---|---|---|---|
| async runtime | `lua/lib/async.lua` | coroutines in order of creation, channels, mults | `go`, `put`, `take`, `alts`, `timeout`, `run` | nothing put on a mult is lost, doubled or reordered; a put is eventually noticed |
| players thread | `DP` `players_thread`, `lua/lib/beep_player.lua` | table of players, debounce timer, Players being connected | `add_player`, `remove_device`, `remove_all_devices`; arrivals, errors, timeouts | the others' table is current or will be; failed players leave; stale errors do no harm |
| player states thread | `DP` `player_states_thread` | table, cookie, a poll under way | 100 ms poll of all players | a player is reported as matching only on a state of the current session |
| stream thread | `D` `stream_thread`, `handle_stream_command`, `stop_players` | table, cookie, owner token, a pending rebuffer | `acquire`, `can_track_begin`, `track_begin`, `can_buffer`, `buffer`, `flush`, `track_end` | audio reaches players in order, of the owner's session, within their room; requests are answered |
| buffer thread | `D` `buffer_thread`, `do_rebuffer` | history of the track, table | saves and prunes the history; stops all players and sends it again | a rebuffer ends, and sends what has not been played |
| play thread | `D` `play_thread` | PAUSED, AUTOSTART, STARTING or PLAYING; last event | pause, resume, start when full, pause on underrun, end of track | its state is what the players do |
| sync thread | `D` `sync_thread` | start times of players | skips and silences to align them | players converge |
| state thread, volumes | `D` `state_thread`, `set_*_volume` | what is reported to controllers | ubus `get_state`, volume methods | follows the other threads |
| history, replay | `lua/distributor_history.lua`, `lua/distributor_replay.lua` | a file of recent stations | add, list | bounded |
| Device | `lua/lib/device.lua` | DISCONNECTED ... CONNECTED, sequence numbers | `connect`, `disconnect`, `call`, `on_error` | callbacks of an old connection do not touch the new one |
| player daemon | `playnet/playnet.c`, `lib/beep/player_local.c`, `lib/beep/beep_stream_ch.c` | started, open track, a lock two threads share | ubus `stop`, `pause`, `play_at`, `get_state`; socket `start`, `track_begin`, `buffer`, `track_end`, `flush` | no call waits for ever with the lock; a stopped player is clean; no input aborts the daemon |
| stream buffer | `lib/audio/fifo2.c`, `lib/audio/streambuf.c` | a ring with three pointers; nine slot counters, twice, and three indices into them | enqueue, dequeue, read and discard of data and of inline commands; flush | bytes come out as they went in; commands come out whole, between the data they were put between |
| audio | `lib/audio/audio.c`, `lib/audio/mqueue.c`, `lib/audio/decode/*` | message queue, decoder and its flags, output fifo | the decode thread's loop and handlers, output callback | a track is decoded by its own decoder; the next can begin when one has ended |
| app library, apps | `lib/beep/app.c`, `lib/beep/beep_ubus.c`, `apps/app_generic.c` | playlist, one play thread, token, three shared flags | `play`, `play_list`, `play_station`, `enqueue`, `skip`; acquire, begin, buffer, flush, end | threads do not wait for each other; what is asked for is played; each begun track is ended |
| manager: devices | `lua/beepmanager_device.lua`, `lua/beepmanager_networking.lua` | per device: interfaces, the active one, INIT ... READY, DEAD, retry timers | discovery's announcements and removals, errors, connects, confirmations | its owner hears ready and dead in turn; a ready device is connected; a dead one is tried again |
| manager: the rest | `lua/beepmanager*.lua`, `lua/lib/agent_manager.lua` | groups, apps, network | groups devices, adds them to the source's distributor | the source's players are the group |
| relay | `urelay/` | one TCP connection per device, deferred requests | `connect`, `disconnect`, `invoke` | calls are answered or fail |
| discovery | `beepdiscovery/` | mDNS records | announces and removes services | |
| other daemons | `beepcomm/`, `beepcloud/`, `beepdata/`, `beepupdate/`, `lua/beephead*.lua`, `lua/beepio*.lua`, `lua/beephealth.lua`, `iomcu/`, `flash/` | | HTTP, cloud, storage, updates, dial and LEDs | |

The threads of the distributor are coroutines of `async.lua`.  They share no
variables but they do share tables of Player objects, and talk through
channels, some of which a *mult* copies to several readers:

    apps, user, manager --ubus--> players_thread --players--> states, stream
    stream --events--> buffer, play        stream --streaming players--> buffer, play
    stream, buffer --cookie--> states      states --reports--> stream, buffer, play
    stream --rebuffer request--> buffer    buffer --rebuffer done--> stream
    stream, buffer --audio--> players      play --pause, resume--> players

The app and the player are C programs with real threads:

    clients --ubus--> main thread --create, join, flag--> play thread
    play thread --ubus calls, made by the main thread's loop--> distributor
    distributor --socket--> stream thread --+             (player daemon)
    play_thread --ubus--> ubus thread ------+--lock--> player
    player --commands and data--> stream buffer --> decode thread --> output
    player --messages--> message queue ----------->

What is hard in the distributor: each thread acts on reports and events that others have
overtaken; a player may join, leave or break at any moment of a rebuffer that
takes many passes; all of it hangs together by a cookie, a number that `stop`
and `flush` hand to the players and that they report back.  In the player,
`stop`, `flush` and `track_begin` wait, with a lock, for a thread that gets its
commands through two queues; in the app the main thread waits for the play
thread, which needs the main thread for every call, and handlers nest inside
handlers that wait.  The manager gets answers, timeouts and errors of connections
it has given up and of addresses it no longer uses.  The hazards are listed
in `PROJECT.json`, each at its line.

## Modules

| module | contents |
|---|---|
| `DistributorPlayers` | `players_thread` and the connection protocol of Players |
| `DistributorPlayersProofs` | theorems about it |
| `MCDistributorPlayers` | its instance for TLC |
| `Distributor` | `player_states_thread`, `stream_thread`, `buffer_thread` with `do_rebuffer`, `play_thread`, the mults between them and the players' devices |
| `DistributorProofs` | its types and the room of the players |
| `DistributorAudioProofs` | the audio stays in place, and what is not decoded yet is kept |
| `MCDistributor` | its instances, one `.cfg` per question |
| `ByteStream` | what `fifo2.c` promises: a bounded sequence of bytes with a kept prefix |
| `Fifo2` | `lib/audio/fifo2.c`, shown to implement `ByteStream` |
| `Fifo2Proofs` | theorems about it, the refinement among them |
| `CommandStream` | what `streambuf.c` promises: one sequence of commands and data |
| `StreamBuf` | `lib/audio/streambuf.c` over `ByteStream`, and its two callers; shown to implement `CommandStream` |
| `StreamBufProofs` | theorems about it, the refinement among them |
| `PlayerLocal` | `lib/beep/player_local.c` over `lib/audio/audio.c`: the three threads of a player |
| `PlayerLocalProofs` | theorems about it |
| `AppGeneric` | `apps/app_generic.c` and the audio calls of `lib/beep/app.c` |
| `AppGenericProofs` | theorems about it |
| `ManagerDevice` | `lua/beepmanager_device.lua` over `lua/lib/device.lua` and `urelay/urelay-client.c` |
| `ManagerDeviceProofs` | theorems about it |
| `MCFifo2`, `MCStreamBuf`, `MCPlayerLocal`, `MCAppGeneric`, `MCManagerDevice` | their instances for TLC |

### DistributorPlayers

A step of the thread is one iteration of its loop; the guards of
`HandleError`, `HandleReady`, `HandleCommand`, `HandleTimeout` are the order in
which `alts` looks at the channels.  A Player object goes through `hello`,
`stream`, `stop` and `ready`; each of the three can fail in the way the code
fails it (an error queued once, twice, or with a `nil` arrival).  Player
objects are distinct from device ids, because two objects for one id exist at
the same time when `add_player` is repeated during a connection.

### Distributor

`turn` is the scheduler.  `async.run` resumes, in order of creation, three
mults, four threads and the short threads of `player_stop`; a thread runs until
its next `alts` or `take`, and that is one action.  `Runs(t)` lets thread t run
when no thread before it in the pass can; what it puts for an earlier thread
waits for the next pass.  (`schedule_run` does nothing inside a pass, so that
the code's next pass may have to wait for an event; one comes every 100 ms, from
the poll timer, and the model lets a pass begin by itself or after an event.)
Requests, replies, timers, playing devices and
broken connections come `Between` passes, which is when uloop calls back.

Each thread is a record with a `pc` that names the `alts` or `take` it waits
in, and one action per message it takes there:

* `str`: `waiting` (no players), `loop` (the buffering loop), `wait` (a
  `track_begin` or `buffer` that does not fit yet), `stopping` (an acquire's
  `stop_players`), `rebuffer` (waiting for `rebuffer_done_ch`);
* `buf`: `loop`, and do_rebuffer's `stopping`, `match`, `begin`, `buffer`;
* `poll`: `wait` for the timer and `cycle` while answers come in;
* `ply`: a single `alts`.

`ch` holds the channels.  A tap that `D` 1818-1896 gives an unbounded buffer is
a sequence, or its last message where the reader drains it first; the taps of
`buffer_thread` for events and reports hold one message and block their mult,
as `Mult:tap` without a channel of its own does.  The table that `do_rebuffer` shrinks
is passed by reference to the other threads; `Live` stands for the reference.

A device is its `player_local` state: cookie, stopped / started / streaming /
ended, the chunks it holds, whether output runs.  `dev[p].bad` remembers that
audio came out of place.  `view[p]` is `Player.state`, the last report with the
adjustments that `Player:buffer` and `Player:track_begin` make to it.

What is abstracted:

* a chunk of audio is its number in the app's session; all chunks have one
  size and `Capacity` of them fit in a player; an app sends at least one chunk
  of a track;
* of the chunks a device holds, the oldest `OutputSize`, a partly decoded one
  included, are in its output buffer and the others in its stream buffer.
  buffer_thread (`D` 1349-1377) keeps the bytes of the stream buffer and a guess of
  the output buffer's: floored milliseconds times a bitrate, which is 0 until it
  is known, 320 for Ogg and may be wrong, all of it limited (1368), and it drops
  whole buffers.  The model does not compute the guess but allows every outcome
  (`Amounts`): any number of chunks from what the report says is in the stream
  buffer up to `Capacity - OutputSize + MaxExtra`, the limit;
* the header buffers of Ogg tracks are left out;
* a stream write reaches the device at once and decoding takes no time, so
  that a device that reports has got all that was sent before; ubus calls to
  one device are served in order;
* STARTING and PLAYING of `play_thread` are one; the `delta_ms` of a resume,
  track info and durations are left out;
* the 10 and 30 polls after which do_rebuffer gives up are `MissLimit`;
* tokens are unique (`math.random` may repeat one) and the debug token
  1234567 is left out;
* a Player that left is not connected again under its id; what happens to
  several objects of one id is `DistributorPlayers`' subject;
* a removed Player stays callable, as in the code: `Player:close` tests
  `self.stream`, which nothing sets, and its Device is the manager's.

`buf.dropped`, `buf.overtook` and `group.added` are history variables: the players
that do_rebuffer has taken out, whether a rebuffer was ever taken up before an
event that says what it is to send (`Overtakes`, `OfHistory`), and all players that
ever joined.

### Fifo2 and ByteStream

Every function of `fifo2.c` runs under the ring's mutex and is one action:
`fifo2_enq`, `fifo2_deq`, `fifo2_read`, `fifo2_discard`, `fifo2_flush`.  `base`
is the array, `sptr`, `rptr` and `wptr` its three indices, `out` what the last
call returned and copied out.  `fifo2_bytes_used` and `fifo2_bytes_free` compute
with pointers and wraps as the code does.  `ByteStream` has two sequences
instead, `stale` (read, not discarded) and `fresh`; the mapping cuts them out of
the ring between the pointers.

### StreamBuf and CommandStream

Commands and audio share one ring, and nothing in the ring tells them apart:
`slot_cnt[dslot]` says how many bytes there are to the next command.  The module
has all counters and indices, and takes the ring as the `ByteStream` that
`Fifo2` is proved to implement.  A command's bytes carry a tag that no operation
looks at, so that a wrong cut shows.  `halted` is `exit` where the code calls
`exit(2)` and `spin` where `streambuf_dec_cnt_stale` would not leave its loop.

The callers are in the model because the counters are only right for the calls
they make: `st_begin`, `buffer`, `st_end`, `flush`, `stop` of the player, and
the decode thread's turn: it handles its messages until there are none, looks for
a command, dequeues it, discards its bytes and queues it as a message, or lets the
decoder read and discard data.  `decode_state` and `streaming` are what
`can_prepare_decoder` tests.  `audio_decoder_start` zeroes `decode_state`, so that
the next track can begin while commands of this one are unread, and `stop`, which
polls for zero, flushes wherever the decode thread is.  The decode thread's change
of a flag of `current_decoder_state` is a read and a write without a lock, and may
undo that reset.  `halted` is also `assert`, where a command finds the message
queue full; the queue's size is not modelled here, and the `assert` may come at
any time.  `StopMax` bounds the messages in the queue at which a stop is called.

Three history variables, which a flush clears, name what the code does not
prevent: `lapped`, more commands are unread than slots can part; `gone`, the
command that the decode thread has seen was flushed before it dequeued it; `torn`,
and it then dequeued the next stream's `START` with the size of the other.

### PlayerLocal

`feeder`, `caller` and `decode` are the program counters of playnet's stream
thread, its ubus thread and the decode thread.  A call of the player is one
action up to its wait, because the lock excludes the other caller; `st_begin`,
`flush` and `stop` have a second or third action (`audio_decoder_start`,
`audio_decoder_resume`, `audio_decoder_flush`, `audio_decoder_stop`,
`stop_done`) since the decode thread works in between, without that lock.  The
decode thread drains its message queue, one action per handler, then looks into
the stream, moves one command to the back of the queue (`streambuf_cmd_deq`,
`mqueue_write_request`, or `mqueue_write_fails` with its `assert(0)` when the
queue is full) and runs the decoder (`decoder_callback`,
`decoder_output`): its write of `current_decoder_state` is an action of its own,
as `audio_decoder_start` resets that variable from another thread without a
lock.  A codec reads an item, underruns, or fails.

The message queue has room for `QueueMax` messages.  Pause and resume drop theirs
when it is full, which changes nothing.  `audio_decoder_stop` and
`audio_decoder_flush` pass `mqueue_write_request` a length of 0 (`audio.c` 675, 699),
which always fits: their branches for a full queue are dead, and their message is
written beyond the room that is left.  The waiting callers make that at most one
`FLUSH` and one `STOP`; as a bound, no stop is called when the queue is full.

The stream is a sequence of commands and data, which is what `StreamBuf`
implements; every item carries the number of its track.  `halted`, `revived` and
`overtaken` are history variables and name what the properties except: a command
of a stopped stream that the decode thread handled after the STOP, and a track
begun while the decode thread was still busy with the one before.  Assumed of the
callers: a flush comes only inside an open track, which is where both applications
that flush do so (`apps/app_generic.c` 841, `lua/app_playfile.lua` 100).

### AppGeneric

The main thread's handlers push a frame on `stack` and wait in `audio_resume` with
the event loop running; `play_if_needed` is the rest of the handler on top. Other
handlers, `on_playlist_advanced` and the ubus calls of the play thread run
meanwhile.  `create_play_thread` waits in `pthread_join` (`joining`), and nothing
else of the main thread runs then.  The play thread is a record with a `pc` and
its `PlayCtx`: acquire, wait for the players, begin, transfer with its write
callbacks, then retry, pause, flush or end, signal and return.  A ubus call of the
play thread needs `MainRuns`, since `other_thread_ubus_invoke` hands it to the
main thread's loop.  A track is reduced to whether it is perpetual; a token is
live, dead or none; `other_acquire` is another app's acquire at the distributor.
Any call of the play thread may fail with a live token, on an error of ubus or
after its timeout, whether or not the distributor carried it out. `unanswered` is
history: an acquire, `track_begin` or `track_end` has failed so since the last
acquire that was answered.  `misled` is history: `play_if_needed` acted on a look
at the play thread that was no longer true when its `audio_resume` returned.

### ManagerDevice

The manager is one thread whose callbacks call each other, so that each is a
function of the manager's state `m` to the next, named after the code's
(`ConnectNextInterface` is `_connect_next_interface`), and a step is one callback
from uloop: a message (`HandleMessage`), the 15 seconds of a call
(`CallTimesOut`), a retry (`RetryTimer`), discovery and the errors of other
daemons (`AddInterface`, `NotifyDiscoveryRemoval`, `NotifyDeviceError`).
`m.dev[i]` is the state of the Device of interface i, `m.calls` the calls that
have no answer yet, in order.  A call is queued to urelay, held by it, or dropped:
`del_outgoing_client` frees deferred connects without an answer, and only the
timeout ends them.  A connect is `current` until `connect_seq` moves on.

urelay has one `client` per device id, made with the address of the first
connect.  Its answers and its `beep.device.error` reach the manager in order, in
`inbox`.  ubus does not send an event back to its sender, so that the manager
does not hear its own `on_error`.

Left out: time beyond order (the retry delay; a call times out no earlier than
the one before it, since all have 15 seconds), forwarded state events, which only
repeat what the first answer did to the table, a crash of urelay, and a
disconnect that is not answered, upon which the manager exits and is restarted.
`late` chooses whether an interface has been tried for ten minutes.  `strayed` is
history: a failed connect of old has ended a new connection, or a Device has
connected when no longer asked to.

## Runs

Every bound is a constant.  For the distributor: acquires, chunks, flushes,
pauses and resumes (`MaxControls`), joins and leaves (`MaxChanges`), broken
connections (`MaxLosses`), and `Methods`, the requests an app makes.
`Capacity = 2` with `OutputSize = 1` is the smallest device in which a stream
can be full, half played, and decoded without being played.

| run | instance | shows |
|---|---|---|
| `players` | 2 ids, 3 Players, 3 commands | all of `DistributorPlayers`' properties, liveness too |
| `takeover` | 1 player that comes and goes, 2 apps, 2 acquires, 3 chunks, tracks that end | a blocked `buffer` is ended by another app's acquire, which is answered; no audio of the old session reaches the player in the new one |
| `playback` | 2 players, 2 chunks, joins and leaves, pause and resume | audio is in place through rebuffers; a rebuffer has the word of the players it stopped; the history keeps what is not decoded; PLAYING is audible |
| `lossy` | 2 players, 1 broken connection, a track that ends, rebuffers | audio stays in place for the others, rebuffers end |
| `flush` | 1 player, 3 chunks, 2 flushes, a pause or resume, tracks that end | late reports and events of before a flush do no harm |
| `fifo` | a ring of 5 bytes of 2 values; sizes 0 to above what fits | `Fifo2` implements `ByteStream` |
| `streambuf` | 8 bytes, 3 commands (4 slots), commands of 2 and 1 bytes | `StreamBuf` implements `CommandStream` and the slots are in order, but for `lapped` and `torn`; no discard spins |
| `app` | 4 requests, handlers nested 2 deep, calls that fail | joins end, ended tasks end, begun tracks are ended |
| `player` | 2 tracks, 4 items in the stream, 1 sample, a queue of 2 messages | waits end, a stopped player is clean, tracks are decoded by their own decoders |
| `manager` | 2 addresses, 3 Devices, 2 announcements, 1 removal or foreign error | the owner hears ready and dead in turn; a ready device is connected and gets listed; the manager never waits in vain |
| `empty_rebuffer` | violates `RebufferEnds` when the last player may leave | see below |
| `app_stuck` | violates `AskedIsStarted` | see below |

Two players are enough for the interesting differences: one that is streamed
to and one that joins, one that is fuller and one that is emptier, one that
breaks and one that goes on.  One rebuffer needs two changes; more changes, and
two acquires with two players, are beyond a run of a few minutes together with
chunks, so that `takeover` has them with one player.  The safety runs use the
symmetry of players; the liveness runs do not.  `flush` has one player because
three chunks and two flushes with two are too many states; the rebuffer that two
players would add resends the history whose contents `UndecodedIsKept` is about.

Buffers of up to three bytes in a ring of five, and sizes from 0 to 6, let every
pointer wrap with every split of a copy, and make the full and the empty ring
reachable at every offset.  Eight bytes of stream hold all commands of two tracks,
or of one with data.  `MAX_STREAM_CMDS` is 3 where the code has 8: a track brings
three commands, so that its slots fill up, wrap and can be lapped within two
tracks, as the code's nine slots do within four; the behaviours are not bounded.
In `player` two tracks are what one track's late commands need to meet the next;
stops and restarts are bounded only by the tracks.  A queue of two messages is
filled by pauses and resumes while a command of the stream is about to join it.
In `manager` connections fail, break and are retried without bound; two
announcements give two addresses, or one address again after it has expired;
`MaxCalls` bounds the unanswered calls at which a retry starts.
In `app` four requests are the smallest number in which a handler is nested in
another while a track is ending and one more is still to come.

Deadlock is checked except where the system may rest: `players` when the manager
has nothing more to ask; `takeover` and `empty_rebuffer` when all players are
gone and all bounds used up; `player`, `streambuf` and `app` when the callers have stopped calling or the daemon has ended; `manager`
when a device is ready, or unknown.

The properties:

* `AudioIsInPlace`: a player gets a track's chunks in order, in a track it was
  told to begin, of the session that began it, and never more than fit.
* `RebufferKnowsItsPlayers`: do_rebuffer goes on to `track_begin` only when
  every player of its table has reported after its stop.
* `UndecodedIsKept`: what some player has not begun to decode is in the history, or
  on its way to it, however wrong the bitrate is.
* `PlayingIsAudible`: play_thread's state and the players'.
* `AcquireAnswered`, `RebufferEnds`: the two things that must happen.
* `PublishedOrPending`, `FailedIsLeaving`, `OnlyFailedPlayersAreDropped`,
  `FailuresArePublished`, `ConnectedIsPublished`: the players thread.
* `ImplementsByteStream`, `ImplementsCommandStream`: the two refinements;
  `StaleTrailsFresh`, `SlotsDoNotLap`: the pointers and the slot indices keep
  their order around the ring; `DiscardEnds`: no loop under the lock.
* `JoinEnds`: the main thread joins only a thread that needs it no more;
  `EndedTaskEnds`: a task told to end ends; `BeginsAreEnded`: no track is begun
  on top of one that was cut short, if the distributor has answered.
* `StoppedIsClean`, `DecodedByOwnDecoder`, `NeverAborts`: what a stop leaves
  behind and whose data a decoder gets; `FlushEnds`, `StopEnds`,
  `BeginUnblocks`: the three waits of the player.

* `OwnerHearsInTurn`: on_ready and on_dead alternate, in step with the state;
  `ReadyIsConnected`: a ready device has a connection by its active address, or
  the news that it broke is on its way; `NeverStuck`: in every state that waits,
  what is waited for is under way; `ReadyIsListed`: a ready device gets into the
  grouping's table unless it dies first.

Each has a mistaken variant of a definition (named `...Mutant`,
or `RebufferIsNeededSwapped`) next to the definition it replaces, under which
TLC finds it violated.

### Fairness

*Distributor.*  A thread that can run does (`WF(ThreadStep)`): every `put`
schedules a pass.  Calls to a player end, in an answer or an error, and the poll
timer fires, even if passes come in between (`SF`): uloop serves descriptors and
timers between any two passes and ubus calls time out.  Nothing is assumed of
apps, of users, of the manager or of how fast a device plays.  For the players
thread: it runs, its timer fires, a connection attempt goes on or fails.

*PlayerLocal.*  The threads run, and a call that has begun takes its next step
when it may.  `SF` for `mqueue_read_timeout` and `decoder_callback`: the decode
thread's timer is computed anew in each turn.  `CallsPause`: if pause, resume and
stop are called for ever, the decode thread is time and again done with their
messages; they come from a user's requests.  `SF` for `audio_decoder_stop`: the
lock it waits for is handed on.  `stop_done` has weak fairness only, since stop
polls every 10 ms and may miss a state that lasts less.  Nothing is assumed of the
distributor.

*AppGeneric.*  The main thread's loop and the play thread run (`WF`).  Nothing is
assumed of the network, of the players or of clients: `can_buffer` may be false
for ever.  libcurl's and ubus' periodic callbacks are part of the play thread's
steps, because the code relies on them to notice `end_current_play_task`.

*ManagerDevice.*  The manager and urelay run, unanswered calls time out and
timers fire (`WF`).  Nothing is assumed of the network or of discovery.

### Where code and comments disagree

* **`empty_rebuffer`**  The buffering loop can be left when "we ran out of
  players" (`D` 771-773), but not in a rebuffer: `player_states_thread` sends
  no report for an empty table (`DP` 75), do_rebuffer waits for one, and
  stream_thread, which waits for do_rebuffer, takes neither tables nor acquires.
* **`app_stuck`**  Of a play thread that stops right after it was looked for,
  "the logic is still correct, because the only time we care that it was true
  we're just signaling play_thread to stop" (`apps/app_generic.c` 330-335).  A
  thread that has signalled the end of its track and not yet returned still
  exists; the signal is served first, finds an empty playlist, and the request
  that comes next leaves its track to a signal that will not come.

Others were seen with TLC and have no run of their own:

* "If we don't get a new TRACK_START or ACQUIRE within 10 seconds we go to
  paused" (`D` 1186-1187).  The timer is not cancelled, and tests
  only that the last event is a TRACK_END (1191): a second track that has begun,
  been buffered and ended within the 10 seconds makes it go to PAUSED before that
  track was played.
* With two players a whole short track may pass between the answer of one and that
  of the other in one poll; play_thread then takes the first answer, of before the
  track, for the track's end (`D` 1176).
* "This will remove commands from the stale counters at the correct time"
  (`lib/audio/streambuf.c` 278-279).  The discard of a `START`
  passes the empty slot of the `RESUME` behind it as well, and
  `streambuf_cmd_cnt_stale` is 0 with a command unread.  `streambuf_cmd_enq` asks
  this counter whether a slot is left; it does not limit the unread commands.
  Hence eslot can lap dslot when tracks without data follow each other (`lapped`),
  and the counters of unread data then belong to other commands.
* stop takes the zero that `audio_decoder_start` wrote for its STOP having been
  handled and flushes between the decode thread's look at a command and its
  dequeue; the next `START` is then cut with the size of that command (`torn`).
* A `track_begin` that fails on a ubus error or its timeout makes `play_task` leave
  without `track_end` and with `last_token` kept (`apps/app_generic.c` 775), and
  nobody looks at `track_end`'s result: the next task may begin a track on top of
  one that the distributor has open (`unanswered`).
* A report published in the pass in which a player joined does not know it, and
  do_rebuffer takes it for one "we don't have ... anymore" (`D` 1453) when a
  `can_buffer` starts the rebuffer in that pass.
* A rebuffer can overtake the events it is about.  Two apps acquire one after the
  other and the second begins a track while a player joins; the event mult passes
  on one event per pass, the request for a rebuffer does not go through it, and
  buffer_thread (`D` 1380, 1416) takes the request with the `TRACK_BEGIN` still to
  come.  do_rebuffer finds no track and returns, and the next chunk goes to players
  that have only been started.  `buf.overtook` marks it.  With one acquire TLC has
  found none, and it stays FALSE in the four runs.
* `RebufferKnowsItsPlayers` and `PlayingIsAudible` are checked without broken
  connections.  When the joining player's stop fails, a report from before the
  stop passes for the match of those that are left, and play_thread may never
  see the stopped players low.
* "With current design inline cmds don't take up bytes in slot cnt so they will
  always get discarded" (`lib/audio/streambuf.c` 152): the discard of a command
  steps over it only when the slot before it is used up.  With data before it
  that was read and is kept, it is counted against that data, and the command
  stays in `streambuf_cmd_cnt_stale`.
* A connect whose failure comes late ends the Device's present connection
  (`lua/lib/device.lua` 136 does not compare `connect_seq`, as 120 does), and a
  `reconnect` that is no longer wanted connects all the same (164); in both cases
  the manager can wait in CONNECTING or CONFIRMING for ever.  `NeverStuck`,
  `ReadyIsConnected` and `ReadyIsListed` except these (`strayed`).
* A device that is dead can be listed: the answer to the subscription's get_state
  is handled after on_dead (`lua/beepmanager_grouping.lua` 184).
* A nested handler or callback can start a play thread while an outer handler
  still waits in `audio_resume`; the outer one then goes by what it saw before.
  `JoinEnds`, `EndedTaskEnds` and `AskedIsStarted` except that (`misled`).
* A `START` or `RESUME` between the two queues when a stop passes it sets the
  decoder going again, and stop may then poll for ever; a track of no audible
  length lets the next begin while the decoder is still at it.  The properties of
  `PlayerLocal` except these (`revived`, `overtaken`).

## Proofs

`DistributorPlayersProofs` proves, for any sets of ids and Players and any
number of commands:

| theorem | property |
|---|---|
| `TypeCorrect` | `TypeOK` |
| `NeverOutdated` | `PublishedOrPending` |
| `FailuresLeave` | `FailedIsLeaving` |
| `StaleErrorsAreHarmless` | `OnlyFailedPlayersAreDropped` |

The assumptions are that `None` is neither an id nor a Player and that there
are Players enough for the commands; only the first is used.

`FailedIsLeaving` is not inductive by itself.  Errors are served before
arrivals, so that an error handled while its Player is still queued as ready
would be forgotten and the Player enter the table failed, for good.  The
inductive invariant `IndInv` says why this cannot be: a Player fails either
before it is connected, in which case it never arrives, or after it was handed
out by a publication (`FailureHasCause`); a Player in the ready queue is there
once, in nobody's hands yet and not in the table (`ReadyIsFresh`); the table
holds connected Players under their own id (`Ownership`); the error queue holds
failed Players only (`ErrorsAreFailures`).  There is one lemma per action, and
lemmas on what `Append` and `Tail` do to a queue.  `StaleErrorsAreHarmless`
follows from `IndInv` and the test for identity in `HandleError`.

`Fifo2Proofs` proves, for a ring of any size over any bytes and calls with any
buffers and sizes:

| theorem | property |
|---|---|
| `FifoInvariant` | `StaleTrailsFresh` (with `TypeOK`) |
| `FifoImplementsByteStream` | `ImplementsByteStream` |

Here `Inv`, the type invariant with `StaleTrailsFresh`, is inductive: going round
the ring from `sptr` one meets `rptr` before `wptr`.  The refinement needs it in
every step, because the abstract sequences are read off the ring between the
pointers and would change length otherwise.  The argument: steps along the ring
add up and wrap at most once (`IncProperties`); a stretch of the ring is a
sequence, a stretch in two pieces is their concatenation, and a write beyond a
stretch does not change it; hence an enqueue appends to `fresh`, a read moves
bytes from `fresh` to `stale`, a discard drops from the front of `stale`, and the
split copies of the code are those of the unsplit sequence.  The assumptions are
that the ring has a byte of room, that there are bytes, and that buffers are
sequences of them.

`StreamBufProofs` proves, for a buffer of any size and any number of slots:

| theorem | property |
|---|---|
| `TypeCorrect` | `TypeOK` |
| `DiscardEndsAlways` | `DiscardEnds` |
| `SlotsDoNotLapAlways` | `SlotsDoNotLap` |
| `CommandStreamImplemented` | `ImplementsCommandStream` |

The last two have the exceptions that the properties name: the counters of the
unread bytes are not claimed to be right from a lap or a torn dequeue (`~Sound`) to
the next flush.  `TypeCorrect`, `DiscardEndsAlways` and what `SlotsDoNotLap` says
of the undiscarded bytes hold without exception.  None of the four is inductive.
The invariant (`IndInv`) has these parts:

* `StoreInv`: the counters are not negative and in range (`BufOK`), and
  `cmd_cnt_stale` is the distance from `sslot` to `eslot` (`StaleSlots`);
* `FreshInv`, as long as the stream is `Sound`: the same of `cmd_cnt`, `dslot` and
  `eslot` (`FreshSlots`), and `Framed`: cutting the unread bytes at the distances
  which the data counters give yields a whole command at every cut and only data
  in between.  This ties the counters to the bytes, and is what the decode
  thread's two-step read (look at the counters, unlock, read) relies on;
* `CallersOK` and `CmdInv`: what the two callers remember of the buffer from
  before they gave the lock away is still true of it when they come back, or
  `gone` says that it is not;
* `StaleInv`: the bytes of a discard still to come (`Held`) are at most `Spare`,
  what the stale counters hold beyond the unread data, sound or not.  `sslot` may
  overtake `dslot` when a slot has no data, so the invariant compares sums and not
  positions;
* the loop of `streambuf_dec_cnt_stale` has not run on (`halted # "spin"`).

`StreamBufAssumption` asks for `MAX_STREAM_CMDS >= 1`; the code has 8 commands and
nine slots.  Sums along the slots are handled by induction over sets of naturals,
from the library's theorem that `<` is well-founded on them.

`PlayerLocalProofs` proves, for any number of tracks and any size of the stream, the
message queue and the decode fifo:

| theorem | property |
|---|---|
| `TypeCorrect` | `TypeOK` |
| `StoppedIsCleanAlways` | `StoppedIsClean` |
| `DecodedByOwnDecoderAlways` | `DecodedByOwnDecoder` |
| `NeverAbortsAlways` | `NeverAborts` |

`IndInv` follows a track through the two queues.  `QueueInv` says what may be
queued beyond the queue's room (one `STOP`, and one `FLUSH` whose sender waits);
`StopInv` what is gone at each point of a stop; `OpenInv` that an open track has
no `ST_END` on its way; `DecoderInv` that a `RESUME` travels behind its `START`
until the decoder of that track runs.  `DecodedByOwnDecoder` needs all of
`DecoderInv`: data is only decoded after a `RESUME`, and by then the decoder is
the current track's.  The assumption is that the bounds are naturals and leave
room for a track (`PlayerBounds`).

`AppGenericProofs` proves, for every set of handlers used, any number of
requests and any depth of nesting:

| theorem | property |
|---|---|
| `TypeCorrect` | `TypeOK` |
| `JoinEndsAlways` | `JoinEnds` |
| `BeginsAreEndedAlways` | `BeginsAreEnded` |

`JoinInv` is what makes a join end: the eventfd is only readable, and the ubus
thread only waits, when the play thread is about to return, and it is not readable
again while the ubus thread waits.  `OpenInv` says in which places of the play
thread a track can be open if every call was answered (`~unanswered`).  The
assumptions are on the inputs
(`BoundsAssumption`, `InputsAssumption`).

`DistributorProofs` proves `TypeCorrect` (`TypeOK`) for any players, apps,
capacities and bounds.  `TypeOK` holds two facts that are not about types: a
player is never sent more than it has room for, and the threads outside of a
rebuffer hold plain tables, never a reference to the one that `do_rebuffer` is
changing.  The inductive invariant says why:

* `Room`: `view[p].free + dev[p].fill <= Capacity`.  A report may be old but never
  claims more room than its device has: what was sent since is taken off, and a
  device only gets emptier by itself.  `buffer_thread` and `stream_thread` send a
  chunk only when the reports of all players have room for it (`AllCanBuffer`);
* `SessionsOK`: an app asks for a chunk only in a track and within the bound;
* `TablesSettled`: outside of a rebuffer no channel, hand or thread holds `Live`;
* `CommandWaits`: while `stream_thread` waits with a command, it is still its app's
  request.

There is one lemma per action, and lemmas on the mults and on the commands of a
device.  The assumption is `ConstantsAssumption`.

`DistributorAudioProofs` proves, with `MessagesAssumption` (`None` is not an event)
in addition, and broken connections included:

| theorem | what it says |
|---|---|
| `AudioInductive` | `AudioInv` always holds |
| `AudioStaysInPlace` | `AudioIsInPlace` as long as `~buf.overtook` |
| `UndecodedStaysKept` | `UndecodedIsKept` as long as `~buf.overtook` and `buf.dropped = {}` |

Since no run sets `buf.overtook`, the second theorem covers `AudioIsInPlace` as the
runs check it, and the third `UndecodedIsKept` up to the first player that a rebuffer
drops.  The difficulty is that two threads write to the players, from two
accounts of what is being played: stream_thread from the app's requests, and
do_rebuffer from the history that the events have built up by then.  `AudioInv`
shows that the accounts agree wherever one thread takes over from the other:

* `TokensOK`: one app has the owner's token, and asks only for what its track
  allows, so that the owner's place in its track is the stream's;
* `HandshakeOK`: a rebuffer is asked for, under way or done, one of the three, and
  stream_thread waits for it meanwhile;
* `CallsOK`, `StopsOK`: a player is told to stop once, by the thread that waits for
  the answers, and a stop that failed is of a broken player;
* `HistoryFollows`: the history, then the event that buffer_thread holds, then the
  events in its tap lead from mark to mark (`Marks`: begun, ended, last chunk) to
  where the owner is.  An event may be in any of the three places, and a flush or
  an acquire among them undoes what is before it;
* `RefillFollows`: while do_rebuffer runs, and no request was overtaken, the
  history alone leads there, since no event is left that would change it;
* `AudioOK`: a report that a player can begin a track is true of its device
  (`BeginsKnown`), a player that was told to start has stopped before
  (`StartsKnown`), in stream_thread's hands every player of its table is where the
  owner is (`StreamKnown`), in do_rebuffer's hands it is as far as the history has
  been sent (`RefillKnown`), and no player has gone wrong (`InPlace`).

`AudioIsInPlace` is not inductive without any of these: a chunk is in place because
the device is where stream_thread thinks, which after a rebuffer is so because
the history was the owner's track, which is so because no event was on its way.

`UndecodedStaysKept` is about the pruning: buffer_thread drops chunks from the
front of the history by what *one* player reports, down to any of the `Amounts`,
while chunks are on their way to the others and to the history.  Its invariant is
`AudioInv`, `Up` and `Good => KeptInv`. `Good` says that nothing went wrong so
far: no player has left, broke or was dropped, and no rebuffer overtook an event;
`Up` is what makes `Good` stable (then no call has failed either).  The parts of
`KeptInv`:

* `Chain`: the tables of players on their way - buffer_thread's, those in its
  channels, stream_thread's, the one wanted for the rebuffer, players_thread's -
  are each within the next.  So the player whose report prunes is one that
  stream_thread sends to;
* `DevicesSane`: a device that was stopped has no last chunk, and one that has
  chunks knows the first;
* `KeptOK`: the history is a window of the track (`Window`): it holds consecutive
  chunks up to some m, the events on their way bring m+1 to l in this order, unless
  one of them clears it.  Where stream_thread sends (`Level`), l is the last chunk of
  every player, and some player is `Covered`: the window has all it has not begun to
  decode.
  Before a track has begun (`Quiet`), l is 0;
* `RefillOK`: while do_rebuffer runs, no event of the history is on its way, and the
  players get the history from its first chunk.

A pruning leaves the player that reported covered, because all players have the
same last chunk and a report never claims more room than its device has (`Room`, of
`DistributorProofs`), and a rebuffer leaves every player covered, because it sends
the whole history.  The exceptions are needed: an overtaking rebuffer sends less than
was sent before, so that the players' last chunk is not the window's, and after a
dropped or departed player buffer_thread may still hold a report of it.

`ManagerDeviceProofs` proves, for any number of interfaces, shared addresses
included, and any bounds:

| theorem | property |
|---|---|
| `TypeCorrect` | `TypeOK` |
| `OwnerHearsInTurnAlways` | `OwnerHearsInTurn` |
| `NeverStuckAlways` | `NeverStuck` |
| `ReadyIsConnectedAlways` | `ReadyIsConnected` |

The last two hold until a stray, as the properties say.  The inductive invariant
`Inv` has parts that hold always:

* `InTurn`: the active interface is the first of the list, which has no
  duplicates, and what the owner heard last agrees with the manager's state.
  `OwnerHearsInTurn` needs the list because `_on_interface_dead` takes its front,
  whichever interface that is;
* `Timed` and `Owed`: a dead device with an interface has a retry timer, and there
  are no more timers than announcements, which is what bounds `timers`;

and a part that holds as long as nothing strayed, `Good`, about the calls, the
messages on their way back and urelay's client together:

* `Settled`: only the active interface is in use, in the way the manager's state
  says, and a reconnect is only asked for during a disconnect;
* `Safe`: a Device has at most one connect that counts and one disconnect under
  way, none that its state does not wait for, and its disconnect is behind its
  connects;
* `ConWaits`, `DisWaits`, `Confirming`: what a Device or the manager waits for is
  under way, as a call or as an answer; with `Timed` this is `NeverStuck`;
* `Ordered`, `Owned`, `Deferred`: the calls that urelay has yet to serve end with
  the connect of the interface in use, urelay's client is of that interface or a
  disconnect is on its way to it, and only a client holds calls.  This is why an
  interface cannot be left with a connection that another's disconnect closes;
* `Up` and `UpSoon`: an interface that is connected, or whose connect succeeded,
  has urelay's connection, or the manager will read of the break *behind* every
  `get_state` that succeeded before it.  `ReadyIsConnected` alone is not inductive:
  an old success, read after the error, would confirm a device that is gone.

The proof follows the code: lemmas on the Device's functions, on the manager's
functions that call them, on the callbacks that call those, and on what urelay does to the
calls (each answer moves a call to the inbox and leaves the order of the others).
Two definitions of `ManagerDevice` are written for it: `AnswerConnects` picks the
deferred connects by their positions and not with `SelectSeq`, and `OnAnswer` has
arms that exclude each other.  The assumptions are that `None` is not an interface,
that the interfaces are those with an address, and that the bounds are naturals.

Only model-checked:

* all liveness, because fairness and ENABLED are outside what the prover handles;
* of `Distributor`, `RebufferKnowsItsPlayers`, `PlayingIsAudible`,
  `UndecodedIsKept` once a rebuffer has dropped a player, and `AudioIsInPlace`
  once a rebuffer has overtaken its events.  The last is not a theorem then, and
  neither are `RebufferKnowsItsPlayers` and `PlayingIsAudible` as they stand: a
  broken connection refutes them (see the disagreements above), and the runs keep
  it apart.  A proof needs the exception marked in the state, as `overtook` is.

## Not modelled

* *Distributor*: the sync thread (arithmetic on measured times), the state
  thread, volumes, track information, the history file and the replay aid.
* *Player daemon*: parsing of the socket's messages, `get_state`, `play_at`'s
  delay, skips, silence and synchronisation, which work on sample clocks.
* *Stream buffer*: `lock_state`, `restore_state` and the `streambuf_sync_*`
  calls, which the synchronisation uses.
* *Codecs and output drivers*: vendored or arithmetic.
* *Apps*: shutdown, `msg_socket`, volume calls, and what URLs and headers say.
* *Manager*: grouping, apps, network checks and updates; towards the distributor
  it appears as the sender of `add_player` and `remove_device`.
* *Relay*: the server side, forwarded events, restarts.
* Discovery, user interface, cloud, storage and HTTP servers, updater,
  wifi setup, MCU firmware: parsing, I/O and register access.
* Vendored code: OpenWrt, LuCI, the boot loaders, libubox, libraries, and ubus but
  for the order in which it passes on and serves calls (`Queued`, `Serves` and
  `Served` of `ManagerDevice`).

## Plan

Done: the players thread, the distributor, ring buffer, stream buffer, player, app
and the manager's devices, each with its proofs.  Left, in this order:

1. proofs about `Distributor`: `RebufferKnowsItsPlayers` with what refutes it marked
   in the state;
2. play and state threads in full: track info, `num_tracks_started`, what the
   app is told at the end of a track;
3. `Mult`: `async.lua`'s mult and taps, shown to implement a broadcast;
4. the sync thread, grouping.
