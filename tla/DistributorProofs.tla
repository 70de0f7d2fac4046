-------------------------- MODULE DistributorProofs --------------------------
(* What Distributor proves for any players, apps, capacities and bounds: its *)
(* type invariant, which says among other things that no device is ever sent *)
(* more than it has room for and that what a rebuffer shares with the other  *)
(* threads is a plain table again when it is over.                           *)
EXTENDS Distributor, SequenceTheorems, TLAPS

StopStates == {"none", "wanted", "called", "ok", "error"}
EventNames == {"WAITING", "ACQUIRE_STARTED", "ACQUIRE_DONE", "TRACK_BEGIN", "BUFFER",
               "FLUSH", "TRACK_END", "REBUFFER"}

Groups   == [table : Tables, added : Tables, changes : Nat]
Devices  == [cookie : Nat, st : {"stopped", "started", "streaming", "ended"}, token : Nat,
             first : Nat, last : Nat, fill : Nat, run : BOOLEAN, bad : BOOLEAN]
Views    == [cookie : Nat, free : Nat, canBegin : BOOLEAN, output : BOOLEAN]
Sessions == [token : Nat, next : Nat, at : {"out", "begin", "track", "sent"},
             req : Maybe(Methods)]
Channels ==
    [acquire : Seq(Apps), command : Seq(Apps), play : Maybe({"pause", "resume"}),
     pollPlayers : Maybe(Tables), streamPlayers : Maybe(Tables), cookie : Maybe(Nat),
     rebufferRequest : BOOLEAN, rebufferDone : BOOLEAN,
     streaming : Maybe(Tables \cup {Live}), bufStreaming : Maybe(Tables \cup {Live}),
     plyStreaming : Maybe(Tables \cup {Live}),
     events : Seq(Events), bufEvent : Maybe(Events), plyEvent : Maybe(Events),
     states : Maybe(States), statesHand : Maybe(States), bufStates : Maybe(States),
     plyStates : Maybe(States), strStates : BOOLEAN]
Polls    == [pc : {"wait", "cycle"}, players : Tables, cookie : Nat, fired : BOOLEAN,
             ask : Tables, replied : Tables, matched : Tables, other : Tables]
Streams  == [pc : {"waiting", "stopping", "loop", "wait", "rebuffer"}, players : Tables,
             cookie : Nat, owner : Nat, cmd : Maybe(Apps), new : Maybe(Tables),
             needRebuffer : BOOLEAN, rebufferPlayers : Tables, afterTrackEnd : BOOLEAN,
             beginNow : BOOLEAN, listen : BOOLEAN]
Histories == [pc : {"loop", "stopping", "match", "begin", "buffer"}, streaming : Tables,
              players : Tables, track : BOOLEAN, buffers : Seq(Nat), trackEnd : BOOLEAN,
              misses : Nat, next : Nat \ {0}, dropped : Tables, overtook : BOOLEAN]
Plays    == [audio : {"PAUSED", "AUTOSTART", "PLAYING"}, players : Tables \cup {Live},
             last : Maybe(EventNames), ended : BOOLEAN, timers : Nat]

GroupOK == /\ group \in Groups /\ lost \in Tables /\ failed \in Tables
           /\ stops \in [Players -> StopStates]

\* A report is never ahead of its device: what was sent since is taken off, and
\* a device only gets emptier by itself.
Room == \A p \in Players : view[p].free + dev[p].fill <= Capacity
DevicesOK == dev \in [Players -> Devices] /\ view \in [Players -> Views] /\ Room

\* A chunk is only asked for in a track and within the bound.
SessionsOK ==
    /\ app \in [Apps -> Sessions]
    /\ \A a \in Apps :
         /\ app[a].req \in {"track_begin", "buffer"} => app[a].next <= MaxChunks
         /\ app[a].req = "buffer" => app[a].at # "begin"

ThreadsOK == /\ ch \in Channels /\ poll \in Polls /\ str \in Streams /\ buf \in Histories
             /\ ply \in Plays

\* Outside of a rebuffer no one refers to its table.
TablesSettled ==
    buf.pc = "loop" =>
      /\ {ch.streaming, ch.bufStreaming, ch.plyStreaming} \subseteq Maybe(Tables)
      /\ ply.players \in Tables

\* The command that waits is still its app's request.
CommandWaits ==
    str.pc = "wait" => str.cmd \in Apps /\ app[str.cmd].req \in {"track_begin", "buffer"}

IndInv == /\ turn \in Threads \cup {9}
          /\ GroupOK /\ DevicesOK /\ SessionsOK /\ ThreadsOK /\ TablesSettled /\ CommandWaits
-----------------------------------------------------------------------------
(* A device's commands: only a chunk adds to its buffers. *)
LEMMA DeviceCommands ==
  ASSUME NEW d \in Devices, NEW c \in Nat, NEW n \in Nat
  PROVE  /\ GetStop(d, c) \in Devices /\ GetStop(d, c).fill = 0
         /\ GetStart(d) \in Devices /\ GetStart(d).fill = d.fill
         /\ GetBegin(d, c) \in Devices /\ GetBegin(d, c).fill = d.fill
         /\ GetChunk(d, c, n) \in Devices /\ GetChunk(d, c, n).fill = d.fill + 1
         /\ GetEnd(d) \in Devices /\ GetEnd(d).fill = d.fill
         /\ GetFlush(d, c) \in Devices /\ GetFlush(d, c).fill = 0
  <1> DEFINE b1 == d.bad \/ d.st = "stopped" \/ ~CanBegin(d)
             b2 == \/ d.bad
                   \/ d.st # "streaming" \/ d.token # c \/ d.fill = Capacity
                   \/ d.last # 0 /\ n # d.last + 1
             b3 == d.bad \/ d.st # "streaming"
  <1>1. b1 \in BOOLEAN /\ b2 \in BOOLEAN /\ b3 \in BOOLEAN
    BY Zenon
  <1>2. /\ GetBegin(d, c) = [d EXCEPT !.st = "streaming", !.token = c, !.last = 0, !.bad = b1]
        /\ GetChunk(d, c, n) = [d EXCEPT !.last = n, !.fill = @ + 1,
                                         !.first = IF d.last = 0 THEN n ELSE @, !.bad = b2]
        /\ GetEnd(d) = [d EXCEPT !.st = "ended", !.bad = b3]
    BY DEF GetBegin, GetChunk, GetEnd
  <1> HIDE DEF b1, b2, b3
  <1>3. GetStop(d, c) \in Devices /\ GetStop(d, c).fill = 0
    BY DEF GetStop, Devices
  <1>4. GetStart(d) \in Devices /\ GetStart(d).fill = d.fill
    BY DEF GetStart, Devices
  <1>5. GetBegin(d, c) \in Devices /\ GetBegin(d, c).fill = d.fill
    <2>1. ASSUME NEW b \in BOOLEAN
          PROVE  /\ [d EXCEPT !.st = "streaming", !.token = c, !.last = 0, !.bad = b] \in Devices
                 /\ [d EXCEPT !.st = "streaming", !.token = c, !.last = 0, !.bad = b].fill = d.fill
      BY DEF Devices
    <2> QED BY <1>1, <1>2, <2>1, Zenon
  <1>6. GetChunk(d, c, n) \in Devices /\ GetChunk(d, c, n).fill = d.fill + 1
    <2> DEFINE f == IF d.last = 0 THEN n ELSE d.first
               k == d.fill + 1
               After(b) == [d EXCEPT !.last = n, !.fill = k, !.first = f, !.bad = b]
    <2>1. f \in Nat /\ k \in Nat
      BY DEF Devices
    <2>2. GetChunk(d, c, n) = After(b2)
      BY <1>2
    <2> HIDE DEF f, k
    <2>3. ASSUME NEW b \in BOOLEAN PROVE After(b) \in Devices /\ After(b).fill = k
      BY <2>1 DEF Devices
    <2>4. GetChunk(d, c, n) \in Devices /\ GetChunk(d, c, n).fill = k
      BY <1>1, <2>2, <2>3, Zenon
    <2> QED BY <2>4 DEF k
  <1>7. GetEnd(d) \in Devices /\ GetEnd(d).fill = d.fill
    BY <1>1, <1>2 DEF Devices
  <1>8. GetFlush(d, c) \in Devices /\ GetFlush(d, c).fill = 0
    BY DEF GetFlush, Devices
  <1> QED BY <1>3, <1>4, <1>5, <1>6, <1>7, <1>8

(* A report has what its device has room for. *)
LEMMA SnapshotType ==
  ASSUME NEW d \in Devices, d.fill <= Capacity
  PROVE  Snapshot(d) \in Views /\ Snapshot(d).free = Capacity - d.fill
  <1> DEFINE b == CanBegin(d)
             o == d.fill > 0
  <1>1. b \in BOOLEAN /\ o \in BOOLEAN
    <2>1. b \in BOOLEAN
      BY Zenon DEF CanBegin
    <2>2. o \in BOOLEAN
      BY SMT
    <2> QED BY <2>1, <2>2
  <1>2. Snapshot(d) = [cookie |-> d.cookie, free |-> Capacity - d.fill, canBegin |-> b,
                       output |-> o]
    BY DEF Snapshot
  <1>3. Capacity - d.fill \in Nat /\ d.cookie \in Nat
    BY ConstantsAssumption DEF Devices
  <1> HIDE DEF b, o
  <1> QED BY <1>1, <1>2, <1>3 DEF Views

(* What a track_begin does to the reports. *)
LEMMA SpendBeginType ==
  ASSUME view \in [Players -> Views], NEW ps
  PROVE  /\ SpendBegin(ps) \in [Players -> Views]
         /\ \A p \in Players : SpendBegin(ps)[p].free = view[p].free
  BY DEF SpendBegin, Views

(* What a chunk does to the reports of players that all have room for it. *)
LEMMA SpendChunkType ==
  ASSUME view \in [Players -> Views], NEW ps, ps \subseteq Players, AllCanBuffer(ps)
  PROVE  /\ SpendChunk(ps) \in [Players -> Views]
         /\ \A p \in Players :
              SpendChunk(ps)[p].free = IF p \in ps THEN view[p].free - 1 ELSE view[p].free
  <1>1. ASSUME NEW p \in Players, p \in ps
        PROVE  /\ [view[p] EXCEPT !.free = @ - 1] \in Views
               /\ [view[p] EXCEPT !.free = @ - 1].free = view[p].free - 1
    <2>1. view[p] \in Views /\ view[p].free > 0
      BY <1>1 DEF AllCanBuffer
    <2>2. view[p].free - 1 \in Nat
      BY <2>1 DEF Views
    <2> DEFINE v == view[p]
               k == view[p].free - 1
    <2>3. [v EXCEPT !.free = k] \in Views /\ [v EXCEPT !.free = k].free = k
      <3> HIDE DEF k, v
      <3>1. k \in Nat /\ v \in Views
        BY <2>1, <2>2 DEF k, v
      <3> QED BY <3>1 DEF Views
    <2> QED BY <2>3
  <1> QED BY <1>1 DEF SpendChunk

(* What reaches devices and does not add to their buffers leaves them room. *)
LEMMA LessIsFine ==
  ASSUME DevicesOK, dev' \in [Players -> Devices], view' \in [Players -> Views],
         \A p \in Players : dev'[p].fill <= dev[p].fill /\ view'[p].free <= view[p].free
  PROVE  DevicesOK'
  <1>1. ASSUME NEW p \in Players PROVE view'[p].free + dev'[p].fill <= Capacity
    <2>1. /\ view[p].free \in Nat /\ view'[p].free \in Nat
          /\ dev[p].fill \in Nat /\ dev'[p].fill \in Nat
          /\ view[p].free + dev[p].fill <= Capacity /\ Capacity \in Nat
      BY ConstantsAssumption DEF DevicesOK, Room, Views, Devices
    <2>2. dev'[p].fill <= dev[p].fill /\ view'[p].free <= view[p].free
      OBVIOUS
    <2> QED BY <2>1, <2>2
  <1> QED BY <1>1 DEF DevicesOK, Room
-----------------------------------------------------------------------------
SameTables(c) ==
    /\ c.streaming = ch.streaming /\ c.bufStreaming = ch.bufStreaming
    /\ c.plyStreaming = ch.plyStreaming

(* What a step leaves alone stays right. *)
LEMMA Same ==
  ASSUME IndInv
  PROVE  /\ UNCHANGED <<group, lost, failed, stops>> => GroupOK'
         /\ UNCHANGED <<dev, view>> => DevicesOK'
         /\ UNCHANGED app => SessionsOK'
         /\ UNCHANGED <<str, app>> => CommandWaits'
         /\ UNCHANGED <<ch, buf, ply>> => TablesSettled'
         /\ SameTables(ch') /\ UNCHANGED <<buf, ply>> => TablesSettled'
  <1>1. UNCHANGED <<group, lost, failed, stops>> => GroupOK'
    BY DEF IndInv, GroupOK
  <1>2. UNCHANGED <<dev, view>> => DevicesOK'
    BY DEF IndInv, DevicesOK, Room
  <1>3. UNCHANGED app => SessionsOK'
    BY DEF IndInv, SessionsOK
  <1>4. UNCHANGED <<str, app>> => CommandWaits'
    BY DEF IndInv, CommandWaits
  <1>5. UNCHANGED <<ch, buf, ply>> => TablesSettled'
    BY DEF IndInv, TablesSettled
  <1>6. SameTables(ch') /\ UNCHANGED <<buf, ply>> => TablesSettled'
    BY DEF IndInv, TablesSettled, SameTables
  <1> QED BY <1>1, <1>2, <1>3, <1>4, <1>5, <1>6

(* A new table of players for the poll and the stream threads. *)
LEMMA PublishStep ==
  ASSUME IndInv, NEW ps \in Tables, Publish(ps), turn' = 9
  PROVE  IndInv'
  <1>1. /\ UNCHANGED <<lost, failed, dev, view, stops, app, poll, str, buf, ply>>
        /\ ch' = [ch EXCEPT !.pollPlayers = ps, !.streamPlayers = ps]
    BY DEF Publish
  <1>2. ch' \in Channels /\ SameTables(ch')
    BY <1>1 DEF IndInv, ThreadsOK, Channels, Maybe, SameTables
  <1>3. group' \in Groups
    <2> DEFINE n == IF ps = group.table \ failed THEN group.changes ELSE group.changes + 1
               u == group.added \cup ps
    <2>1. n \in Nat /\ u \in Tables
      BY DEF IndInv, GroupOK, Groups, Tables
    <2>2. group' = [group EXCEPT !.table = ps, !.added = u, !.changes = n]
      BY DEF Publish
    <2> HIDE DEF n, u
    <2> QED BY <2>1, <2>2 DEF IndInv, GroupOK, Groups
  <1>4. GroupOK'
    BY <1>1, <1>3 DEF IndInv, GroupOK
  <1>5. DevicesOK' /\ SessionsOK' /\ CommandWaits' /\ TablesSettled'
    BY <1>1, <1>2, Same
  <1> QED BY <1>1, <1>2, <1>4, <1>5 DEF IndInv, ThreadsOK

(* A device serves a call. *)
LEMMA ServeStep ==
  ASSUME IndInv, NEW p \in Players, Serve(p)
  PROVE  IndInv'
  <1> DEFINE method == Head(calls[p])
             Get(d) == CASE method = "stop"   -> GetStop(d, str.cookie)
                         [] method = "pause"  -> [d EXCEPT !.run = FALSE]
                         [] method = "resume" -> [d EXCEPT !.run = TRUE]
                         [] OTHER             -> d
  <1>1. /\ turn' = 9 /\ UNCHANGED <<group, lost, failed, app, ch, str, buf, ply>>
        /\ dev' = [dev EXCEPT ![p] = Get(@)]
        /\ stops' = IF method = "stop" THEN [stops EXCEPT ![p] = "ok"] ELSE stops
        /\ view' = IF method \in {"state", "late"}
                     THEN [view EXCEPT ![p] = Snapshot(dev[p])] ELSE view
        /\ poll' = IF method = "state"
                     THEN [poll EXCEPT !.ask = @ \ {p}, !.replied = @ \cup {p}] ELSE poll
    BY DEF Serve, Between
  <1>2. dev \in [Players -> Devices] /\ view \in [Players -> Views] /\ dev[p] \in Devices
        /\ str.cookie \in Nat
    BY DEF IndInv, DevicesOK, ThreadsOK, Streams
  <1>3. dev[p].fill <= Capacity
    <2>1. view[p].free \in Nat /\ dev[p].fill \in Nat /\ view[p].free + dev[p].fill <= Capacity
          /\ Capacity \in Nat
      BY <1>2, ConstantsAssumption DEF IndInv, DevicesOK, Room, Views, Devices
    <2> QED BY <2>1
  <1>4. Get(dev[p]) \in Devices /\ Get(dev[p]).fill <= dev[p].fill
    <2> DEFINE d == dev[p]
    <2>1. d \in Devices /\ d.fill \in Nat
      BY <1>2 DEF Devices
    <2> HIDE DEF d
    <2>2. CASE method = "stop"
      <3>1. Get(d) = GetStop(d, str.cookie)
        BY <2>2
      <3> QED BY <1>2, <2>1, <3>1, DeviceCommands DEF d
    <2>3. [d EXCEPT !.run = FALSE] \in Devices /\ [d EXCEPT !.run = FALSE].fill = d.fill
      BY <2>1 DEF Devices
    <2>4. [d EXCEPT !.run = TRUE] \in Devices /\ [d EXCEPT !.run = TRUE].fill = d.fill
      BY <2>1 DEF Devices
    <2>5. CASE method = "pause"
      <3>1. Get(d) = [d EXCEPT !.run = FALSE]
        BY <2>5
      <3>2. Get(d) \in Devices /\ Get(d).fill = d.fill
        BY <2>3, <3>1, Zenon
      <3> HIDE DEF Get
      <3> QED BY <2>1, <3>2 DEF d
    <2>6. CASE method = "resume"
      <3>1. Get(d) = [d EXCEPT !.run = TRUE]
        BY <2>6
      <3>2. Get(d) \in Devices /\ Get(d).fill = d.fill
        BY <2>4, <3>1, Zenon
      <3> HIDE DEF Get
      <3> QED BY <2>1, <3>2 DEF d
    <2>7. CASE method \notin {"stop", "pause", "resume"}
      <3>1. Get(d) = d
        BY <2>7
      <3> QED BY <2>1, <3>1 DEF d
    <2> QED BY <2>2, <2>5, <2>6, <2>7
  <1> HIDE DEF Get
  <1>5. DevicesOK'
    <2>1. dev' \in [Players -> Devices]
      BY <1>1, <1>2, <1>4
    <2>2. Snapshot(dev[p]) \in Views /\ Snapshot(dev[p]).free = Capacity - dev[p].fill
      BY <1>2, <1>3, SnapshotType
    <2>3. view' \in [Players -> Views]
      BY <1>1, <1>2, <2>2
    <2>4. ASSUME NEW q \in Players PROVE view'[q].free + dev'[q].fill <= Capacity
      <3>1. /\ view[q].free \in Nat /\ dev[q].fill \in Nat
            /\ view[q].free + dev[q].fill <= Capacity /\ Capacity \in Nat
            /\ dev'[q].fill \in Nat
        BY <2>1, ConstantsAssumption DEF IndInv, DevicesOK, Room, Views, Devices
      <3>2. dev'[q].fill <= dev[q].fill
        BY <1>1, <1>2, <1>4, <3>1
      <3>3. view'[q].free = view[q].free \/ view'[q].free = Capacity - dev[q].fill
        BY <1>1, <1>2, <2>2
      <3> QED BY <3>1, <3>2, <3>3
    <2> QED BY <2>1, <2>3, <2>4 DEF DevicesOK, Room
  <1>6. GroupOK'
    BY <1>1 DEF IndInv, GroupOK, StopStates
  <1>7. poll' \in Polls
    BY <1>1 DEF IndInv, ThreadsOK, Polls, Tables
  <1>8. SessionsOK' /\ CommandWaits' /\ TablesSettled'
    BY <1>1, Same
  <1> QED BY <1>1, <1>5, <1>6, <1>7, <1>8 DEF IndInv, ThreadsOK

(* An app's request: it has none under way, so that the one stream_thread    *)
(* waits with is not touched.                                                *)
LEMMA AskStep ==
  ASSUME IndInv, NEW a \in Apps, NEW method \in Methods, Ask(a, method)
  PROVE  IndInv'
  <1>1. /\ turn' = 9 /\ app[a].req = None /\ MayAsk(a, method)
        /\ app' = [app EXCEPT ![a].req = method]
        /\ ch' = IF method = "acquire" THEN [ch EXCEPT !.acquire = Append(@, a)]
                                       ELSE [ch EXCEPT !.command = Append(@, a)]
        /\ UNCHANGED <<group, lost, failed, dev, view, stops, poll, str, buf, ply>>
    BY DEF Ask, Between
  <1>2. app \in [Apps -> Sessions] /\ ch \in Channels
    BY DEF IndInv, SessionsOK, ThreadsOK
  <1>3. app'[a] = [app[a] EXCEPT !.req = method] /\ \A b \in Apps : b # a => app'[b] = app[b]
    BY <1>1, <1>2
  <1>4. /\ app'[a] \in Sessions /\ app'[a].req = method /\ app'[a].next = app[a].next
        /\ app'[a].at = app[a].at
    BY <1>2, <1>3 DEF Sessions, Maybe
  <1>5. SessionsOK'
    <2>1. app' \in [Apps -> Sessions]
      BY <1>1, <1>2, <1>4
    <2>2. method = "track_begin" => app[a].next <= MaxChunks
      BY <1>1 DEF MayAsk
    <2>3. method = "buffer" => app[a].at \in {"track", "sent"} /\ app[a].next <= MaxChunks
      BY <1>1 DEF MayAsk
    <2>4. ASSUME NEW b \in Apps
          PROVE  /\ app'[b].req \in {"track_begin", "buffer"} => app'[b].next <= MaxChunks
                 /\ app'[b].req = "buffer" => app'[b].at # "begin"
      BY <1>3, <1>4, <2>2, <2>3 DEF IndInv, SessionsOK
    <2> QED BY <2>1, <2>4 DEF SessionsOK
  <1>6. CommandWaits'
    <2>1. None \notin {"track_begin", "buffer"}
      BY ConstantsAssumption DEF Requests
    <2> QED BY <1>1, <1>3, <2>1 DEF IndInv, CommandWaits
  <1>7. ch' \in Channels /\ SameTables(ch')
    <2> DEFINE q == Append(ch.acquire, a)
               r == Append(ch.command, a)
    <2>1. ch.acquire \in Seq(Apps) /\ ch.command \in Seq(Apps)
      BY <1>2 DEF Channels
    <2>2. q \in Seq(Apps) /\ r \in Seq(Apps)
      BY <2>1, AppendProperties
    <2>3. ch' = [ch EXCEPT !.acquire = q] \/ ch' = [ch EXCEPT !.command = r]
      BY <1>1
    <2> HIDE DEF q, r
    <2> QED BY <1>2, <2>2, <2>3 DEF Channels, SameTables
  <1>8. GroupOK' /\ DevicesOK' /\ TablesSettled'
    BY <1>1, <1>7, Same
  <1> QED BY <1>1, <1>5, <1>6, <1>7, <1>8 DEF IndInv, ThreadsOK

(* What comes from outside. *)
LEMMA EnvironmentSteps ==
  ASSUME IndInv, Environment
  PROVE  IndInv'
  <1>0. group.table \in Tables /\ lost \in Tables /\ failed \in Tables
    BY DEF IndInv, GroupOK, Groups
  <1>1. ASSUME NEW p \in Players, AddPlayer(p) PROVE IndInv'
    <2>1. group.table \cup {p} \in Tables
      BY <1>0 DEF Tables
    <2> QED BY <1>1, <2>1, PublishStep DEF AddPlayer, Between
  <1>2. ASSUME NEW p \in Players, RemovePlayer(p) PROVE IndInv'
    <2>1. group.table \ {p} \in Tables
      BY <1>0 DEF Tables
    <2> QED BY <1>2, <2>1, PublishStep DEF RemovePlayer, Between
  <1>3. CASE DropFailed
    <2>1. group.table \ failed \in Tables
      BY <1>0 DEF Tables
    <2> QED BY <1>3, <2>1, PublishStep DEF DropFailed, Between
  <1>4. ASSUME NEW p \in Players, ConnectionLost(p) PROVE IndInv'
    <2>1. /\ turn' = 9 /\ lost' = lost \cup {p}
          /\ UNCHANGED <<group, failed, dev, view, stops, app, ch, poll, str, buf, ply>>
      BY <1>4 DEF ConnectionLost, Between
    <2>2. GroupOK'
      BY <2>1 DEF IndInv, GroupOK, Tables
    <2>3. DevicesOK' /\ SessionsOK' /\ CommandWaits' /\ TablesSettled'
      BY <2>1, Same
    <2> QED BY <2>1, <2>2, <2>3 DEF IndInv, ThreadsOK
  <1>5. ASSUME NEW p \in Players, Serve(p) PROVE IndInv'
    BY <1>5, ServeStep
  <1>6. ASSUME NEW p \in Players, CallFails(p) PROVE IndInv'
    <2>1. /\ turn' = 9 /\ failed' = failed \cup {p}
          /\ stops' = [stops EXCEPT ![p] = "error"] \/ stops' = stops
          /\ poll' = [poll EXCEPT !.ask = @ \ {p}] \/ poll' = poll
          /\ UNCHANGED <<group, lost, dev, view, app, ch, str, buf, ply>>
      BY <1>6 DEF CallFails, Between
    <2>2. GroupOK'
      BY <2>1 DEF IndInv, GroupOK, Tables, StopStates
    <2>3. poll' \in Polls
      BY <2>1 DEF IndInv, ThreadsOK, Polls, Tables
    <2>4. DevicesOK' /\ SessionsOK' /\ CommandWaits' /\ TablesSettled'
      BY <2>1, Same
    <2> QED BY <2>1, <2>2, <2>3, <2>4 DEF IndInv, ThreadsOK
  <1>7. ASSUME NEW p \in Players, DevicePlays(p) PROVE IndInv'
    <2>1. /\ turn' = 9 /\ dev' = [dev EXCEPT ![p].fill = @ - 1] /\ dev[p].fill > 0
          /\ UNCHANGED <<group, lost, failed, view, stops, app, ch, poll, str, buf, ply>>
      BY <1>7 DEF DevicePlays, Between
    <2> DEFINE d == dev[p]
               k == dev[p].fill - 1
    <2>2. dev \in [Players -> Devices] /\ view \in [Players -> Views] /\ d \in Devices
      BY DEF IndInv, DevicesOK
    <2>3. /\ k \in Nat /\ k <= dev[p].fill
          /\ \A q \in Players : dev[q].fill \in Nat /\ view[q].free \in Nat
      BY <2>1, <2>2 DEF Devices, Views
    <2>4. dev' = [dev EXCEPT ![p] = [d EXCEPT !.fill = k]]
      BY <2>1, <2>2
    <2> HIDE DEF d, k
    <2>5. [d EXCEPT !.fill = k] \in Devices /\ [d EXCEPT !.fill = k].fill = k
      BY <2>2, <2>3 DEF Devices
    <2>6. dev' \in [Players -> Devices] /\ \A q \in Players : dev'[q].fill <= dev[q].fill
      BY <2>2, <2>3, <2>4, <2>5
    <2>7. \A q \in Players : view'[q].free <= view[q].free
      BY <2>1, <2>3
    <2>8. DevicesOK'
      BY <2>1, <2>2, <2>6, <2>7, LessIsFine DEF IndInv
    <2>9. GroupOK' /\ SessionsOK' /\ CommandWaits' /\ TablesSettled'
      BY <2>1, Same
    <2> QED BY <2>1, <2>8, <2>9 DEF IndInv, ThreadsOK
  <1>8. CASE PollTimer
    <2>1. /\ turn' = 9 /\ poll' = [poll EXCEPT !.fired = TRUE]
          /\ UNCHANGED <<group, lost, failed, dev, view, stops, app, ch, str, buf, ply>>
      BY <1>8 DEF PollTimer, Between
    <2>2. poll' \in Polls
      BY <2>1 DEF IndInv, ThreadsOK, Polls
    <2>3. GroupOK' /\ DevicesOK' /\ SessionsOK' /\ CommandWaits' /\ TablesSettled'
      BY <2>1, Same
    <2> QED BY <2>1, <2>2, <2>3 DEF IndInv, ThreadsOK
  <1>9. CASE TrackEndTimer
    <2> DEFINE n == ply.timers - 1
               s == IF ply.last = "TRACK_END" THEN "PAUSED" ELSE ply.audio
    <2>1. /\ turn' = 9 /\ ply' = [ply EXCEPT !.timers = n, !.audio = s]
          /\ UNCHANGED <<group, lost, failed, dev, view, stops, app, ch, poll, str, buf>>
      BY <1>9 DEF TrackEndTimer, Between
    <2>2. n \in Nat /\ s \in {"PAUSED", "AUTOSTART", "PLAYING"}
      BY <1>9 DEF TrackEndTimer, IndInv, ThreadsOK, Plays
    <2> HIDE DEF n, s
    <2>3. ply' \in Plays /\ ply'.players = ply.players
      BY <2>1, <2>2 DEF IndInv, ThreadsOK, Plays
    <2>4. TablesSettled'
      BY <2>1, <2>3 DEF IndInv, TablesSettled
    <2>5. GroupOK' /\ DevicesOK' /\ SessionsOK' /\ CommandWaits'
      BY <2>1, Same
    <2> QED BY <2>1, <2>3, <2>4, <2>5 DEF IndInv, ThreadsOK
  <1>10. ASSUME NEW a \in Apps, NEW method \in Methods, Ask(a, method) PROVE IndInv'
    BY <1>10, AskStep
  <1>11. ASSUME NEW method \in {"pause", "resume"}, Control(method) PROVE IndInv'
    <2>1. /\ turn' = 9 /\ ch' = [ch EXCEPT !.play = method]
          /\ UNCHANGED <<group, lost, failed, dev, view, stops, app, poll, str, buf, ply>>
      BY <1>11 DEF Control, Between
    <2>2. ch' \in Channels /\ SameTables(ch')
      BY <2>1 DEF IndInv, ThreadsOK, Channels, Maybe, SameTables
    <2>3. GroupOK' /\ DevicesOK' /\ SessionsOK' /\ CommandWaits' /\ TablesSettled'
      BY <2>1, <2>2, Same
    <2> QED BY <2>1, <2>2, <2>3 DEF IndInv, ThreadsOK
  <1> QED BY <1>1, <1>2, <1>3, <1>4, <1>5, <1>6, <1>7, <1>8, <1>9, <1>10, <1>11 DEF Environment
-----------------------------------------------------------------------------
(* The mults pass messages on. *)
LEMMA MultSteps ==
  ASSUME IndInv, StatesMultStep \/ StreamingMultStep \/ EventMultStep
  PROVE  IndInv'
  <1>0. ch \in Channels
    BY DEF IndInv, ThreadsOK
  <1>1. /\ turn' \in Threads \cup {9}
        /\ UNCHANGED <<group, lost, failed, dev, view, stops, app, poll, str, buf, ply>>
    BY DEF StatesMultStep, StreamingMultStep, EventMultStep, Runs, Threads, StatesMult,
           StreamingMult, EventMult
  <1>2. ch' \in Channels /\ (SameTables(ch') \/ TablesSettled')
    <2>1. CASE StatesMultStep
      <3> DEFINE first == IF ch.statesHand # None THEN ch.statesHand ELSE ch.states
                 next == IF ch.statesHand # None THEN ch.states ELSE None
                 room == ch.bufStates = None
                 b == IF room THEN first ELSE ch.bufStates
                 q == IF room THEN first ELSE ch.plyStates
                 h == IF room THEN next ELSE first
                 seen == ch.strStates \/ ch.states # None
      <3>1. b \in Maybe(States) /\ q \in Maybe(States) /\ h \in Maybe(States)
        BY <1>0 DEF Channels, Maybe
      <3>2. seen \in BOOLEAN
        BY Zenon
      <3>3. ch' = [ch EXCEPT !.bufStates = b, !.plyStates = q, !.strStates = seen,
                             !.statesHand = h, !.states = None]
        BY <2>1, Zenon DEF StatesMultStep
      <3> HIDE DEF b, q, h, seen
      <3> DEFINE c == [ch EXCEPT !.bufStates = b, !.plyStates = q]
                 d(y) == [c EXCEPT !.strStates = y]
      <3>4. c \in Channels /\ SameTables(c)
        BY <1>0, <3>1 DEF Channels, SameTables
      <3> HIDE DEF c
      <3>5. ASSUME NEW y \in BOOLEAN PROVE d(y) \in Channels /\ SameTables(d(y))
        BY <3>4 DEF Channels, SameTables
      <3>6. d(seen) \in Channels /\ SameTables(d(seen))
        BY <3>2, <3>5, Zenon
      <3>7. ch' = [d(seen) EXCEPT !.statesHand = h, !.states = None]
        BY <3>3 DEF c
      <3> HIDE DEF d
      <3> QED BY <3>1, <3>6, <3>7 DEF Channels, Maybe, SameTables
    <2>2. CASE StreamingMultStep
      <3>1. /\ ch' = [ch EXCEPT !.bufStreaming = ch.streaming, !.plyStreaming = ch.streaming,
                                !.streaming = None]
        BY <2>2 DEF StreamingMultStep
      <3>2. ch' \in Channels /\ ch'.bufStreaming = ch.streaming
            /\ ch'.plyStreaming = ch.streaming /\ ch'.streaming = None
        BY <1>0, <3>1 DEF Channels, Maybe
      <3>3. TablesSettled'
        BY <1>1, <3>2 DEF IndInv, TablesSettled, Maybe
      <3> QED BY <3>2, <3>3
    <2>3. CASE EventMultStep
      <3> DEFINE e == Head(ch.events)
                 q == Tail(ch.events)
      <3>1. ch.events \in Seq(Events) /\ ch.events # << >>
        <4>1. Ready(3)
          BY <2>3 DEF EventMultStep, Runs, EventMult
        <4>2. ch.events # << >>
          BY <4>1 DEF Ready, EventMult, StatesMult, StreamingMult, PollThread, StreamThread,
                      BufferThread, PlayThread, StopThreads
        <4> QED BY <1>0, <4>2 DEF Channels
      <3>2. e \in Events /\ q \in Seq(Events)
        BY <3>1, HeadTailProperties
      <3>3. ch' = [ch EXCEPT !.bufEvent = e, !.plyEvent = e, !.events = q]
        BY <2>3 DEF EventMultStep
      <3> HIDE DEF e, q
      <3> QED BY <1>0, <3>2, <3>3 DEF Channels, Maybe, SameTables
    <2> QED BY <2>1, <2>2, <2>3
  <1>3. GroupOK' /\ DevicesOK' /\ SessionsOK' /\ CommandWaits'
    BY <1>1, Same
  <1>4. TablesSettled'
    BY <1>1, <1>2, Same
  <1> QED BY <1>1, <1>2, <1>3, <1>4 DEF IndInv, ThreadsOK

(* player_states_thread. *)
LEMMA PollSteps ==
  ASSUME IndInv, PollStep
  PROVE  IndInv'
  <1>0. ch \in Channels /\ poll \in Polls /\ failed \in Tables
    BY DEF IndInv, ThreadsOK, GroupOK
  <1>1. /\ turn' \in Threads \cup {9}
        /\ UNCHANGED <<group, lost, failed, dev, view, stops, app, str, buf, ply>>
    BY DEF PollStep, PollTakes, PollAsks, PollCounts, PollAt, Runs, Threads, PollThread
  <1>2. ch' \in Channels /\ SameTables(ch') /\ poll' \in Polls
    <2>1. CASE PollTakes /\ ch.pollPlayers # None
      <3>1. /\ poll' = [poll EXCEPT !.players = ch.pollPlayers, !.fired = FALSE]
            /\ ch' = [ch EXCEPT !.pollPlayers = None]
        BY <2>1 DEF PollTakes
      <3>2. ch.pollPlayers \in Tables
        BY <1>0, <2>1 DEF Channels, Maybe
      <3> QED BY <1>0, <3>1, <3>2 DEF Channels, Polls, Maybe, SameTables
    <2>2. CASE PollTakes /\ ch.pollPlayers = None
      <3>1. /\ poll' = [poll EXCEPT !.cookie = ch.cookie, !.fired = FALSE]
            /\ ch' = [ch EXCEPT !.cookie = None] /\ ch.cookie # None
        BY <2>2 DEF PollTakes
      <3>2. ch.cookie \in Nat
        BY <1>0, <3>1 DEF Channels, Maybe
      <3> QED BY <1>0, <3>1, <3>2 DEF Channels, Polls, Maybe, SameTables
    <2>3. CASE PollAsks
      <3> DEFINE ps == poll.players \ failed
      <3>1. /\ poll' = [poll EXCEPT !.pc = "cycle", !.fired = FALSE, !.ask = ps,
                                    !.replied = {}, !.matched = {}, !.other = {}]
            /\ ch' = ch
        BY <2>3 DEF PollAsks
      <3>2. ps \in Tables /\ {} \in Tables
        BY <1>0 DEF Polls, Tables
      <3> HIDE DEF ps
      <3> QED BY <1>0, <3>1, <3>2 DEF Polls, SameTables
    <2>4. CASE PollCounts
      <3> DEFINE fits     == {p \in poll.replied : view[p].cookie = poll.cookie}
                 matched  == poll.matched \cup fits
                 other    == poll.other \cup (poll.replied \ fits)
                 complete == poll.ask = {}
                 abort    == ~complete /\ ch.pollPlayers # None
                 pc == IF complete \/ abort THEN "wait" ELSE poll.pc
                 ps == IF abort THEN ch.pollPlayers ELSE poll.players
                 ask == IF abort THEN {} ELSE poll.ask
                 m == IF complete \/ abort THEN {} ELSE matched
                 o == IF complete \/ abort THEN {} ELSE other
                 st == IF complete THEN [matched |-> matched, other |-> other] ELSE ch.states
                 pp == IF abort THEN None ELSE ch.pollPlayers
      <3>1. /\ poll' = [poll EXCEPT !.pc = pc, !.players = ps, !.ask = ask, !.replied = {},
                                    !.matched = m, !.other = o]
            /\ ch' = [ch EXCEPT !.states = st, !.pollPlayers = pp]
        BY <2>4 DEF PollCounts
      <3>2. matched \in Tables /\ other \in Tables /\ {} \in Tables
        BY <1>0 DEF Polls, Tables
      <3>3. pc \in {"wait", "cycle"} /\ ps \in Tables /\ ask \in Tables
        BY <1>0, <3>2 DEF Polls, Channels, Maybe
      <3>4. m \in Tables /\ o \in Tables
        BY <3>2
      <3>5. st \in Maybe(States) /\ pp \in Maybe(Tables)
        BY <1>0, <3>2 DEF Channels, Maybe, States
      <3> HIDE DEF pc, ps, ask, m, o, st, pp
      <3>6. poll' \in Polls
        BY <1>0, <3>1, <3>2, <3>3, <3>4 DEF Polls
      <3>7. ch' \in Channels /\ SameTables(ch')
        BY <1>0, <3>1, <3>5 DEF Channels, SameTables
      <3> QED BY <3>6, <3>7
    <2> QED BY <2>1, <2>2, <2>3, <2>4 DEF PollStep
  <1>3. GroupOK' /\ DevicesOK' /\ SessionsOK' /\ CommandWaits' /\ TablesSettled'
    BY <1>1, <1>2, Same
  <1> QED BY <1>1, <1>2, <1>3 DEF IndInv, ThreadsOK

(* The threads of player_stop. *)
LEMMA StopCallsStep ==
  ASSUME IndInv, StopCalls
  PROVE  IndInv'
  <1>1. /\ turn' \in Threads \cup {9}
        /\ UNCHANGED <<group, lost, failed, dev, view, app, ch, poll, str, buf, ply>>
        /\ \E wanted : stops' = [p \in Players |->
             CASE p \in wanted \cap failed -> "error"
               [] p \in wanted \ failed   -> "called"
               [] OTHER                   -> stops[p]]
    BY DEF StopCalls, Runs, Threads, StopThreads
  <1>2. GroupOK'
    BY <1>1 DEF IndInv, GroupOK, StopStates
  <1>3. DevicesOK' /\ SessionsOK' /\ CommandWaits' /\ TablesSettled'
    BY <1>1, Same
  <1> QED BY <1>1, <1>2, <1>3 DEF IndInv, ThreadsOK
-----------------------------------------------------------------------------
(* A chunk goes to players that all have room for it. *)
LEMMA ChunkSent ==
  ASSUME DevicesOK, NEW ps \in Tables, AllCanBuffer(ps), NEW k \in Nat, NEW n \in Nat,
         dev' = [p \in Players |-> IF p \in Wrote(ps) THEN GetChunk(dev[p], k, n) ELSE dev[p]],
         view' = SpendChunk(ps)
  PROVE  DevicesOK'
  <1>1. dev \in [Players -> Devices] /\ view \in [Players -> Views] /\ ps \subseteq Players
    BY DEF DevicesOK, Tables
  <1>2. \A p \in Players : /\ GetChunk(dev[p], k, n) \in Devices
                          /\ GetChunk(dev[p], k, n).fill = dev[p].fill + 1
    BY <1>1, DeviceCommands
  <1>3. /\ view' \in [Players -> Views]
        /\ \A p \in Players : view'[p].free = IF p \in ps THEN view[p].free - 1 ELSE view[p].free
    BY <1>1, SpendChunkType
  <1>4. dev' \in [Players -> Devices]
    BY <1>1, <1>2
  <1>5. ASSUME NEW p \in Players PROVE view'[p].free + dev'[p].fill <= Capacity
    <2>1. /\ view[p].free \in Nat /\ dev[p].fill \in Nat /\ Capacity \in Nat
          /\ view[p].free + dev[p].fill <= Capacity
      BY <1>1, ConstantsAssumption DEF DevicesOK, Room, Views, Devices
    <2>2. CASE p \in Wrote(ps)
      <3>1. p \in ps
        BY <2>2 DEF Wrote
      <3>2. dev'[p].fill = dev[p].fill + 1
        BY <1>2, <2>2
      <3>3. view'[p].free = view[p].free - 1
        BY <1>3, <3>1
      <3> QED BY <2>1, <3>2, <3>3
    <2>3. CASE p \notin Wrote(ps)
      <3>1. dev'[p].fill = dev[p].fill
        BY <2>3
      <3>2. view'[p].free = view[p].free - 1 \/ view'[p].free = view[p].free
        BY <1>3
      <3> QED BY <2>1, <3>1, <3>2
    <2> QED BY <2>2, <2>3
  <1> QED BY <1>3, <1>4, <1>5 DEF DevicesOK, Room

(* A track_begin needs no room. *)
LEMMA BeginSent ==
  ASSUME DevicesOK, NEW ps \in Tables, NEW k \in Nat,
         dev' = [p \in Players |-> IF p \in Wrote(ps) THEN GetBegin(dev[p], k) ELSE dev[p]],
         view' = SpendBegin(ps)
  PROVE  DevicesOK'
  <1>1. dev \in [Players -> Devices] /\ view \in [Players -> Views]
    BY DEF DevicesOK
  <1>2. \A p \in Players : /\ GetBegin(dev[p], k) \in Devices
                          /\ GetBegin(dev[p], k).fill = dev[p].fill
    BY <1>1, DeviceCommands
  <1>3. view' \in [Players -> Views] /\ \A p \in Players : view'[p].free = view[p].free
    BY <1>1, SpendBeginType
  <1>4. dev' \in [Players -> Devices] /\ \A p \in Players : dev'[p].fill = dev[p].fill
    BY <1>1, <1>2
  <1>5. \A p \in Players : view[p].free \in Nat /\ dev[p].fill \in Nat
    BY <1>1 DEF Views, Devices
  <1>6. \A p \in Players : dev'[p].fill <= dev[p].fill /\ view'[p].free <= view[p].free
    BY <1>3, <1>4, <1>5
  <1> QED BY <1>3, <1>4, <1>6, LessIsFine

(* Neither do the other commands on the stream socket. *)
LEMMA OtherSent ==
  ASSUME DevicesOK, NEW ps, NEW k \in Nat, view' = view,
         \/ dev' = [p \in Players |-> IF p \in Wrote(ps) THEN GetStart(dev[p]) ELSE dev[p]]
         \/ dev' = [p \in Players |-> IF p \in Wrote(ps) THEN GetEnd(dev[p]) ELSE dev[p]]
         \/ dev' = [p \in Players |-> IF p \in Wrote(ps) THEN GetFlush(dev[p], k) ELSE dev[p]]
  PROVE  DevicesOK'
  <1>1. dev \in [Players -> Devices] /\ view \in [Players -> Views]
    BY DEF DevicesOK
  <1>2. \A p \in Players : view[p].free \in Nat /\ dev[p].fill \in Nat
    BY <1>1 DEF Views, Devices
  <1>3. \A p \in Players : /\ GetStart(dev[p]) \in Devices /\ GetStart(dev[p]).fill = dev[p].fill
                          /\ GetEnd(dev[p]) \in Devices /\ GetEnd(dev[p]).fill = dev[p].fill
                          /\ GetFlush(dev[p], k) \in Devices /\ GetFlush(dev[p], k).fill = 0
    BY <1>1, DeviceCommands
  <1>4. dev' \in [Players -> Devices] /\ \A p \in Players : dev'[p].fill \in {0, dev[p].fill}
    <2>1. CASE dev' = [p \in Players |-> IF p \in Wrote(ps) THEN GetStart(dev[p]) ELSE dev[p]]
      BY <1>1, <1>3, <2>1
    <2>2. CASE dev' = [p \in Players |-> IF p \in Wrote(ps) THEN GetEnd(dev[p]) ELSE dev[p]]
      BY <1>1, <1>3, <2>2
    <2>3. CASE dev' = [p \in Players |-> IF p \in Wrote(ps) THEN GetFlush(dev[p], k) ELSE dev[p]]
      BY <1>1, <1>3, <2>3
    <2> QED BY <2>1, <2>2, <2>3
  <1>5. \A p \in Players : dev'[p].fill <= dev[p].fill /\ view'[p].free <= view[p].free
    BY <1>2, <1>4
  <1> QED BY <1>1, <1>4, <1>5, LessIsFine
-----------------------------------------------------------------------------
\* What stream_thread may make of the channels: it sends tables of its own.
Calm(c) ==
    /\ c \in Channels
    /\ c.bufStreaming = ch.bufStreaming /\ c.plyStreaming = ch.plyStreaming
    /\ c.streaming = ch.streaming \/ c.streaming \in Tables

(* An event for the others. *)
LEMMA Emitted ==
  ASSUME NEW c, Calm(c), NEW e \in EventNames, NEW n \in 0 .. MaxChunks
  PROVE  Calm(Emit(c, e, n))
  <1> DEFINE q == Append(c.events, Event(e, n))
  <1>1. Event(e, n) \in Events
    BY DEF Event, Events, EventNames
  <1>2. q \in Seq(Events)
    BY <1>1, AppendProperties DEF Calm, Channels
  <1>3. Emit(c, e, n) = [c EXCEPT !.events = q]
    BY DEF Emit
  <1> HIDE DEF q
  <1> QED BY <1>2, <1>3 DEF Calm, Channels

(* Most events have no chunk. *)
LEMMA Told ==
  ASSUME NEW c, Calm(c), NEW e \in EventNames
  PROVE  Calm(Emit(c, e, 0))
  <1>1. 0 \in 0 .. MaxChunks
    BY ConstantsAssumption
  <1> QED BY <1>1, Emitted

(* A reply leaves the app with no request. *)
LEMMA RepliedType ==
  ASSUME NEW s \in Sessions, NEW result \in {"ok", "block", "error"}, str.owner \in Nat
  PROVE  Replied(s, result) \in Sessions /\ Replied(s, result).req = None
  <1>1. /\ [s EXCEPT !.req = None, !.at = "out"] \in Sessions
        /\ [s EXCEPT !.req = None, !.at = "out"].req = None
    BY DEF Sessions, Maybe
  <1>2. [s EXCEPT !.req = None] \in Sessions /\ [s EXCEPT !.req = None].req = None
    BY DEF Sessions, Maybe
  <1>3. /\ [token |-> str.owner + 1, next |-> 1, at |-> "begin", req |-> None] \in Sessions
        /\ [token |-> str.owner + 1, next |-> 1, at |-> "begin", req |-> None].req = None
    BY DEF Sessions, Maybe
  <1>4. /\ [s EXCEPT !.req = None, !.at = "track"] \in Sessions
        /\ [s EXCEPT !.req = None, !.at = "track"].req = None
    BY DEF Sessions, Maybe
  <1>5. /\ [s EXCEPT !.req = None, !.at = "sent", !.next = @ + 1] \in Sessions
        /\ [s EXCEPT !.req = None, !.at = "sent", !.next = @ + 1].req = None
    <2> DEFINE k == s.next + 1
    <2>1. k \in Nat
      BY DEF Sessions
    <2> HIDE DEF k
    <2>2. /\ [s EXCEPT !.req = None, !.at = "sent", !.next = k] \in Sessions
          /\ [s EXCEPT !.req = None, !.at = "sent", !.next = k].req = None
      BY <2>1 DEF Sessions, Maybe
    <2> QED BY <2>2 DEF k
  <1>6. /\ [s EXCEPT !.req = None, !.at = "begin"] \in Sessions
        /\ [s EXCEPT !.req = None, !.at = "begin"].req = None
    BY DEF Sessions, Maybe
  <1>7. CASE result = "error"
    BY <1>1, <1>7 DEF Replied
  <1>8. CASE result = "block"
    BY <1>2, <1>8 DEF Replied
  <1>9. CASE result = "ok"
    <2>1. CASE s.req = "acquire"
      BY <1>3, <1>9, <2>1 DEF Replied
    <2>2. CASE s.req = "track_begin"
      BY <1>4, <1>9, <2>2 DEF Replied
    <2>3. CASE s.req = "buffer"
      BY <1>5, <1>9, <2>3 DEF Replied
    <2>4. CASE s.req = "track_end"
      BY <1>6, <1>9, <2>4 DEF Replied
    <2>5. CASE s.req \notin {"acquire", "track_begin", "buffer", "track_end"}
      BY <1>2, <1>9, <2>5 DEF Replied
    <2> QED BY <2>1, <2>2, <2>3, <2>4, <2>5
  <1> QED BY <1>7, <1>8, <1>9

(* The sessions after a reply. *)
LEMMA ReplyStep ==
  ASSUME IndInv, NEW a, NEW result \in {"ok", "block", "error"}, app' = Reply(a, result)
  PROVE  SessionsOK'
  <1>1. app \in [Apps -> Sessions] /\ str.owner \in Nat
    BY DEF IndInv, SessionsOK, ThreadsOK, Streams
  <1>2. \A b \in Apps : app'[b] = IF b = a THEN Replied(app[b], result) ELSE app[b]
    BY <1>1 DEF Reply
  <1>3. \A b \in Apps : Replied(app[b], result) \in Sessions /\ Replied(app[b], result).req = None
    BY <1>1, RepliedType
  <1>4. app' \in [Apps -> Sessions]
    BY <1>1, <1>3 DEF Reply
  <1>5. None \notin {"track_begin", "buffer"}
    BY ConstantsAssumption DEF Requests
  <1>6. ASSUME NEW b \in Apps
        PROVE  /\ app'[b].req \in {"track_begin", "buffer"} => app'[b].next <= MaxChunks
               /\ app'[b].req = "buffer" => app'[b].at # "begin"
    <2>1. CASE b = a
      <3>1. app'[b].req = None
        BY <1>2, <1>3, <2>1
      <3> QED BY <1>5, <3>1
    <2>2. CASE b # a
      BY <1>2, <2>2 DEF IndInv, SessionsOK
    <2> QED BY <2>1, <2>2
  <1> QED BY <1>4, <1>6 DEF SessionsOK

(* A table for the others. *)
LEMMA Tabled ==
  ASSUME NEW c, Calm(c), NEW ps \in Tables
  PROVE  Calm([c EXCEPT !.streaming = ps])
  <1> DEFINE d == [c EXCEPT !.streaming = ps]
  <1>1. ps \in Maybe(Tables \cup {Live}) /\ c \in Channels
    BY DEF Maybe, Calm
  <1>2. d \in Channels
    BY <1>1 DEF Channels
  <1>3. /\ d.streaming = ps /\ d.bufStreaming = c.bufStreaming
        /\ d.plyStreaming = c.plyStreaming
    BY <1>1 DEF Channels
  <1> QED BY <1>2, <1>3 DEF Calm

(* A new table is used or waits for a rebuffer. *)
LEMMA Adopted ==
  ASSUME NEW s \in Streams, NEW new \in Tables, NEW c, Calm(c)
  PROVE  /\ Adopt(s, new) \in Streams /\ Adopt(s, new).pc = s.pc
         /\ Calm(Announce(c, s, new))
  <1>1. Adopt(s, new) \in Streams /\ Adopt(s, new).pc = s.pc
    <2>1. /\ [s EXCEPT !.needRebuffer = TRUE, !.rebufferPlayers = new] \in Streams
          /\ [s EXCEPT !.needRebuffer = TRUE, !.rebufferPlayers = new].pc = s.pc
      BY DEF Streams
    <2>2. /\ [s EXCEPT !.needRebuffer = FALSE, !.players = new] \in Streams
          /\ [s EXCEPT !.needRebuffer = FALSE, !.players = new].pc = s.pc
      BY DEF Streams
    <2> QED BY <2>1, <2>2, Zenon DEF Adopt
  <1>2. Calm([c EXCEPT !.streaming = new])
    BY Tabled
  <1> QED BY <1>1, <1>2, Zenon DEF Announce

(* The rebuffer's players are told to the others before it is asked for. *)
LEMMA StartedRebuffer ==
  ASSUME NEW s \in Streams, NEW c, Calm(c), StartRebuffer(s, c)
  PROVE  str' \in Streams /\ str'.pc = "rebuffer" /\ Calm(ch')
  <1> DEFINE k == s.cookie + 1
             ps == s.rebufferPlayers
             d == [c EXCEPT !.streaming = ps, !.rebufferRequest = TRUE]
  <1>1. k \in Nat /\ ps \in Tables
    BY DEF Streams
  <1>2. /\ str' = [s EXCEPT !.pc = "rebuffer", !.cookie = k, !.players = ps, !.listen = TRUE]
        /\ ch' = Emit(d, "REBUFFER", 0)
    BY DEF StartRebuffer
  <1> HIDE DEF k, ps
  <1>3. str' \in Streams /\ str'.pc = "rebuffer"
    BY <1>1, <1>2 DEF Streams
  <1>4. Calm(d)
    <2> DEFINE e == [c EXCEPT !.streaming = ps]
    <2>1. Calm(e) /\ d = [e EXCEPT !.rebufferRequest = TRUE]
      BY <1>1, Tabled
    <2> HIDE DEF d, e
    <2> QED BY <2>1 DEF Calm, Channels
  <1> HIDE DEF d
  <1>5. Calm(Emit(d, "REBUFFER", 0))
    BY <1>4, Told DEF EventNames
  <1> QED BY <1>2, <1>3, <1>5

(* Without players the stream thread waits for an acquire. *)
LEMMA WaitedForAcquire ==
  ASSUME NEW s \in Streams, NEW c, Calm(c), WaitForAcquire(s, c)
  PROVE  str' \in Streams /\ str'.pc = "waiting" /\ Calm(ch') /\ stops' = stops
  <1>1. /\ str' = [s EXCEPT !.pc = "waiting", !.players = {}, !.cmd = None, !.new = None]
        /\ ch' = Emit(c, "WAITING", 0) /\ stops' = stops
    BY DEF WaitForAcquire
  <1>2. str' \in Streams /\ str'.pc = "waiting"
    BY <1>1 DEF Streams, Maybe, Tables
  <1>3. Calm(Emit(c, "WAITING", 0))
    BY Told DEF EventNames
  <1> QED BY <1>1, <1>2, <1>3

(* An acquire stops the players and tells the others. *)
LEMMA BeganAcquire ==
  ASSUME NEW a \in Apps, NEW s \in Streams, NEW c, Calm(c), BeginAcquire(a, s, c)
  PROVE  /\ str' \in Streams /\ str'.pc = "stopping" /\ Calm(ch')
         /\ stops' \in [Players -> StopStates]
  <1> DEFINE k == s.cookie + 1
             ps == s.players
             d == [c EXCEPT !.streaming = ps, !.cookie = k]
  <1>1. k \in Nat /\ ps \in Tables
    BY DEF Streams
  <1>2. /\ str' = [s EXCEPT !.pc = "stopping", !.cmd = a, !.new = None, !.cookie = k]
        /\ ch' = Emit(d, "ACQUIRE_STARTED", 0) /\ stops' = WantStops(ps)
    BY DEF BeginAcquire
  <1> HIDE DEF k, ps
  <1>3. str' \in Streams /\ str'.pc = "stopping"
    BY <1>1, <1>2 DEF Streams, Maybe
  <1>4. Calm(d)
    <2> DEFINE e == [c EXCEPT !.streaming = ps]
    <2>1. Calm(e) /\ d = [e EXCEPT !.cookie = k]
      BY <1>1, Tabled
    <2> HIDE DEF d, e
    <2> QED BY <1>1, <2>1 DEF Calm, Channels, Maybe
  <1> HIDE DEF d
  <1>5. Calm(Emit(d, "ACQUIRE_STARTED", 0))
    BY <1>4, Told DEF EventNames
  <1>6. stops' \in [Players -> StopStates]
    BY <1>2 DEF WantStops, StopStates
  <1> QED BY <1>2, <1>3, <1>5, <1>6
-----------------------------------------------------------------------------
\* A command that stream_thread has taken from its app.
Taken(s) == /\ s \in Streams /\ s.cmd \in Apps
            /\ app[s.cmd].req \in {"track_begin", "buffer"}

(* track_begin and buffer: a chunk only goes out when all players have room. *)
LEMMA Performed ==
  ASSUME IndInv, NEW s, Taken(s), Fits(s, s.cmd), NEW c, Calm(c), Perform(s, c)
  PROVE  /\ str' \in Streams /\ str'.pc = "loop" /\ Calm(ch') /\ failed' \in Tables
         /\ DevicesOK' /\ SessionsOK'
  <1> DEFINE a     == s.cmd
             begin == app[a].req = "track_begin"
             n     == app[a].next
             b     == s.beginNow /\ ~begin
             done  == [s EXCEPT !.pc = "loop", !.cmd = None, !.new = None, !.beginNow = b]
             c2    == IF begin THEN c ELSE Emit(c, "BUFFER", n)
  <1>1. /\ a \in Apps /\ s \in Streams /\ s.players \in Tables /\ s.owner \in Nat
        /\ s.new \in Maybe(Tables)
        /\ app[a] \in Sessions /\ app[a].req \in {"track_begin", "buffer"}
    BY DEF Taken, Streams, IndInv, SessionsOK
  <1>2. n \in Nat /\ n <= MaxChunks /\ MaxChunks \in Nat
    BY <1>1, ConstantsAssumption DEF IndInv, SessionsOK, Sessions
  <1>3. /\ failed' = failed \cup (s.players \cap lost)
        /\ view' = IF begin THEN SpendBegin(s.players) ELSE SpendChunk(s.players)
        /\ app' = Reply(a, "ok")
        /\ str' = IF s.new = None THEN done ELSE Adopt(done, s.new)
        /\ ch' = IF s.new = None THEN c2 ELSE Announce(c2, s, s.new)
    BY DEF Perform, WriteTo
  <1>4. dev' = [p \in Players |-> IF p \in Wrote(s.players)
                  THEN IF begin THEN GetBegin(dev[p], s.owner) ELSE GetChunk(dev[p], s.owner, n)
                  ELSE dev[p]]
    BY DEF Perform, WriteTo
  <1>5. failed' \in Tables
    BY <1>1, <1>3 DEF IndInv, GroupOK, Tables
  <1>6. SessionsOK'
    BY <1>3, ReplyStep
  <1>7. done \in Streams /\ done.pc = "loop"
    <2>1. b \in BOOLEAN
      BY <1>1, Zenon
    <2>2. ASSUME NEW x \in BOOLEAN
          PROVE  /\ [s EXCEPT !.pc = "loop", !.cmd = None, !.new = None, !.beginNow = x] \in Streams
                 /\ [s EXCEPT !.pc = "loop", !.cmd = None, !.new = None, !.beginNow = x].pc = "loop"
      BY <1>1 DEF Streams, Maybe
    <2> HIDE DEF b
    <2> QED BY <2>1, <2>2, Zenon
  <1>8. Calm(c2)
    <2>1. "BUFFER" \in EventNames /\ n \in 0 .. MaxChunks
      BY <1>2 DEF EventNames
    <2>2. Calm(Emit(c, "BUFFER", n))
      BY <2>1, Emitted
    <2> QED BY <2>2, Zenon
  <1>9. DevicesOK'
    <2>1. DevicesOK
      BY DEF IndInv
    <2>2. CASE begin
      BY <1>1, <1>3, <1>4, <2>1, <2>2, BeginSent
    <2>3. CASE ~begin
      <3>1. app[a].at # "begin"
        BY <1>1, <2>3 DEF IndInv, SessionsOK
      <3>2. AllCanBuffer(s.players)
        BY <3>1 DEF Fits
      <3> QED BY <1>1, <1>2, <1>3, <1>4, <2>1, <2>3, <3>2, ChunkSent
    <2> QED BY <2>2, <2>3
  <1> HIDE DEF done, c2
  <1>10. str' \in Streams /\ str'.pc = "loop"
    <2>1. CASE s.new = None
      BY <1>3, <1>7, <2>1
    <2>2. CASE s.new # None
      <3>1. s.new \in Tables
        BY <1>1, <2>2 DEF Maybe
      <3> QED BY <1>3, <1>7, <1>8, <2>2, <3>1, Adopted
    <2> QED BY <2>1, <2>2
  <1>11. Calm(ch')
    <2>1. CASE s.new = None
      BY <1>3, <1>8, <2>1
    <2>2. CASE s.new # None
      <3>1. s.new \in Tables
        BY <1>1, <2>2 DEF Maybe
      <3> QED BY <1>1, <1>3, <1>8, <2>2, <3>1, Adopted
    <2> QED BY <2>1, <2>2
  <1> QED BY <1>5, <1>6, <1>9, <1>10, <1>11

(* A command is done at once or waits with its app's request. *)
LEMMA PerformedOrWaits ==
  ASSUME IndInv, NEW s, Taken(s), NEW c, Calm(c), PerformOrWait(s, c)
  PROVE  /\ str' \in Streams /\ Calm(ch') /\ failed' \in Tables
         /\ DevicesOK' /\ SessionsOK' /\ CommandWaits'
  <1>1. CASE Fits(s, s.cmd)
    <2>1. Perform(s, c)
      BY <1>1 DEF PerformOrWait
    <2>2. /\ str' \in Streams /\ str'.pc = "loop" /\ Calm(ch') /\ failed' \in Tables
          /\ DevicesOK' /\ SessionsOK'
      BY <1>1, <2>1, Performed
    <2> QED BY <2>2 DEF CommandWaits
  <1>2. CASE ~Fits(s, s.cmd)
    <2>1. str' = [s EXCEPT !.pc = "wait"] /\ ch' = c /\ UNCHANGED <<dev, failed, view, app>>
      BY <1>2 DEF PerformOrWait
    <2>2. str' \in Streams /\ str'.cmd = s.cmd
      BY <2>1 DEF Taken, Streams
    <2>3. DevicesOK' /\ SessionsOK' /\ failed' \in Tables
      BY <2>1, Same DEF IndInv, GroupOK
    <2>4. CommandWaits'
      BY <2>1, <2>2 DEF CommandWaits, Taken
    <2> QED BY <2>1, <2>2, <2>3, <2>4
  <1> QED BY <1>1, <1>2

(* What is left to show of a step of stream_thread. *)
LEMMA StreamFinish ==
  ASSUME IndInv, turn' = 5, UNCHANGED <<group, lost, poll, buf, ply>>, str' \in Streams,
         Calm(ch'), failed' \in Tables, stops' \in [Players -> StopStates],
         DevicesOK', SessionsOK', CommandWaits'
  PROVE  IndInv'
  <1>1. GroupOK'
    BY DEF IndInv, GroupOK
  <1>2. ThreadsOK'
    BY DEF IndInv, ThreadsOK, Calm
  <1>3. TablesSettled'
    BY DEF IndInv, TablesSettled, Calm, Maybe
  <1>4. turn' \in Threads \cup {9}
    BY DEF Threads
  <1> QED BY <1>1, <1>2, <1>3, <1>4 DEF IndInv

(* What stream_thread takes from its channels. *)
LEMMA TakesFromChannels ==
  ASSUME IndInv
  PROVE  /\ Calm(ch)
         /\ Calm([ch EXCEPT !.streamPlayers = None])
         /\ Calm([ch EXCEPT !.strStates = FALSE])
         /\ Calm([ch EXCEPT !.rebufferDone = FALSE])
         /\ ch.acquire # << >> => /\ Head(ch.acquire) \in Apps
                                 /\ Calm([ch EXCEPT !.acquire = Tail(@)])
         /\ ch.command # << >> => /\ Asker \in Apps /\ Calm(AfterTake)
                                 /\ Calm([ch EXCEPT !.command = Append(Tail(@), Asker)])
         /\ ch.streamPlayers # None => ch.streamPlayers \in Tables
  <1>1. ch \in Channels
    BY DEF IndInv, ThreadsOK
  <1>2. Calm(ch)
    BY <1>1 DEF Calm
  <1>3. /\ Calm([ch EXCEPT !.streamPlayers = None]) /\ Calm([ch EXCEPT !.strStates = FALSE])
        /\ Calm([ch EXCEPT !.rebufferDone = FALSE])
    <2>0. None \in Maybe(Tables)
      BY DEF Maybe
    <2>1. Calm([ch EXCEPT !.streamPlayers = None])
      BY <1>1, <2>0 DEF Calm, Channels
    <2>2. Calm([ch EXCEPT !.strStates = FALSE])
      BY <1>1 DEF Calm, Channels
    <2>3. Calm([ch EXCEPT !.rebufferDone = FALSE])
      BY <1>1 DEF Calm, Channels
    <2> QED BY <2>1, <2>2, <2>3
  <1>4. ASSUME ch.acquire # << >>
        PROVE  Head(ch.acquire) \in Apps /\ Calm([ch EXCEPT !.acquire = Tail(@)])
    <2> DEFINE q == Tail(ch.acquire)
    <2>1. ch.acquire \in Seq(Apps)
      BY <1>1 DEF Channels
    <2>2. Head(ch.acquire) \in Apps /\ q \in Seq(Apps)
      BY <1>4, <2>1, HeadTailProperties
    <2> HIDE DEF q
    <2>3. Calm([ch EXCEPT !.acquire = q])
      BY <1>1, <2>2 DEF Calm, Channels
    <2> QED BY <2>2, <2>3 DEF q
  <1>5. ASSUME ch.command # << >>
        PROVE  /\ Asker \in Apps /\ Calm(AfterTake)
               /\ Calm([ch EXCEPT !.command = Append(Tail(@), Asker)])
    <2> DEFINE q == Tail(ch.command)
               r == Append(q, Asker)
    <2>1. ch.command \in Seq(Apps)
      BY <1>1 DEF Channels
    <2>2. Asker \in Apps /\ q \in Seq(Apps)
      BY <1>5, <2>1, HeadTailProperties DEF Asker
    <2>3. r \in Seq(Apps)
      BY <2>2, AppendProperties
    <2> HIDE DEF q, r
    <2>4. Calm([ch EXCEPT !.command = q])
      BY <1>1, <2>2 DEF Calm, Channels
    <2>5. Calm([ch EXCEPT !.command = r])
      BY <1>1, <2>3 DEF Calm, Channels
    <2> QED BY <2>2, <2>4, <2>5 DEF q, r, AfterTake
  <1>6. ch.streamPlayers # None => ch.streamPlayers \in Tables
    BY <1>1 DEF Channels, Maybe
  <1> QED BY <1>2, <1>3, <1>4, <1>5, <1>6

(* When stream_thread runs. *)
LEMMA StreamRuns ==
  ASSUME Runs(StreamThread)
  PROVE  /\ str.pc \in {"waiting", "loop"} =>
              ch.streamPlayers # None \/ ch.acquire # << >> \/ ch.command # << >>
         /\ str.pc = "rebuffer" => ch.rebufferDone \/ ch.command # << >>
  <1>1. Ready(5)
    BY DEF Runs, StreamThread
  <1>2. \/ str.pc \in {"waiting", "loop"}
             /\ (ch.streamPlayers # None \/ ch.acquire # <<>> \/ ch.command # <<>>)
        \/ str.pc = "stopping" /\ \E p \in Players : Stopped(p)
        \/ str.pc = "wait"
             /\ (ch.streamPlayers # None \/ ch.acquire # <<>> \/ ch.strStates)
        \/ str.pc = "rebuffer"
             /\ (ch.rebufferDone \/ (str.listen /\ ch.command # <<>>))
    BY <1>1 DEF Ready, EventMult, StatesMult, StreamingMult, PollThread, StreamThread,
                BufferThread, PlayThread, StopThreads
  <1> QED BY <1>2

(* Every step of stream_thread is in its place. *)
LEMMA StreamPlace ==
  ASSUME StreamStep
  PROVE  turn' = 5 /\ Runs(StreamThread) /\ UNCHANGED <<group, lost, poll, buf, ply>>
  <1>1. CASE WaitingPlayers \/ WaitingAcquire \/ WaitingCommand \/ AcquireStops
    BY <1>1 DEF WaitingPlayers, WaitingAcquire, WaitingCommand, AcquireStops, StreamAt, Runs,
                StreamThread
  <1>2. CASE LoopPlayers \/ LoopAcquire \/ InvalidToken
    BY <1>2 DEF LoopPlayers, LoopAcquire, InvalidToken, StreamAt, Runs, StreamThread
  <1>3. CASE HandleCan \/ HandleTrackBegin \/ HandleBuffer \/ HandleFlush \/ HandleTrackEnd
    BY <1>3 DEF HandleCan, HandleTrackBegin, HandleBuffer, HandleFlush, HandleTrackEnd, Handles,
                StreamAt, Runs, StreamThread
  <1>4. CASE WaitPlayers \/ WaitAcquire \/ WaitStates \/ RebufferCommand \/ RebufferDone
    BY <1>4 DEF WaitPlayers, WaitAcquire, WaitStates, RebufferCommand, RebufferDone, StreamAt,
                Runs, StreamThread
  <1> QED BY <1>1, <1>2, <1>3, <1>4 DEF StreamStep

(* The stream loop before an acquire, and the acquire. *)
LEMMA WaitingSteps ==
  ASSUME IndInv, StreamStep,
         WaitingPlayers \/ WaitingAcquire \/ WaitingCommand \/ AcquireStops
  PROVE  IndInv'
  <1>0. /\ turn' = 5 /\ Runs(StreamThread) /\ UNCHANGED <<group, lost, poll, buf, ply>>
        /\ str \in Streams /\ stops \in [Players -> StopStates] /\ failed \in Tables
        /\ lost \in Tables
    BY StreamPlace DEF IndInv, ThreadsOK, GroupOK
  <1>1. CASE WaitingPlayers
    <2>1. /\ ch.streamPlayers # None /\ str.pc = "waiting"
          /\ str' = [str EXCEPT !.players = ch.streamPlayers]
          /\ ch' = [ch EXCEPT !.streamPlayers = None]
          /\ UNCHANGED <<failed, dev, view, stops, app>>
      BY <1>1 DEF WaitingPlayers, StreamAt
    <2>2. ch.streamPlayers \in Tables /\ Calm(ch')
      BY <2>1, TakesFromChannels
    <2>3. str' \in Streams /\ str'.pc = "waiting"
      BY <1>0, <2>1, <2>2 DEF Streams
    <2>4. CommandWaits'
      BY <2>3 DEF CommandWaits
    <2>5. DevicesOK' /\ SessionsOK' /\ failed' \in Tables /\ stops' \in [Players -> StopStates]
      BY <1>0, <2>1, Same
    <2> QED BY <1>0, <2>2, <2>3, <2>4, <2>5, StreamFinish
  <1>2. CASE WaitingAcquire
    <2> DEFINE a == Head(ch.acquire)
               c == [ch EXCEPT !.acquire = Tail(@)]
    <2>1. /\ ch.acquire # << >> /\ str.pc = "waiting" /\ UNCHANGED <<failed, dev, view>>
          /\ \/ app' = Reply(a, "error") /\ ch' = c /\ UNCHANGED <<str, stops>>
             \/ BeginAcquire(a, str, c) /\ UNCHANGED app
      BY <1>2 DEF WaitingAcquire, StreamAt
    <2>2. a \in Apps /\ Calm(c)
      BY <2>1, TakesFromChannels
    <2> HIDE DEF a, c
    <2>3. DevicesOK' /\ failed' \in Tables
      BY <1>0, <2>1, Same
    <2>4. CASE app' = Reply(a, "error") /\ ch' = c /\ UNCHANGED <<str, stops>>
      <3>1. SessionsOK'
        BY <2>4, ReplyStep
      <3>2. CommandWaits' /\ str' \in Streams /\ stops' \in [Players -> StopStates] /\ Calm(ch')
        BY <1>0, <2>1, <2>2, <2>4 DEF CommandWaits
      <3> QED BY <1>0, <2>3, <3>1, <3>2, StreamFinish
    <2>5. CASE BeginAcquire(a, str, c) /\ UNCHANGED app
      <3>1. /\ str' \in Streams /\ str'.pc = "stopping" /\ Calm(ch')
            /\ stops' \in [Players -> StopStates]
        BY <1>0, <2>2, <2>5, BeganAcquire
      <3>2. CommandWaits' /\ SessionsOK'
        BY <2>5, <3>1, Same DEF CommandWaits
      <3> QED BY <1>0, <2>3, <3>1, <3>2, StreamFinish
    <2> QED BY <2>1, <2>4, <2>5
  <1>3. CASE WaitingCommand
    <2>1. /\ ch.streamPlayers = None /\ ch.acquire = << >> /\ str.pc = "waiting"
          /\ UNCHANGED <<failed, dev, view, str, stops>>
          /\ app' = Reply(Head(ch.command), "error") /\ ch' = AfterTake
      BY <1>3 DEF WaitingCommand, StreamAt, AfterTake
    <2>2. Calm(ch')
      BY <1>0, <2>1, StreamRuns, TakesFromChannels
    <2>3. SessionsOK'
      BY <2>1, ReplyStep
    <2>4. /\ DevicesOK' /\ failed' \in Tables /\ stops' \in [Players -> StopStates]
          /\ str' \in Streams
      BY <1>0, <2>1, Same
    <2>5. CommandWaits'
      BY <2>1 DEF CommandWaits
    <2> QED BY <1>0, <2>2, <2>3, <2>4, <2>5, StreamFinish
  <1>4. CASE AcquireStops
    <2> DEFINE k == str.owner + 1
               ok == Answered("ok")
    <2>1. /\ str.pc = "stopping" /\ view' = view
          /\ dev' = [p \in Players |-> IF p \in Wrote(ok) THEN GetStart(dev[p]) ELSE dev[p]]
          /\ failed' = failed \cup (ok \cap lost)
          /\ stops' = [p \in Players |-> IF Stopped(p) THEN "none" ELSE stops[p]]
          /\ \/ /\ str' = [str EXCEPT !.pc = "loop", !.cmd = None, !.owner = k,
                                    !.beginNow = TRUE, !.needRebuffer = FALSE,
                                    !.rebufferPlayers = {}, !.afterTrackEnd = FALSE]
                /\ ch' = Emit(ch, "ACQUIRE_DONE", 0)
                /\ app' = Reply(str.cmd, "ok")
             \/ UNCHANGED <<str, ch, app>>
      BY <1>4 DEF AcquireStops, CountStops, WriteTo, StreamAt
    <2>2. k \in Nat
      BY <1>0 DEF Streams
    <2> HIDE DEF k, ok
    <2>3. failed' \in Tables /\ stops' \in [Players -> StopStates]
      BY <1>0, <2>1 DEF Tables, StopStates
    <2>4. DevicesOK'
      BY <2>1, <2>2, OtherSent DEF IndInv
    <2>5. CASE UNCHANGED <<str, ch, app>>
      <3>1. str' \in Streams /\ Calm(ch') /\ SessionsOK' /\ CommandWaits'
        BY <1>0, <2>5, Same, TakesFromChannels
      <3> QED BY <1>0, <2>3, <2>4, <3>1, StreamFinish
    <2>6. CASE ~UNCHANGED <<str, ch, app>>
      <3>1. str' \in Streams /\ str'.pc = "loop"
        BY <1>0, <2>1, <2>2, <2>6 DEF Streams, Maybe, Tables
      <3>2. Calm(Emit(ch, "ACQUIRE_DONE", 0))
        BY TakesFromChannels, Told DEF EventNames
      <3>3. Calm(ch') /\ CommandWaits'
        BY <2>1, <2>6, <3>1, <3>2 DEF CommandWaits
      <3>4. SessionsOK'
        BY <2>1, <2>6, ReplyStep
      <3> QED BY <1>0, <2>3, <2>4, <3>1, <3>3, <3>4, StreamFinish
    <2> QED BY <2>5, <2>6
  <1> QED BY <1>1, <1>2, <1>3, <1>4

(* The stream loop: new tables, acquires and wrong tokens. *)
LEMMA LoopSteps ==
  ASSUME IndInv, StreamStep, LoopPlayers \/ LoopAcquire \/ InvalidToken
  PROVE  IndInv'
  <1>0. /\ turn' = 5 /\ UNCHANGED <<group, lost, poll, buf, ply>>
        /\ str \in Streams /\ stops \in [Players -> StopStates] /\ failed \in Tables
    BY StreamPlace DEF IndInv, ThreadsOK, GroupOK
  <1>1. CASE LoopPlayers
    <2> DEFINE new == ch.streamPlayers
               c   == [ch EXCEPT !.streamPlayers = None]
    <2>1. /\ new # None /\ str.pc = "loop" /\ UNCHANGED <<failed, dev, view, app>>
          /\ \/ WaitForAcquire(str, c)
             \/ StartRebuffer(Adopt(str, new), c) /\ UNCHANGED stops
             \/ str' = Adopt(str, new) /\ ch' = Announce(c, str, new) /\ UNCHANGED stops
      BY <1>1 DEF LoopPlayers, StreamAt
    <2>2. new \in Tables /\ Calm(c)
      BY <2>1, TakesFromChannels
    <2> HIDE DEF new, c
    <2>3. /\ Adopt(str, new) \in Streams /\ Adopt(str, new).pc = "loop"
          /\ Calm(Announce(c, str, new))
      BY <1>0, <2>1, <2>2, Adopted
    <2>4. /\ str' \in Streams /\ str'.pc \in {"waiting", "rebuffer", "loop"} /\ Calm(ch')
          /\ stops' = stops
      <3>1. CASE WaitForAcquire(str, c)
        BY <1>0, <2>2, <3>1, WaitedForAcquire
      <3>2. CASE StartRebuffer(Adopt(str, new), c) /\ UNCHANGED stops
        BY <2>2, <2>3, <3>2, StartedRebuffer
      <3>3. CASE str' = Adopt(str, new) /\ ch' = Announce(c, str, new) /\ UNCHANGED stops
        BY <2>3, <3>3
      <3> QED BY <2>1, <3>1, <3>2, <3>3
    <2>5. /\ CommandWaits' /\ SessionsOK' /\ DevicesOK' /\ failed' \in Tables
          /\ stops' \in [Players -> StopStates]
      BY <1>0, <2>1, <2>4, Same DEF CommandWaits
    <2> QED BY <1>0, <2>4, <2>5, StreamFinish
  <1>2. CASE LoopAcquire
    <2> DEFINE ps == IF str.needRebuffer THEN str.rebufferPlayers ELSE str.players
               s == [str EXCEPT !.players = ps]
               c == [ch EXCEPT !.acquire = Tail(@)]
    <2>1. /\ ch.acquire # << >> /\ BeginAcquire(Head(ch.acquire), s, c)
          /\ UNCHANGED <<failed, dev, view, app>>
      BY <1>2 DEF LoopAcquire
    <2>2. Head(ch.acquire) \in Apps /\ Calm(c)
      BY <2>1, TakesFromChannels
    <2>3. ps \in Tables
      BY <1>0 DEF Streams
    <2> HIDE DEF ps, c
    <2>4. s \in Streams
      BY <1>0, <2>3 DEF Streams
    <2> HIDE DEF s
    <2>5. /\ str' \in Streams /\ str'.pc = "stopping" /\ Calm(ch')
          /\ stops' \in [Players -> StopStates]
      BY <2>1, <2>2, <2>4, BeganAcquire
    <2>6. CommandWaits' /\ SessionsOK' /\ DevicesOK' /\ failed' \in Tables
      BY <1>0, <2>1, <2>5, Same DEF CommandWaits
    <2> QED BY <1>0, <2>5, <2>6, StreamFinish
  <1>3. CASE InvalidToken
    <2>1. /\ ch.command # << >> /\ app' = Reply(Asker, "error") /\ ch' = AfterTake
          /\ str' = [str EXCEPT !.afterTrackEnd = FALSE] /\ str.pc = "loop"
          /\ UNCHANGED <<failed, dev, view, stops>>
      BY <1>3 DEF InvalidToken, TakesCommand, NotTrackEnd
    <2>2. Calm(ch')
      BY <2>1, TakesFromChannels
    <2>3. str' \in Streams /\ str'.pc = "loop"
      BY <1>0, <2>1 DEF Streams
    <2>4. SessionsOK'
      BY <2>1, ReplyStep
    <2>5. CommandWaits' /\ DevicesOK' /\ failed' \in Tables /\ stops' \in [Players -> StopStates]
      BY <1>0, <2>1, <2>3, Same DEF CommandWaits
    <2> QED BY <1>0, <2>2, <2>3, <2>4, <2>5, StreamFinish
  <1> QED BY <1>1, <1>2, <1>3

(* The stream commands. *)
LEMMA CommandSteps ==
  ASSUME IndInv, StreamStep,
         HandleCan \/ HandleTrackBegin \/ HandleBuffer \/ HandleFlush \/ HandleTrackEnd
  PROVE  IndInv'
  <1>0. /\ turn' = 5 /\ UNCHANGED <<group, lost, poll, buf, ply>>
        /\ str \in Streams /\ stops \in [Players -> StopStates] /\ failed \in Tables
        /\ lost \in Tables
    BY StreamPlace DEF IndInv, ThreadsOK, GroupOK
  <1>1. ch.command # << >> /\ str.pc = "loop"
    BY DEF HandleCan, HandleTrackBegin, HandleBuffer, HandleFlush, HandleTrackEnd, Handles,
           TakesCommand
  <1>2. Asker \in Apps /\ Calm(AfterTake)
    BY <1>1, TakesFromChannels
  <1>3. NotTrackEnd \in Streams /\ NotTrackEnd.pc = "loop"
    BY <1>0, <1>1 DEF NotTrackEnd, Streams
  <1>4. CASE HandleCan
    <2>1. /\ UNCHANGED <<failed, dev, view, stops>>
          /\ app' = Reply(Asker, "ok") \/ app' = Reply(Asker, "block")
          /\ \/ StartRebuffer(NotTrackEnd, AfterTake)
             \/ str' = NotTrackEnd /\ ch' = AfterTake
      BY <1>4 DEF HandleCan
    <2>2. str' \in Streams /\ str'.pc \in {"loop", "rebuffer"} /\ Calm(ch')
      BY <1>2, <1>3, <2>1, StartedRebuffer
    <2>3. SessionsOK'
      BY <2>1, ReplyStep
    <2>4. CommandWaits' /\ DevicesOK' /\ failed' \in Tables /\ stops' \in [Players -> StopStates]
      BY <1>0, <2>1, <2>2, Same DEF CommandWaits
    <2> QED BY <1>0, <2>2, <2>3, <2>4, StreamFinish
  <1>5. CASE HandleTrackBegin \/ HandleBuffer
    <2> DEFINE s == [NotTrackEnd EXCEPT !.cmd = Asker]
    <2>1. PICK c \in {Emit(AfterTake, "TRACK_BEGIN", 0), AfterTake} : PerformOrWait(s, c)
      BY <1>5 DEF HandleTrackBegin, HandleBuffer
    <2>2. app[Asker].req \in {"track_begin", "buffer"} /\ stops' = stops
      BY <1>5 DEF HandleTrackBegin, HandleBuffer, Handles
    <2>3. s \in Streams /\ s.cmd = Asker
      BY <1>2, <1>3 DEF Streams, Maybe
    <2> HIDE DEF s
    <2>4. Taken(s)
      BY <1>2, <2>2, <2>3 DEF Taken
    <2>5. Calm(c)
      BY <1>2, Told DEF EventNames
    <2>6. /\ str' \in Streams /\ Calm(ch') /\ failed' \in Tables
          /\ DevicesOK' /\ SessionsOK' /\ CommandWaits'
      BY <2>1, <2>4, <2>5, PerformedOrWaits
    <2> QED BY <1>0, <2>2, <2>6, StreamFinish
  <1>6. CASE HandleFlush
    <2> DEFINE k == str.cookie + 1
               c == [AfterTake EXCEPT !.cookie = k]
    <2>1. /\ UNCHANGED <<view, stops>> /\ app' = Reply(Asker, "ok")
          /\ str' = [NotTrackEnd EXCEPT !.cookie = @ + 1]
          /\ ch' = Emit(c, "FLUSH", 0)
          /\ dev' = [p \in Players |-> IF p \in Wrote(str.players) THEN GetFlush(dev[p], k)
                                                                 ELSE dev[p]]
          /\ failed' = failed \cup (str.players \cap lost)
      BY <1>6 DEF HandleFlush, WriteTo
    <2>2. k \in Nat /\ NotTrackEnd.cookie = str.cookie
      BY <1>0 DEF Streams, NotTrackEnd
    <2>3. str' = [NotTrackEnd EXCEPT !.cookie = k]
      BY <2>1, <2>2
    <2> HIDE DEF k
    <2>4. str' \in Streams /\ str'.pc = "loop"
      BY <1>3, <2>2, <2>3 DEF Streams
    <2>5. Calm(c)
      <3>1. k \in Maybe(Nat)
        BY <2>2 DEF Maybe
      <3> QED BY <1>2, <3>1 DEF Calm, Channels
    <2> HIDE DEF c
    <2>6. Calm(ch')
      BY <2>1, <2>5, Told DEF EventNames
    <2>7. DevicesOK'
      BY <2>1, <2>2, OtherSent DEF IndInv
    <2>8. SessionsOK'
      BY <2>1, ReplyStep
    <2>9. CommandWaits' /\ failed' \in Tables /\ stops' \in [Players -> StopStates]
      BY <1>0, <2>1, <2>4 DEF CommandWaits, Tables
    <2> QED BY <1>0, <2>4, <2>6, <2>7, <2>8, <2>9, StreamFinish
  <1>7. CASE HandleTrackEnd
    <2> DEFINE s == [str EXCEPT !.afterTrackEnd = TRUE]
               c == Emit(AfterTake, "TRACK_END", 0)
    <2>1. /\ UNCHANGED <<view, stops>> /\ app' = Reply(Asker, "ok")
          /\ StartRebuffer(s, c) \/ (str' = s /\ ch' = c)
          /\ dev' = [p \in Players |-> IF p \in Wrote(str.players) THEN GetEnd(dev[p]) ELSE dev[p]]
          /\ failed' = failed \cup (str.players \cap lost)
      BY <1>7 DEF HandleTrackEnd, WriteTo
    <2>2. s \in Streams /\ s.pc = "loop"
      BY <1>0, <1>1 DEF Streams
    <2>3. Calm(c)
      BY <1>2, Told DEF EventNames
    <2> HIDE DEF s, c
    <2>4. str' \in Streams /\ str'.pc \in {"loop", "rebuffer"} /\ Calm(ch')
      BY <2>1, <2>2, <2>3, StartedRebuffer
    <2>5. DevicesOK'
      BY <2>1, OtherSent DEF IndInv
    <2>6. SessionsOK'
      BY <2>1, ReplyStep
    <2>7. CommandWaits' /\ failed' \in Tables /\ stops' \in [Players -> StopStates]
      BY <1>0, <2>1, <2>4 DEF CommandWaits, Tables
    <2> QED BY <1>0, <2>4, <2>5, <2>6, <2>7, StreamFinish
  <1> QED BY <1>4, <1>5, <1>6, <1>7

(* The wait of a track_begin or a buffer, and the wait for a rebuffer. *)
LEMMA WaitSteps ==
  ASSUME IndInv, StreamStep,
         WaitPlayers \/ WaitAcquire \/ WaitStates \/ RebufferCommand \/ RebufferDone
  PROVE  IndInv'
  <1>0. /\ turn' = 5 /\ Runs(StreamThread) /\ UNCHANGED <<group, lost, poll, buf, ply>>
        /\ str \in Streams /\ stops \in [Players -> StopStates] /\ failed \in Tables
        /\ str.pc = "wait" => Taken(str)
    BY StreamPlace DEF IndInv, ThreadsOK, GroupOK, CommandWaits, Taken
  <1>1. CASE WaitPlayers
    <2> DEFINE c == [ch EXCEPT !.streamPlayers = None]
               s == [str EXCEPT !.new = ch.streamPlayers]
    <2>1. /\ ch.streamPlayers # None /\ str.pc = "wait"
          /\ \/ /\ app' = Reply(str.cmd, "ok") /\ WaitForAcquire(str, c)
                /\ UNCHANGED <<dev, failed, view>>
             \/ PerformOrWait(s, c) /\ UNCHANGED stops
      BY <1>1 DEF WaitPlayers, StreamAt
    <2>2. ch.streamPlayers \in Tables /\ Calm(c)
      BY <2>1, TakesFromChannels
    <2>3. s \in Streams /\ s.cmd = str.cmd
      BY <1>0, <2>2 DEF Streams, Maybe
    <2> HIDE DEF s, c
    <2>4. Taken(s)
      BY <1>0, <2>1, <2>3 DEF Taken
    <2>5. CASE app' = Reply(str.cmd, "ok") /\ WaitForAcquire(str, c)
               /\ UNCHANGED <<dev, failed, view>>
      <3>1. str' \in Streams /\ str'.pc = "waiting" /\ Calm(ch') /\ stops' = stops
        BY <1>0, <2>2, <2>5, WaitedForAcquire
      <3>2. SessionsOK'
        BY <2>5, ReplyStep
      <3>3. CommandWaits' /\ DevicesOK' /\ failed' \in Tables /\ stops' \in [Players -> StopStates]
        BY <1>0, <2>5, <3>1, Same DEF CommandWaits
      <3> QED BY <1>0, <3>1, <3>2, <3>3, StreamFinish
    <2>6. CASE PerformOrWait(s, c) /\ UNCHANGED stops
      <3>1. /\ str' \in Streams /\ Calm(ch') /\ failed' \in Tables
            /\ DevicesOK' /\ SessionsOK' /\ CommandWaits'
        BY <2>2, <2>4, <2>6, PerformedOrWaits
      <3> QED BY <1>0, <2>6, <3>1, StreamFinish
    <2> QED BY <2>1, <2>5, <2>6
  <1>2. CASE WaitAcquire
    <2> DEFINE r == IF str.new = None THEN str ELSE Adopt(str, str.new)
               ps == IF r.needRebuffer THEN r.rebufferPlayers ELSE r.players
               s == [r EXCEPT !.players = ps]
               c == [ch EXCEPT !.acquire = Tail(@)]
    <2>1. /\ ch.acquire # << >> /\ app' = Reply(str.cmd, "ok")
          /\ BeginAcquire(Head(ch.acquire), s, c) /\ UNCHANGED <<failed, dev, view>>
      BY <1>2 DEF WaitAcquire
    <2>2. Head(ch.acquire) \in Apps /\ Calm(c)
      BY <2>1, TakesFromChannels
    <2>3. r \in Streams
      <3>1. str.new \in Maybe(Tables)
        BY <1>0 DEF Streams
      <3>2. CASE str.new = None
        BY <1>0, <3>2
      <3>3. CASE str.new # None
        <4>1. str.new \in Tables
          BY <3>1, <3>3 DEF Maybe
        <4> HIDE DEF c
        <4> QED BY <1>0, <2>2, <3>3, <4>1, Adopted
      <3> QED BY <3>2, <3>3
    <2> HIDE DEF r
    <2>4. ps \in Tables
      BY <2>3 DEF Streams
    <2> HIDE DEF ps, c
    <2>5. s \in Streams
      BY <2>3, <2>4 DEF Streams
    <2> HIDE DEF s
    <2>6. /\ str' \in Streams /\ str'.pc = "stopping" /\ Calm(ch')
          /\ stops' \in [Players -> StopStates]
      BY <2>1, <2>2, <2>5, BeganAcquire
    <2>7. SessionsOK'
      BY <2>1, ReplyStep
    <2>8. CommandWaits' /\ DevicesOK' /\ failed' \in Tables
      BY <1>0, <2>1, <2>6, Same DEF CommandWaits
    <2> QED BY <1>0, <2>6, <2>7, <2>8, StreamFinish
  <1>3. CASE WaitStates
    <2> DEFINE c == [ch EXCEPT !.strStates = FALSE]
    <2>1. str.pc = "wait" /\ PerformOrWait(str, c) /\ UNCHANGED stops
      BY <1>3 DEF WaitStates, StreamAt
    <2>2. Calm(c) /\ Taken(str)
      BY <1>0, <2>1, TakesFromChannels
    <2> HIDE DEF c
    <2>3. /\ str' \in Streams /\ Calm(ch') /\ failed' \in Tables
          /\ DevicesOK' /\ SessionsOK' /\ CommandWaits'
      BY <2>1, <2>2, PerformedOrWaits
    <2> QED BY <1>0, <2>1, <2>3, StreamFinish
  <1>4. CASE RebufferCommand
    <2> DEFINE c == [ch EXCEPT !.command = Append(Tail(@), Asker)]
    <2>1. /\ ~ch.rebufferDone /\ str.pc = "rebuffer" /\ UNCHANGED <<failed, dev, view, stops>>
          /\ \/ app' = Reply(Asker, "block") /\ ch' = AfterTake /\ UNCHANGED str
             \/ ch' = c /\ str' = [str EXCEPT !.listen = FALSE] /\ UNCHANGED app
      BY <1>4 DEF RebufferCommand, StreamAt
    <2>2. Calm(AfterTake) /\ Calm(c)
      BY <1>0, <2>1, StreamRuns, TakesFromChannels
    <2> HIDE DEF c
    <2>3. str' \in Streams /\ str'.pc = "rebuffer"
      BY <1>0, <2>1 DEF Streams
    <2>4. SessionsOK'
      BY <2>1, ReplyStep, Same
    <2>5. /\ Calm(ch') /\ CommandWaits' /\ DevicesOK' /\ failed' \in Tables
          /\ stops' \in [Players -> StopStates]
      BY <1>0, <2>1, <2>2, <2>3, Same DEF CommandWaits
    <2> QED BY <1>0, <2>3, <2>4, <2>5, StreamFinish
  <1>5. CASE RebufferDone
    <2> DEFINE c == [ch EXCEPT !.rebufferDone = FALSE]
    <2>1. /\ str' = [str EXCEPT !.pc = "loop", !.needRebuffer = FALSE, !.rebufferPlayers = {},
                                !.listen = FALSE]
          /\ ch' = Emit(c, "TRACK_END", 0) \/ ch' = c
          /\ UNCHANGED <<failed, dev, view, stops, app>>
      BY <1>5 DEF RebufferDone
    <2>2. Calm(c)
      BY TakesFromChannels
    <2> HIDE DEF c
    <2>3. str' \in Streams /\ str'.pc = "loop"
      BY <1>0, <2>1 DEF Streams, Tables
    <2>4. Calm(ch')
      BY <2>1, <2>2, Told DEF EventNames
    <2>5. /\ CommandWaits' /\ SessionsOK' /\ DevicesOK' /\ failed' \in Tables
          /\ stops' \in [Players -> StopStates]
      BY <1>0, <2>1, <2>3, Same DEF CommandWaits
    <2> QED BY <1>0, <2>3, <2>4, <2>5, StreamFinish
  <1> QED BY <1>1, <1>2, <1>3, <1>4, <1>5

(* stream_thread. *)
LEMMA StreamSteps ==
  ASSUME IndInv, StreamStep
  PROVE  IndInv'
  BY WaitingSteps, LoopSteps, CommandSteps, WaitSteps DEF StreamStep
-----------------------------------------------------------------------------
(* What is left to show of a step of buffer_thread. *)
LEMMA BufferFinish ==
  ASSUME IndInv, turn' = 6, UNCHANGED <<group, lost, app, poll, str>>, buf' \in Histories,
         ch' \in Channels, ply' \in Plays, failed' \in Tables,
         stops' \in [Players -> StopStates], DevicesOK', TablesSettled'
  PROVE  IndInv'
  <1>1. GroupOK'
    BY DEF IndInv, GroupOK
  <1>2. ThreadsOK'
    BY DEF IndInv, ThreadsOK
  <1>3. SessionsOK' /\ CommandWaits'
    BY Same
  <1>4. turn' \in Threads \cup {9}
    BY DEF Threads
  <1> QED BY <1>1, <1>2, <1>3, <1>4 DEF IndInv

(* When do_rebuffer returns, its table takes the place of the references. *)
LEMMA SettledStep ==
  ASSUME ply \in Plays, NEW b \in Histories, NEW c \in Channels, Settled(b, c)
  PROVE  /\ buf' \in Histories /\ ch' \in Channels /\ ply' \in Plays /\ TablesSettled'
  <1> DEFINE Fix(x) == IF x = Live THEN b.players ELSE x
             s1 == Fix(c.streaming)
             s2 == Fix(c.bufStreaming)
             s3 == Fix(c.plyStreaming)
             s4 == Fix(ply.players)
  <1>1. /\ buf' = [b EXCEPT !.pc = "loop", !.players = {}, !.misses = 0, !.next = 1]
        /\ ch' = [c EXCEPT !.streaming = s1, !.bufStreaming = s2, !.plyStreaming = s3]
        /\ ply' = [ply EXCEPT !.players = s4]
    BY DEF Settled
  <1>2. /\ s1 \in Maybe(Tables) /\ s2 \in Maybe(Tables) /\ s3 \in Maybe(Tables)
        /\ s4 \in Tables
    BY DEF Channels, Histories, Plays, Maybe
  <1> HIDE DEF s1, s2, s3, s4
  <1>3. {s1, s2, s3} \subseteq Maybe(Tables \cup {Live})
    BY <1>2 DEF Maybe
  <1>4. buf' \in Histories
    <2> DEFINE none == {}
               one == 1
    <2>1. none \in Tables /\ one \in Nat \ {0}
      BY DEF Tables
    <2>2. buf' = [b EXCEPT !.pc = "loop", !.players = none, !.misses = 0, !.next = one]
      BY <1>1
    <2> HIDE DEF none, one
    <2> QED BY <2>1, <2>2 DEF Histories
  <1>5. ply' \in Plays /\ ply'.players = s4
    BY <1>1, <1>2 DEF Plays
  <1>6. /\ ch' \in Channels
        /\ ch'.streaming = s1 /\ ch'.bufStreaming = s2 /\ ch'.plyStreaming = s3
    BY <1>1, <1>3 DEF Channels
  <1>7. TablesSettled'
    BY <1>2, <1>5, <1>6 DEF TablesSettled
  <1> QED BY <1>4, <1>5, <1>6, <1>7

(* do_rebuffer is over, or goes on with its table. *)
LEMMA GoesOnStep ==
  ASSUME ply \in Plays, NEW b \in Histories, NEW c \in Channels,
         NEW pc \in {"match", "begin", "buffer", "return"}, RebufferGoesOn(b, c, pc)
  PROVE  /\ buf' \in Histories /\ ch' \in Channels /\ ply' \in Plays /\ TablesSettled'
  <1>1. CASE b.players = {} \/ pc = "return"
    <2> DEFINE d == [c EXCEPT !.rebufferDone = TRUE]
    <2>1. Settled(b, d)
      BY <1>1 DEF RebufferGoesOn, RebufferReturns
    <2>2. d \in Channels
      BY DEF Channels
    <2> HIDE DEF d
    <2> QED BY <2>1, <2>2, SettledStep
  <1>2. CASE ~(b.players = {} \/ pc = "return")
    <2>1. buf' = [b EXCEPT !.pc = pc] /\ ch' = c /\ ply' = ply /\ pc # "return"
      BY <1>2 DEF RebufferGoesOn
    <2>2. buf' \in Histories /\ buf'.pc # "loop"
      BY <2>1 DEF Histories
    <2> QED BY <2>1, <2>2 DEF TablesSettled
  <1> QED BY <1>1, <1>2

(* The early and the last return of do_rebuffer. *)
LEMMA ReturnsStep ==
  ASSUME ply \in Plays, NEW b \in Histories, NEW c \in Channels, RebufferReturns(b, c)
  PROVE  /\ buf' \in Histories /\ ch' \in Channels /\ ply' \in Plays /\ TablesSettled'
  <1> DEFINE d == [c EXCEPT !.rebufferDone = TRUE]
  <1>1. Settled(b, d)
    BY DEF RebufferReturns
  <1>2. d \in Channels
    BY DEF Channels
  <1> HIDE DEF d
  <1> QED BY <1>1, <1>2, SettledStep

(* Dropping players, counting a miss and telling the others. *)
LEMMA Dropped ==
  ASSUME NEW b \in Histories, NEW gone \in Tables, NEW c \in Channels
  PROVE  /\ Drop(b, gone) \in Histories /\ Missed(b) \in Histories
         /\ [b EXCEPT !.misses = 0] \in Histories
         /\ TellDrop(c, gone) \in Channels
  <1>1. Drop(b, gone) \in Histories
    <2> DEFINE ps == b.players \ gone
               ds == b.dropped \cup gone
    <2>1. ps \in Tables /\ ds \in Tables
      BY DEF Histories, Tables
    <2>2. Drop(b, gone) = [b EXCEPT !.players = ps, !.dropped = ds]
      BY DEF Drop
    <2> HIDE DEF ps, ds
    <2> QED BY <2>1, <2>2 DEF Histories
  <1>2. Missed(b) \in Histories
    <2> DEFINE k == b.misses + 1
    <2>1. k \in Nat /\ Missed(b) = [b EXCEPT !.misses = k]
      BY DEF Missed, Histories
    <2> HIDE DEF k
    <2> QED BY <2>1 DEF Histories
  <1>3. [b EXCEPT !.misses = 0] \in Histories
    BY DEF Histories
  <1>4. TellDrop(c, gone) \in Channels
    <2>1. Live \in Maybe(Tables \cup {Live})
      BY DEF Maybe
    <2>2. [c EXCEPT !.streaming = Live] \in Channels
      BY <2>1 DEF Channels
    <2> QED BY <2>2 DEF TellDrop
  <1> QED BY <1>1, <1>2, <1>3, <1>4

(* A wait of do_rebuffer. *)
LEMMA WaitsStep ==
  ASSUME IndInv, buf.pc \in {"begin", "buffer"}, NEW able, RebufferWaits(able)
  PROVE  /\ buf' \in Histories /\ ch' \in Channels /\ ply' \in Plays /\ TablesSettled'
         /\ failed' \in Tables /\ UNCHANGED <<dev, view>>
  <1> DEFINE gone == buf.players \ ch.bufStates.matched
             left == Drop(buf, gone)
             slow == IF buf.misses + 1 >= MissLimit THEN left.players \ able ELSE {}
             c == [ch EXCEPT !.bufStates = None]
             b == Missed(Drop(left, slow))
             pc == buf.pc
  <1>1. /\ RebufferGoesOn(b, TellDrop(c, gone), pc)
        /\ failed' = failed \cup slow /\ UNCHANGED <<dev, view>>
    BY DEF RebufferWaits
  <1>2. buf \in Histories /\ ch \in Channels /\ ply \in Plays /\ failed \in Tables
    BY DEF IndInv, ThreadsOK, GroupOK
  <1>3. gone \in Tables
    BY <1>2 DEF Histories, Tables
  <1>4. c \in Channels
    <2>1. None \in Maybe(States)
      BY DEF Maybe
    <2> QED BY <1>2, <2>1 DEF Channels
  <1> HIDE DEF gone, c
  <1>5. left \in Histories /\ TellDrop(c, gone) \in Channels
    BY <1>2, <1>3, <1>4, Dropped
  <1> HIDE DEF left
  <1>6. slow \in Tables
    BY <1>5 DEF Histories, Tables
  <1> HIDE DEF slow
  <1>7. b \in Histories
    <2>1. Drop(left, slow) \in Histories
      BY <1>4, <1>5, <1>6, Dropped
    <2> QED BY <1>4, <1>6, <2>1, Dropped
  <1>8. pc \in {"match", "begin", "buffer", "return"}
    OBVIOUS
  <1> HIDE DEF b, pc
  <1>9. buf' \in Histories /\ ch' \in Channels /\ ply' \in Plays /\ TablesSettled'
    BY <1>1, <1>2, <1>5, <1>7, <1>8, GoesOnStep
  <1>10. failed' \in Tables
    BY <1>1, <1>2, <1>6 DEF Tables
  <1> QED BY <1>1, <1>9, <1>10

(* The history is pruned to a number of chunks that is at least that of a     *)
(* player that are in its stream buffer.                                      *)
LEMMA AmountsType ==
  ASSUME NEW free, NEW k \in Amounts(free)
  PROVE  k \in Nat /\ k + OutputSize >= Capacity - free
  <1>1. Capacity - OutputSize + MaxExtra \in Int
    BY ConstantsAssumption
  <1> QED BY <1>1 DEF Amounts

(* What is left of the history is still chunks. *)
LEMMA LastOfType ==
  ASSUME NEW q \in Seq(Nat), NEW k \in Nat
  PROVE  LastOf(q, k) \in Seq(Nat)
  <1>1. CASE Len(q) <= k
    BY <1>1 DEF LastOf
  <1>2. CASE ~(Len(q) <= k)
    <2> DEFINE m == Len(q) - k + 1
               n == Len(q)
    <2>1. m \in Int /\ n \in Int /\ \A i \in m .. n : i \in 1 .. Len(q)
      BY <1>2, LenProperties
    <2>2. \A i \in m .. n : q[i] \in Nat
      BY <2>1, ElementOfSeq
    <2>3. LastOf(q, k) = SubSeq(q, m, n)
      BY <1>2 DEF LastOf
    <2> HIDE DEF m, n
    <2> QED BY <2>1, <2>2, <2>3, SubSeqProperties
  <1> QED BY <1>1, <1>2

(* When buffer_thread runs. *)
LEMMA BufferRuns ==
  ASSUME Runs(BufferThread)
  PROVE  /\ turn' = 6
         /\ buf.pc = "loop" => \/ ch.bufStreaming # None \/ ch.bufStates # None
                               \/ ch.bufEvent # None \/ ch.rebufferRequest
         /\ buf.pc = "match" => ch.bufStates # None
  <1>1. Ready(6) /\ turn' = 6
    BY DEF Runs, BufferThread
  <1>2. \/ buf.pc = "loop" /\ (ch.bufStreaming # None \/ ch.bufStates # None
                                \/ ch.bufEvent # None \/ ch.rebufferRequest)
        \/ buf.pc = "stopping" /\ \E p \in Players : Stopped(p)
        \/ buf.pc \in {"match", "begin", "buffer"} /\ (RebufferCanGoOn \/ ch.bufStates # None)
    BY <1>1 DEF Ready, EventMult, StatesMult, StreamingMult, PollThread, StreamThread,
                BufferThread, PlayThread, StopThreads
  <1> QED BY <1>1, <1>2 DEF RebufferCanGoOn

(* buffer_thread's loop: the tables it is sent are plain ones, since it is   *)
(* not in a rebuffer.                                                        *)
LEMMA HistorySteps ==
  ASSUME IndInv, BufferPlayers \/ BufferStates \/ BufferEvent \/ BufferRequest
  PROVE  IndInv'
  <1>0. /\ buf \in Histories /\ ch \in Channels /\ ply \in Plays /\ failed \in Tables
        /\ str \in Streams /\ stops \in [Players -> StopStates]
    BY DEF IndInv, ThreadsOK, GroupOK
  <1>1. /\ buf.pc = "loop" /\ Runs(BufferThread)
        /\ UNCHANGED <<group, lost, failed, dev, view, app, poll, str, ply>>
    BY DEF BufferPlayers, BufferStates, BufferEvent, BufferRequest, BufferAt
  <1>2. turn' = 6 /\ failed' \in Tables /\ DevicesOK' /\ ply' \in Plays
    BY <1>0, <1>1, BufferRuns, Same
  <1>3. /\ None \in Maybe(States) /\ None \in Maybe(Events)
        /\ None \in Maybe(Tables \cup {Live}) /\ None \in Maybe(Tables)
        /\ {ch.streaming, ch.bufStreaming, ch.plyStreaming} \subseteq Maybe(Tables)
        /\ ply.players \in Tables
    BY <1>1 DEF Maybe, IndInv, TablesSettled
  <1>4. CASE BufferPlayers
    <2>1. /\ ch.bufStreaming # None /\ buf' = [buf EXCEPT !.streaming = ch.bufStreaming]
          /\ ch' = [ch EXCEPT !.bufStreaming = None] /\ UNCHANGED stops
      BY <1>4 DEF BufferPlayers
    <2>2. ch.bufStreaming \in Tables
      BY <1>3, <2>1 DEF Maybe
    <2>3. buf' \in Histories
      BY <1>0, <2>1, <2>2 DEF Histories
    <2>4. /\ ch' \in Channels /\ ch'.bufStreaming = None /\ ch'.streaming = ch.streaming
          /\ ch'.plyStreaming = ch.plyStreaming
      BY <1>0, <1>3, <2>1 DEF Channels
    <2>5. TablesSettled'
      BY <1>1, <1>3, <2>4 DEF TablesSettled
    <2> QED BY <1>0, <1>1, <1>2, <2>1, <2>3, <2>4, <2>5, BufferFinish
  <1>5. CASE BufferStates
    <2>1. /\ UNCHANGED stops /\ ch' = [ch EXCEPT !.bufStates = None]
          /\ \/ \E p \in buf.streaming : \E k \in Amounts(view[p].free) :
                  buf' = [buf EXCEPT !.buffers = LastOf(@, k)]
             \/ buf' = buf
      BY <1>5 DEF BufferStates
    <2>2. ch' \in Channels /\ SameTables(ch')
      BY <1>0, <1>3, <2>1 DEF Channels, SameTables
    <2>3. buf' \in Histories /\ buf'.pc = "loop"
      <3>1. CASE buf' = buf
        BY <1>0, <1>1, <3>1
      <3>2. ASSUME NEW p \in buf.streaming, NEW k \in Amounts(view[p].free),
                   buf' = [buf EXCEPT !.buffers = LastOf(@, k)]
            PROVE  buf' \in Histories /\ buf'.pc = "loop"
        <4> DEFINE q == LastOf(buf.buffers, k)
        <4>3. k \in Nat
          BY AmountsType
        <4>4. q \in Seq(Nat)
          BY <1>0, <4>3, LastOfType DEF Histories
        <4>5. buf' = [buf EXCEPT !.buffers = q]
          BY <3>2
        <4> HIDE DEF q
        <4> QED BY <1>0, <1>1, <4>4, <4>5 DEF Histories
      <3> QED BY <2>1, <3>1, <3>2
    <2>4. TablesSettled'
      BY <1>1, <1>3, <2>2 DEF TablesSettled, SameTables
    <2> QED BY <1>0, <1>1, <1>2, <2>1, <2>2, <2>3, <2>4, BufferFinish
  <1>6. CASE BufferEvent
    <2> DEFINE e == ch.bufEvent
    <2>1. /\ e # None /\ UNCHANGED stops /\ ch' = [ch EXCEPT !.bufEvent = None]
          /\ buf' = Remember(buf, e)
      BY <1>6 DEF BufferEvent
    <2>2. ch' \in Channels /\ SameTables(ch')
      BY <1>0, <1>3, <2>1 DEF Channels, SameTables
    <2>3. e \in Events
      BY <1>0, <2>1 DEF Channels, Maybe
    <2> HIDE DEF e
    <2>4. buf' \in Histories
      <3> DEFINE q == Append(buf.buffers, e.n)
      <3>1. e.n \in Nat /\ buf.buffers \in Seq(Nat)
        BY <1>0, <2>3, ConstantsAssumption DEF Events, Histories
      <3>2. q \in Seq(Nat) /\ << >> \in Seq(Nat)
        BY <3>1, AppendProperties, EmptySeq
      <3>3. \/ buf' = [buf EXCEPT !.track = FALSE, !.buffers = << >>, !.trackEnd = FALSE]
            \/ buf' = [buf EXCEPT !.track = TRUE, !.buffers = << >>, !.trackEnd = FALSE]
            \/ buf' = [buf EXCEPT !.buffers = q]
            \/ buf' = [buf EXCEPT !.buffers = << >>]
            \/ buf' = [buf EXCEPT !.trackEnd = TRUE]
            \/ buf' = buf
        BY <2>1 DEF Remember
      <3> HIDE DEF q
      <3> QED BY <1>0, <3>2, <3>3 DEF Histories
    <2>5. TablesSettled'
      BY <1>1, <1>3, <2>2 DEF TablesSettled, SameTables
    <2> QED BY <1>0, <1>1, <1>2, <2>1, <2>2, <2>4, <2>5, BufferFinish
  <1>7. CASE BufferRequest
    <2> DEFINE k == str.cookie
               ps == str.players
               o == buf.overtook \/ Overtakes
               After(b) == [buf EXCEPT !.pc = "stopping", !.players = ps, !.overtook = b]
    <2>1. /\ buf' = After(o)
          /\ ch' = [ch EXCEPT !.rebufferRequest = FALSE, !.cookie = k]
          /\ stops' = WantStops(ps)
      BY <1>7 DEF BufferRequest
    <2>2. k \in Maybe(Nat) /\ ps \in Tables
      BY <1>0 DEF Streams, Maybe
    <2>3. buf' \in Histories /\ buf'.pc = "stopping"
      <3>1. o \in BOOLEAN
        BY Zenon
      <3> HIDE DEF k, ps, o
      <3>2. ASSUME NEW b \in BOOLEAN PROVE After(b) \in Histories /\ After(b).pc = "stopping"
        BY <1>0, <2>2 DEF Histories
      <3> HIDE DEF After
      <3> QED BY <2>1, <3>1, <3>2, Zenon
    <2> HIDE DEF k, ps, o, After
    <2>4. ch' \in Channels
      BY <1>0, <2>1, <2>2 DEF Channels
    <2>5. stops' \in [Players -> StopStates] /\ TablesSettled'
      BY <2>1, <2>3 DEF WantStops, StopStates, TablesSettled
    <2> QED BY <1>0, <1>1, <1>2, <2>3, <2>4, <2>5, BufferFinish
  <1> QED BY <1>4, <1>5, <1>6, <1>7

(* do_rebuffer. *)
LEMMA RebufferSteps ==
  ASSUME IndInv, RebufferStops \/ RebufferMatches \/ RebufferBegins \/ RebufferBuffers
  PROVE  IndInv'
  <1> DEFINE Fine == buf' \in Histories /\ ch' \in Channels /\ ply' \in Plays /\ TablesSettled'
  <1>0. /\ buf \in Histories /\ ch \in Channels /\ ply \in Plays /\ failed \in Tables
        /\ lost \in Tables /\ str.owner \in Nat /\ stops \in [Players -> StopStates]
        /\ buf.players \in Tables /\ DevicesOK
    BY DEF IndInv, ThreadsOK, GroupOK, Histories, Streams
  <1>1. Runs(BufferThread) /\ UNCHANGED <<group, lost, app, poll, str>>
    BY DEF RebufferStops, RebufferMatches, RebufferBegins, RebufferBuffers, BufferAt
  <1>2. turn' = 6
    BY <1>1, BufferRuns
  <1>3. \A ps : ps \cap lost \in Tables
    BY <1>0 DEF Tables
  <1>4. CASE RebufferStops
    <2> DEFINE ok == Answered("ok")
               ps == buf.players \ StopFailed
               b == [buf EXCEPT !.players = ps]
    <2>1. /\ view' = view /\ buf.pc = "stopping"
          /\ dev' = [p \in Players |-> IF p \in Wrote(ok) THEN GetStart(dev[p]) ELSE dev[p]]
          /\ failed' = failed \cup (ok \cap lost)
          /\ stops' = [p \in Players |-> IF Stopped(p) THEN "none" ELSE stops[p]]
          /\ RebufferGoesOn(b, ch, "match") \/ (buf' = b /\ UNCHANGED <<ch, ply>>)
      BY <1>4 DEF RebufferStops, CountStops, WriteTo, BufferAt
    <2>2. ps \in Tables
      BY <1>0 DEF Tables
    <2> HIDE DEF ok, ps
    <2>3. b \in Histories /\ b.pc = "stopping"
      BY <1>0, <2>1, <2>2 DEF Histories
    <2> HIDE DEF b
    <2>4. Fine
      <3>1. CASE RebufferGoesOn(b, ch, "match")
        BY <1>0, <2>3, <3>1, GoesOnStep
      <3>2. CASE buf' = b /\ UNCHANGED <<ch, ply>>
        BY <1>0, <2>3, <3>2 DEF TablesSettled
      <3> QED BY <2>1, <3>1, <3>2
    <2>5. failed' \in Tables /\ stops' \in [Players -> StopStates]
      BY <1>0, <1>3, <2>1 DEF Tables, StopStates
    <2>6. DevicesOK'
      BY <1>0, <2>1, OtherSent
    <2> QED BY <1>1, <1>2, <2>4, <2>5, <2>6, BufferFinish
  <1>5. CASE RebufferMatches
    <2> DEFINE c      == [ch EXCEPT !.bufStates = None]
               gone   == buf.players \ (ch.bufStates.matched \cup ch.bufStates.other)
               rest   == buf.players \ ch.bufStates.matched
               onward == IF buf.track THEN "begin" ELSE "return"
    <2>1. /\ UNCHANGED <<failed, dev, view, stops>>
          /\ \/ RebufferGoesOn([buf EXCEPT !.misses = 0], c, onward)
             \/ RebufferGoesOn(Missed(Drop(buf, gone)), TellDrop(c, gone), "match")
             \/ RebufferGoesOn([Drop(buf, rest) EXCEPT !.misses = 0], TellDrop(c, gone), onward)
      BY <1>5 DEF RebufferMatches
    <2>2. gone \in Tables /\ rest \in Tables
      BY <1>0 DEF Tables
    <2>3. c \in Channels
      <3>1. None \in Maybe(States)
        BY DEF Maybe
      <3> QED BY <1>0, <3>1 DEF Channels
    <2>4. onward \in {"match", "begin", "buffer", "return"}
      OBVIOUS
    <2> HIDE DEF c, gone, rest, onward
    <2>5. /\ [buf EXCEPT !.misses = 0] \in Histories /\ Drop(buf, gone) \in Histories
          /\ Drop(buf, rest) \in Histories /\ TellDrop(c, gone) \in Channels
      BY <1>0, <2>2, <2>3, Dropped
    <2>6. /\ Missed(Drop(buf, gone)) \in Histories
          /\ [Drop(buf, rest) EXCEPT !.misses = 0] \in Histories
      BY <2>2, <2>3, <2>5, Dropped
    <2>7. Fine
      <3>1. CASE RebufferGoesOn([buf EXCEPT !.misses = 0], c, onward)
        BY <1>0, <2>3, <2>4, <2>5, <3>1, GoesOnStep
      <3>2. CASE RebufferGoesOn(Missed(Drop(buf, gone)), TellDrop(c, gone), "match")
        BY <1>0, <2>5, <2>6, <3>2, GoesOnStep
      <3>3. CASE RebufferGoesOn([Drop(buf, rest) EXCEPT !.misses = 0], TellDrop(c, gone), onward)
        BY <1>0, <2>4, <2>5, <2>6, <3>3, GoesOnStep
      <3> QED BY <2>1, <3>1, <3>2, <3>3
    <2>8. failed' \in Tables /\ stops' \in [Players -> StopStates] /\ DevicesOK'
      BY <1>0, <2>1, Same
    <2> QED BY <1>1, <1>2, <2>7, <2>8, BufferFinish
  <1>6. CASE RebufferBegins
    <2> DEFINE ps == Wrote(buf.players)
               one == 1
               b == [buf EXCEPT !.players = ps, !.next = one, !.misses = 0]
    <2>1. buf.pc = "begin" /\ stops' = stops
      BY <1>6 DEF RebufferBegins, BufferAt
    <2>2. CASE AllCanBegin(buf.players)
      <3>1. /\ RebufferGoesOn(b, ch, "buffer") /\ view' = SpendBegin(buf.players)
            /\ dev' = [p \in Players |-> IF p \in Wrote(buf.players)
                         THEN GetBegin(dev[p], str.owner) ELSE dev[p]]
            /\ failed' = failed \cup (buf.players \cap lost)
        BY <1>6, <2>2 DEF RebufferBegins, WriteTo
      <3>2. ps \in Tables /\ one \in Nat \ {0}
        BY <1>0 DEF Wrote, Tables
      <3> HIDE DEF ps, one
      <3>3. b \in Histories
        BY <1>0, <3>2 DEF Histories
      <3> HIDE DEF b
      <3>4. Fine
        BY <1>0, <3>1, <3>3, GoesOnStep
      <3>5. failed' \in Tables
        BY <1>0, <3>1 DEF Tables
      <3>6. DevicesOK'
        BY <1>0, <3>1, BeginSent
      <3> QED BY <1>0, <1>1, <1>2, <2>1, <3>4, <3>5, <3>6, BufferFinish
    <2>3. CASE ~AllCanBegin(buf.players)
      <3>1. PICK able : RebufferWaits(able)
        BY <1>6, <2>3 DEF RebufferBegins
      <3>2. Fine /\ failed' \in Tables /\ UNCHANGED <<dev, view>>
        BY <2>1, <3>1, WaitsStep
      <3>3. DevicesOK'
        BY <3>2, Same
      <3> QED BY <1>0, <1>1, <1>2, <2>1, <3>2, <3>3, BufferFinish
    <2> QED BY <2>2, <2>3
  <1>7. CASE RebufferBuffers
    <2> DEFINE ps == Wrote(buf.players)
    <2>0. ps \in Tables
      BY <1>0 DEF Wrote, Tables
    <2>1. buf.pc = "buffer" /\ stops' = stops
      BY <1>7 DEF RebufferBuffers, BufferAt
    <2>2. /\ buf.next \in Nat \ {0} /\ buf.buffers \in Seq(Nat) /\ Len(buf.buffers) \in Nat
          /\ buf.trackEnd \in BOOLEAN
      BY <1>0, LenProperties DEF Histories
    <2>3. CASE buf.next > Len(buf.buffers) /\ ~buf.trackEnd
      <3>1. RebufferReturns(buf, ch) /\ UNCHANGED <<dev, failed, view>>
        <4>1. ~(buf.next <= Len(buf.buffers))
          BY <2>2, <2>3
        <4> QED BY <1>7, <2>3, <4>1, Zenon DEF RebufferBuffers
      <3>2. Fine
        BY <1>0, <3>1, ReturnsStep
      <3>3. DevicesOK' /\ failed' \in Tables
        BY <1>0, <3>1, Same
      <3> QED BY <1>0, <1>1, <1>2, <2>1, <3>2, <3>3, BufferFinish
    <2>4. CASE buf.next > Len(buf.buffers) /\ buf.trackEnd
      <3> DEFINE b == [buf EXCEPT !.players = ps]
      <3>1. /\ RebufferReturns(b, ch) /\ view' = view
            /\ dev' = [p \in Players |->
                         IF p \in Wrote(buf.players) THEN GetEnd(dev[p]) ELSE dev[p]]
            /\ failed' = failed \cup (buf.players \cap lost)
        <4>1. ~(buf.next <= Len(buf.buffers))
          BY <2>2, <2>4
        <4>2. WriteTo(buf.players, GetEnd) /\ RebufferReturns(b, ch) /\ view' = view
          BY <1>7, <2>4, <4>1, Zenon DEF RebufferBuffers
        <4> QED BY <4>2 DEF WriteTo
      <3> HIDE DEF ps
      <3>2. b \in Histories
        BY <1>0, <2>0 DEF Histories
      <3> HIDE DEF b
      <3>3. Fine
        BY <1>0, <3>1, <3>2, ReturnsStep
      <3>4. failed' \in Tables
        BY <1>0, <3>1 DEF Tables
      <3>5. DevicesOK'
        BY <1>0, <3>1, OtherSent
      <3> QED BY <1>0, <1>1, <1>2, <2>1, <3>3, <3>4, <3>5, BufferFinish
    <2>5. CASE buf.next <= Len(buf.buffers) /\ AllCanBuffer(buf.players)
      <3> DEFINE n == buf.buffers[buf.next]
                 k == buf.next + 1
                 b == [buf EXCEPT !.players = ps, !.next = k, !.misses = 0]
      <3>1. /\ RebufferGoesOn(b, ch, "buffer") /\ view' = SpendChunk(buf.players)
            /\ dev' = [p \in Players |-> IF p \in Wrote(buf.players)
                         THEN GetChunk(dev[p], str.owner, n) ELSE dev[p]]
            /\ failed' = failed \cup (buf.players \cap lost)
        BY <1>7, <2>2, <2>5 DEF RebufferBuffers, WriteTo
      <3>2. buf.next \in 1 .. Len(buf.buffers) /\ k \in Nat \ {0}
        BY <2>2, <2>5
      <3>3. n \in Nat
        BY <2>2, <3>2, ElementOfSeq
      <3> HIDE DEF ps, k, n
      <3>4. b \in Histories
        BY <1>0, <2>0, <3>2 DEF Histories
      <3> HIDE DEF b
      <3>5. Fine
        BY <1>0, <3>1, <3>4, GoesOnStep
      <3>6. failed' \in Tables
        BY <1>0, <3>1 DEF Tables
      <3>7. DevicesOK'
        BY <1>0, <2>5, <3>1, <3>3, ChunkSent
      <3> QED BY <1>0, <1>1, <1>2, <2>1, <3>5, <3>6, <3>7, BufferFinish
    <2>6. CASE buf.next <= Len(buf.buffers) /\ ~AllCanBuffer(buf.players)
      <3>1. PICK able : RebufferWaits(able)
        BY <1>7, <2>2, <2>6 DEF RebufferBuffers
      <3>2. Fine /\ failed' \in Tables /\ UNCHANGED <<dev, view>>
        BY <2>1, <3>1, WaitsStep
      <3>3. DevicesOK'
        BY <3>2, Same
      <3> QED BY <1>0, <1>1, <1>2, <2>1, <3>2, <3>3, BufferFinish
    <2> QED BY <2>2, <2>3, <2>4, <2>5, <2>6
  <1> QED BY <1>4, <1>5, <1>6, <1>7

(* buffer_thread. *)
LEMMA BufferSteps ==
  ASSUME IndInv, BufferStep
  PROVE  IndInv'
  BY HistorySteps, RebufferSteps DEF BufferStep

(* When play_thread runs. *)
LEMMA PlayRuns ==
  ASSUME Runs(PlayThread)
  PROVE  \/ ch.plyStreaming # None \/ ch.plyStates # None
         \/ ch.play # None \/ ch.plyEvent # None
  <1>1. Ready(7)
    BY DEF Runs, PlayThread
  <1> QED BY <1>1 DEF Ready, EventMult, StatesMult, StreamingMult, PollThread, StreamThread,
                      BufferThread, PlayThread, StopThreads

(* play_thread. *)
LEMMA PlaySteps ==
  ASSUME IndInv, PlayStep
  PROVE  IndInv'
  <1>0. ch \in Channels /\ ply \in Plays
    BY DEF IndInv, ThreadsOK
  <1>1. /\ turn' \in Threads \cup {9}
        /\ UNCHANGED <<group, lost, failed, dev, view, stops, app, poll, str, buf>>
    <2>1. CASE PlayPlayers
      BY <2>1 DEF PlayPlayers, Runs, Threads, PlayThread
    <2>2. CASE PlayStates
      <3>1. UNCHANGED <<group, lost, failed, dev, view, stops, app, poll, str, buf>>
        BY <2>2, Zenon DEF PlayStates
      <3>2. turn' = 7
        BY <2>2, Zenon DEF PlayStates, Runs, PlayThread
      <3> QED BY <3>1, <3>2 DEF Threads
    <2>3. CASE PlayCommand
      BY <2>3 DEF PlayCommand, Runs, Threads, PlayThread
    <2>4. CASE PlayEvent
      BY <2>4 DEF PlayEvent, Runs, Threads, PlayThread
    <2> QED BY <2>1, <2>2, <2>3, <2>4 DEF PlayStep
  <1>2. /\ None \in Maybe(Tables \cup {Live}) /\ None \in Maybe(States) /\ None \in Maybe(Events)
        /\ None \in Maybe({"pause", "resume"})
    BY DEF Maybe
  <1>3. ch' \in Channels /\ ply' \in Plays /\ TablesSettled'
    <2>1. CASE PlayPlayers
      <3>1. /\ ch.plyStreaming # None /\ ply' = [ply EXCEPT !.players = ch.plyStreaming]
            /\ ch' = [ch EXCEPT !.plyStreaming = None]
        BY <2>1 DEF PlayPlayers
      <3>2. ch.plyStreaming \in Tables \cup {Live}
        BY <1>0, <3>1 DEF Channels, Maybe
      <3>3. ply' \in Plays /\ ply'.players = ch.plyStreaming
        BY <1>0, <3>1, <3>2 DEF Plays
      <3>4. /\ ch' \in Channels /\ ch'.plyStreaming = None /\ ch'.streaming = ch.streaming
            /\ ch'.bufStreaming = ch.bufStreaming
        BY <1>0, <1>2, <3>1 DEF Channels
      <3>5. TablesSettled'
        BY <1>1, <3>1, <3>3, <3>4 DEF IndInv, TablesSettled, Maybe
      <3> QED BY <3>3, <3>4, <3>5
    <2>2. CASE PlayStates
      <3>1. ch' = [ch EXCEPT !.plyStates = None]
        BY <2>2 DEF PlayStates
      <3>2. ch' \in Channels /\ SameTables(ch')
        BY <1>0, <1>2, <3>1 DEF Channels, SameTables
      <3>3. ply' \in Plays /\ ply'.players = ply.players
        <4>1. CASE ply' = ply
          BY <1>0, <4>1
        <4>2. CASE ply' # ply
          <5>1. PICK player1 \in PlayTable :
                  LET start == ply.audio = "AUTOSTART" /\ AllReady
                      ended == ply.last = "TRACK_END" /\ ~view[player1].output /\ ~ply.ended
                  IN  ply' = [ply EXCEPT !.audio = CASE start              -> "PLAYING"
                                                     [] Underrun \/ ended -> "AUTOSTART"
                                                     [] OTHER             -> @,
                                         !.ended = @ \/ ended,
                                         !.timers = @ + IF ended THEN 1 ELSE 0]
            BY <2>2, <4>2, Zenon DEF PlayStates
          <5> DEFINE start == ply.audio = "AUTOSTART" /\ AllReady
                     ended == ply.last = "TRACK_END" /\ ~view[player1].output /\ ~ply.ended
                     au == CASE start -> "PLAYING" [] Underrun \/ ended -> "AUTOSTART"
                             [] OTHER -> ply.audio
                     en == ply.ended \/ ended
                     ti == ply.timers + IF ended THEN 1 ELSE 0
          <5>2. ply' = [ply EXCEPT !.audio = au, !.ended = en, !.timers = ti]
            BY <5>1, Zenon
          <5> HIDE DEF start, ended
          <5>3. en \in BOOLEAN
            BY Zenon
          <5>4. ti \in Nat
            BY <1>0 DEF Plays
          <5>5. au \in {"PAUSED", "AUTOSTART", "PLAYING"}
            BY <1>0 DEF Plays
          <5> HIDE DEF au, en, ti
          <5> DEFINE r(y) == [ply EXCEPT !.audio = au, !.ended = y, !.timers = ti]
          <5>6. ASSUME NEW y \in BOOLEAN PROVE r(y) \in Plays /\ r(y).players = ply.players
            BY <1>0, <5>4, <5>5 DEF Plays
          <5> QED BY <5>2, <5>3, <5>6, Zenon
        <4> QED BY <4>1, <4>2
      <3>4. TablesSettled'
        BY <1>1, <3>2, <3>3 DEF IndInv, TablesSettled, SameTables
      <3> QED BY <3>2, <3>3, <3>4
    <2>3. CASE PlayCommand
      <3>1. /\ ch' = [ch EXCEPT !.play = None]
            /\ \/ ply' = [ply EXCEPT !.audio = "PAUSED"]
               \/ ply' = [ply EXCEPT !.audio = "AUTOSTART"]
               \/ ply' = ply
        BY <2>3 DEF PlayCommand
      <3>2. ch' \in Channels /\ SameTables(ch')
        BY <1>0, <1>2, <3>1 DEF Channels, SameTables
      <3>3. ply' \in Plays /\ ply'.players = ply.players
        BY <1>0, <3>1 DEF Plays
      <3>4. TablesSettled'
        BY <1>1, <3>2, <3>3 DEF IndInv, TablesSettled, SameTables
      <3> QED BY <3>2, <3>3, <3>4
    <2>4. CASE PlayEvent
      <3> DEFINE e == ch.plyEvent.event
                 en == IF e = "TRACK_END" THEN FALSE ELSE ply.ended
                 au == CASE e = "FLUSH" -> "AUTOSTART"
                         [] e = "ACQUIRE_DONE" /\ ply.audio = "PLAYING" -> "AUTOSTART"
                         [] OTHER -> ply.audio
      <3>1. /\ ch' = [ch EXCEPT !.plyEvent = None]
            /\ ply' = [ply EXCEPT !.last = e, !.ended = en, !.audio = au]
        BY <2>4 DEF PlayEvent
      <3>2. ch' \in Channels /\ SameTables(ch')
        BY <1>0, <1>2, <3>1 DEF Channels, SameTables
      <3>3. e \in Maybe(EventNames)
        <4>1. ch.plyEvent # None
          BY <2>4, PlayRuns DEF PlayEvent
        <4>2. ch.plyEvent \in Events
          BY <1>0, <4>1 DEF Channels, Maybe
        <4> QED BY <4>2 DEF Events, EventNames, Maybe
      <3>4. en \in BOOLEAN
        BY <1>0 DEF Plays
      <3>5. au \in {"PAUSED", "AUTOSTART", "PLAYING"}
        BY <1>0 DEF Plays
      <3> HIDE DEF e, en, au
      <3>6. ply' \in Plays /\ ply'.players = ply.players
        BY <1>0, <3>1, <3>3, <3>4, <3>5 DEF Plays
      <3>7. TablesSettled'
        BY <1>1, <3>2, <3>6 DEF IndInv, TablesSettled, SameTables
      <3> QED BY <3>2, <3>6, <3>7
    <2> QED BY <2>1, <2>2, <2>3, <2>4 DEF PlayStep
  <1>4. GroupOK' /\ DevicesOK' /\ SessionsOK' /\ CommandWaits'
    BY <1>1, Same
  <1> QED BY <1>1, <1>3, <1>4 DEF IndInv, ThreadsOK
-----------------------------------------------------------------------------
(* Init, with no players and nothing asked for. *)
LEMMA InitInv == Init => IndInv
  <1> SUFFICES ASSUME Init PROVE IndInv
    OBVIOUS
  <1> USE DEF Init
  <1>0. {} \in Tables /\ None \in Maybe(Tables) /\ None \in Maybe(States)
        /\ None \in Maybe(Events) /\ None \in Maybe(Tables \cup {Live}) /\ None \in Maybe(Apps)
        /\ None \in Maybe(Nat) /\ None \in Maybe({"pause", "resume"}) /\ None \in Maybe(EventNames)
        /\ None \in Maybe(Methods)
    BY DEF Tables, Maybe
  <1>1. turn \in Threads \cup {9}
    OBVIOUS
  <1>2. GroupOK
    BY <1>0 DEF GroupOK, Groups, StopStates
  <1>3. DevicesOK
    <2>1. NewDevice \in Devices /\ NewDevice.fill = 0
      BY DEF NewDevice, Devices, NoCookie
    <2>2. Snapshot(NewDevice) \in Views /\ Snapshot(NewDevice).free = Capacity - 0
      BY <2>1, SnapshotType, ConstantsAssumption
    <2>3. Room
      BY <2>1, <2>2, ConstantsAssumption DEF Room
    <2>4. dev \in [Players -> Devices] /\ view \in [Players -> Views]
      BY <2>1, <2>2
    <2> QED BY <2>3, <2>4 DEF DevicesOK
  <1>4. SessionsOK
    <2> DEFINE s == [token |-> 0, next |-> 1, at |-> "out", req |-> None]
    <2>1. s \in Sessions /\ s.req = None
      BY <1>0 DEF Sessions
    <2>2. app = [a \in Apps |-> s]
      OBVIOUS
    <2>3. None \notin {"track_begin", "buffer"}
      BY ConstantsAssumption DEF Requests
    <2> HIDE DEF s
    <2> QED BY <2>1, <2>2, <2>3 DEF SessionsOK
  <1>5. ch \in Channels
    <2>1. << >> \in Seq(Apps)
      BY EmptySeq
    <2>2. <<Event("WAITING", 0)>> \in Seq(Events)
      <3>1. Event("WAITING", 0) \in Events
        BY ConstantsAssumption DEF Event, Events
      <3> QED BY <3>1
    <2> QED BY <1>0, <2>1, <2>2 DEF Channels
  <1>6. poll \in Polls /\ str \in Streams
    BY <1>0 DEF Polls, Streams, AnyCookie
  <1>7. buf \in Histories /\ ply \in Plays
    <2>1. << >> \in Seq(Nat)
      BY EmptySeq
    <2> QED BY <1>0, <2>1 DEF Histories, Plays
  <1>8. TablesSettled /\ CommandWaits
    BY <1>0 DEF TablesSettled, CommandWaits
  <1> QED BY <1>1, <1>2, <1>3, <1>4, <1>5, <1>6, <1>7, <1>8 DEF IndInv, ThreadsOK

(* Every step keeps the invariant. *)
LEMMA NextInv == IndInv /\ [Next]_vars => IndInv'
  <1> SUFFICES ASSUME IndInv, [Next]_vars PROVE IndInv'
    OBVIOUS
  <1>1. CASE UNCHANGED vars
    <2>1. UNCHANGED <<turn, group, lost, failed, dev, view, stops, app, ch, poll, str, buf, ply>>
      BY <1>1 DEF vars
    <2>2. /\ GroupOK' /\ DevicesOK' /\ SessionsOK' /\ CommandWaits' /\ TablesSettled'
      BY <2>1, Same
    <2> QED BY <2>1, <2>2 DEF IndInv, ThreadsOK
  <1>2. CASE Environment
    BY <1>2, EnvironmentSteps
  <1>3. CASE ThreadStep
    BY <1>3, MultSteps, PollSteps, StreamSteps, BufferSteps, PlaySteps, StopCallsStep DEF ThreadStep
  <1> QED BY <1>1, <1>2, <1>3 DEF Next

(* In every interleaving of the distributor's passes, a player's report      *)
(* never claims more room than its device has, outside of a rebuffer no      *)
(* thread holds do_rebuffer's own table, and a command that waits in         *)
(* handle_stream_command is still its app's request.                         *)
THEOREM Inductive == Spec => []IndInv
  BY InitInv, NextInv, PTL DEF Spec

(* The state of the distributor's threads and channels is what the code      *)
(* keeps in them; among it, no player ever holds more than it has room for   *)
(* (handle_stream_command and do_rebuffer only send a chunk when every       *)
(* player can take it), and buffer_thread is never left with a reference to  *)
(* do_rebuffer's table.                                                      *)
THEOREM TypeCorrect == Spec => []TypeOK
  <1>1. IndInv => TypeOK
    <2> SUFFICES ASSUME IndInv PROVE TypeOK
      OBVIOUS
    <2>1. /\ group.table \in Tables /\ group.added \in Tables
          /\ lost \in Tables /\ failed \in Tables
          /\ \A p \in Players : stops[p] \in {"none", "wanted", "called", "ok", "error"}
      BY DEF IndInv, GroupOK, Groups, StopStates
    <2>2. ASSUME NEW p \in Players
          PROVE  /\ dev[p].st \in {"stopped", "started", "streaming", "ended"}
                 /\ dev[p].fill \in 0 .. Capacity /\ view[p].free \in 0 .. Capacity
      <3>1. /\ view[p].free \in Nat /\ dev[p].fill \in Nat /\ Capacity \in Nat
            /\ view[p].free + dev[p].fill <= Capacity
            /\ dev[p].st \in {"stopped", "started", "streaming", "ended"}
        BY ConstantsAssumption DEF IndInv, DevicesOK, Room, Views, Devices
      <3> QED BY <3>1
    <2>3. \A a \in Apps : /\ app[a].at \in {"out", "begin", "track", "sent"}
                         /\ app[a].req \in Maybe(Methods)
      BY DEF IndInv, SessionsOK, Sessions
    <2>4. /\ {ch.pollPlayers, ch.streamPlayers} \subseteq Maybe(Tables)
          /\ {ch.streaming, ch.bufStreaming, ch.plyStreaming} \subseteq Maybe(Tables \cup {Live})
          /\ {ch.states, ch.statesHand, ch.bufStates, ch.plyStates} \subseteq Maybe(States)
          /\ {ch.bufEvent, ch.plyEvent} \subseteq Maybe(Events)
          /\ ch.events \in Seq(Events)
      BY DEF IndInv, ThreadsOK, Channels
    <2>5. /\ str.pc \in {"waiting", "stopping", "loop", "wait", "rebuffer"}
          /\ buf.pc \in {"loop", "stopping", "match", "begin", "buffer"}
          /\ buf.streaming \in Tables /\ ply.players \in Tables \cup {Live}
          /\ poll.pc \in {"wait", "cycle"}
          /\ ply.audio \in {"PAUSED", "AUTOSTART", "PLAYING"}
      BY DEF IndInv, ThreadsOK, Streams, Histories, Plays, Polls
    <2>6. turn \in Threads \cup {9}
      BY DEF IndInv
    <2> QED BY <2>1, <2>2, <2>3, <2>4, <2>5, <2>6 DEF TypeOK
  <1> QED BY <1>1, Inductive, PTL
=============================================================================
