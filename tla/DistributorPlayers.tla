------------------------- MODULE DistributorPlayers -------------------------
(***************************************************************************)
(* players_thread of the distributor (lua/distributor_players.lua) and the *)
(* connection protocol of the Player objects it creates                    *)
(* (lua/lib/beep_player.lua on top of lua/lib/device.lua).                  *)
(*                                                                         *)
(* The manager asks for players with add_player, remove_device and          *)
(* remove_all_devices.  A Player becomes usable only after three remote     *)
(* round trips (hello, the stream socket, stop), during which the thread    *)
(* goes on serving commands.  Additions are published to the other threads  *)
(* after a quiet second, removals at once.                                  *)
(*                                                                         *)
(* One iteration of the thread's loop is one step; async.alts picks the     *)
(* first ready channel of {player_errors, player_ready, ubus_players,       *)
(* player_change_timeout}.                                                  *)
(***************************************************************************)
EXTENDS Naturals, Sequences, FiniteSets

CONSTANTS Ids,          \* device ids the manager names
          Instances,    \* the Player objects beep_player.new can create
          None,         \* nil
          MaxCommands   \* bound: commands the manager sends

ASSUME NoneAssumption == None \notin Instances /\ None \notin Ids
ASSUME MaxCommandsAssumption ==    \* no add_player ever lacks a Player object
    MaxCommands \in Nat /\ MaxCommands <= Cardinality(Instances)

VARIABLES
    players,     \* players_thread's table: id -> current Player, or None
    playersCh,   \* the table most recently put on players_ch
    timer,       \* player_change_timeout_ch: "none", "armed" or "fired"
    errorsQ,     \* player_errors_ch
    readyQ,      \* player_ready_ch; None stands for false
    commandQ,    \* ubus_players_command_ch
    sent,        \* number of commands the manager has sent
    owner,       \* Player -> the id it was made for, None before new()
    phase,       \* Player -> what its initialisation waits for
    failed,      \* Players whose has_error is set
    everSent     \* Players some published table has handed out

vars == <<players, playersCh, timer, errorsQ, readyQ, commandQ, sent,
          owner, phase, failed, everSent>>

threadVars == <<players, playersCh, timer, everSent>>
playerVars == <<owner, phase, failed>>

Tables   == [Ids -> Instances \cup {None}]
Commands == [method : {"add_player", "remove_player"}, id : Ids]
              \cup [method : {"remove_all_players"}, id : {None}]
Phases   == {"unused", "hello", "stream", "stop", "ready", "dead"}

Held(table) == {table[id] : id \in Ids} \ {None}

\* The types of players_thread's table, queues and Player objects.
TypeOK ==
    /\ players \in Tables
    /\ playersCh \in Tables
    /\ timer \in {"none", "armed", "fired"}
    /\ errorsQ \in Seq(Instances)
    /\ readyQ \in Seq(Instances \cup {None})
    /\ commandQ \in Seq(Commands)
    /\ sent \in Nat
    /\ owner \in [Instances -> Ids \cup {None}]
    /\ phase \in [Instances -> Phases]
    /\ failed \in SUBSET Instances
    /\ everSent \in SUBSET Instances

Init ==
    /\ players = [id \in Ids |-> None]
    /\ playersCh = [id \in Ids |-> None]
    /\ timer = "none"
    /\ errorsQ = <<>>
    /\ readyQ = <<>>
    /\ commandQ = <<>>
    /\ sent = 0
    /\ owner = [p \in Instances |-> None]
    /\ phase = [p \in Instances |-> "unused"]
    /\ failed = {}
    /\ everSent = {}

-----------------------------------------------------------------------------
(* The ubus methods add_player, remove_device and remove_all_devices only   *)
(* queue a command.                                                         *)
SendCommand(c) ==
    /\ sent < MaxCommands
    /\ sent' = sent + 1
    /\ commandQ' = Append(commandQ, c)
    /\ UNCHANGED <<threadVars, errorsQ, readyQ, playerVars>>

-----------------------------------------------------------------------------
(* Player objects.                                                          *)

\* Player:init ... the hello reply, the stream connecting, the stop reply.
InitAdvance(p) ==
    /\ phase[p] \in {"hello", "stream"}
    /\ phase' = [phase EXCEPT ![p] = IF @ = "hello" THEN "stream" ELSE "stop"]
    /\ UNCHANGED <<threadVars, errorsQ, readyQ, commandQ, sent, owner, failed>>

\* Mistaken variant: the callback hands over the id, not the Player.
InitDoneMutant(p) ==
    /\ phase[p] = "stop"
    /\ phase' = [phase EXCEPT ![p] = "ready"]
    /\ readyQ' = Append(readyQ, owner[p])
    /\ UNCHANGED <<threadVars, errorsQ, commandQ, sent, owner, failed>>

\* Player:_init2's stop succeeded: on_ready(player).
InitDone(p) ==
    /\ phase[p] = "stop"
    /\ phase' = [phase EXCEPT ![p] = "ready"]
    /\ readyQ' = Append(readyQ, p)
    /\ UNCHANGED <<threadVars, errorsQ, commandQ, sent, owner, failed>>

\* A failed hello or stop: Device:call reports on_error first, which sets
\* has_error and queues the error, so that _init_error has nothing left to do.
InitCallFails(p) ==
    /\ phase[p] \in {"hello", "stop"}
    /\ phase' = [phase EXCEPT ![p] = "dead"]
    /\ failed' = failed \cup {p}
    /\ errorsQ' = Append(errorsQ, p)
    /\ UNCHANGED <<threadVars, readyQ, commandQ, sent, owner>>

\* Mistaken variant: the failed Player itself is passed to on_ready.
InitStreamFailsMutant(p) ==
    /\ phase[p] = "stream"
    /\ phase' = [phase EXCEPT ![p] = "dead"]
    /\ failed' = failed \cup {p}
    /\ errorsQ' = Append(errorsQ, p)
    /\ readyQ' = Append(readyQ, p)
    /\ UNCHANGED <<threadVars, commandQ, sent, owner>>

\* The stream does not connect: _init_error(true) reports the device error
\* (which queues the player's error) and then calls on_ready(nil).
InitStreamFails(p) ==
    /\ phase[p] = "stream"
    /\ phase' = [phase EXCEPT ![p] = "dead"]
    /\ failed' = failed \cup {p}
    /\ errorsQ' = Append(errorsQ, p)
    /\ readyQ' = Append(readyQ, None)
    /\ UNCHANGED <<threadVars, commandQ, sent, owner>>

\* A thread that was handed the player makes a call that fails: the device's
\* error handler runs Player:_on_error, once per player, even after it left
\* the table.
PlayerCallFails(p) ==
    /\ p \in everSent \ failed
    /\ failed' = failed \cup {p}
    /\ errorsQ' = Append(errorsQ, p)
    /\ UNCHANGED <<threadVars, readyQ, commandQ, sent, owner, phase>>

\* A stream write fails, or a reply breaks the protocol: Player:_on_error first
\* reports a device error, whose handler is _on_error again, and has_error is
\* only tested before: the error is queued twice.
PlayerStreamFails(p) ==
    /\ p \in everSent \ failed
    /\ failed' = failed \cup {p}
    /\ errorsQ' = errorsQ \o <<p, p>>
    /\ UNCHANGED <<threadVars, readyQ, commandQ, sent, owner, phase>>

PlayerFails(p) == PlayerCallFails(p) \/ PlayerStreamFails(p)

-----------------------------------------------------------------------------
(* players_thread.                                                          *)

\* players_ch:put(shallowcopy(table)), with the debounce timer dropped.
Publish(table) ==
    /\ playersCh' = table
    /\ everSent' = everSent \cup Held(table)
    /\ timer' = "none"

\* The debounce timer's callback puts a value in the thread's channel.
TimerFires ==
    /\ timer = "armed"
    /\ timer' = "fired"
    /\ UNCHANGED <<players, playersCh, errorsQ, readyQ, commandQ, sent,
                   playerVars, everSent>>

\* Mistaken variant: any Player of the same id counts as the one that failed.
IsCurrentMutant(p) == players[owner[p]] # None

IsCurrent(p) == players[owner[p]] = p

\* Mistaken variant: the table changes and nothing is published.
HandleErrorMutant ==
    /\ errorsQ # <<>>
    /\ errorsQ' = Tail(errorsQ)
    /\ players' = [players EXCEPT ![owner[Head(errorsQ)]] =
                       IF IsCurrent(Head(errorsQ)) THEN None ELSE @]
    /\ UNCHANGED <<playersCh, timer, everSent, readyQ, commandQ, sent, playerVars>>

HandleError ==
    /\ errorsQ # <<>>
    /\ errorsQ' = Tail(errorsQ)
    /\ LET p == Head(errorsQ) IN
         \/ /\ IsCurrent(p)
            /\ players' = [players EXCEPT ![owner[p]] = None]
            /\ Publish(players')
         \/ /\ ~IsCurrent(p)      \* stale player, or none to remove
            /\ UNCHANGED threadVars
    /\ UNCHANGED <<readyQ, commandQ, sent, playerVars>>

\* Mistaken variant: the arrival does not start the debounce timer.
HandleReadyMutant ==
    /\ errorsQ = <<>>
    /\ readyQ # <<>>
    /\ readyQ' = Tail(readyQ)
    /\ players' = IF Head(readyQ) = None THEN players
                  ELSE [players EXCEPT ![owner[Head(readyQ)]] = Head(readyQ)]
    /\ UNCHANGED <<playersCh, timer, everSent, errorsQ, commandQ, sent, playerVars>>

HandleReady ==
    /\ errorsQ = <<>>
    /\ readyQ # <<>>
    /\ readyQ' = Tail(readyQ)
    /\ LET p == Head(readyQ) IN
         \/ /\ p # None
            /\ players' = [players EXCEPT ![owner[p]] = p]
            /\ timer' = "armed"
            /\ UNCHANGED <<playersCh, everSent>>
         \/ /\ p = None
            /\ UNCHANGED threadVars
    /\ UNCHANGED <<errorsQ, commandQ, sent, playerVars>>

\* add_player: nothing for an id that is present, else a new Player whose
\* hello is under way.
AddPlayer(id) ==
    \/ /\ players[id] # None
       /\ UNCHANGED playerVars
    \/ /\ players[id] = None
       /\ \E p \in Instances :
            /\ phase[p] = "unused"
            /\ owner' = [owner EXCEPT ![p] = id]
            /\ phase' = [phase EXCEPT ![p] = "hello"]
       /\ UNCHANGED failed

\* Mistaken variant: the removal drops the debounce timer without publishing.
RemovePlayerMutant(id) ==
    /\ players' = [players EXCEPT ![id] = None]
    /\ timer' = "none"
    /\ UNCHANGED <<playersCh, everSent>>

RemovePlayer(id) ==
    \/ /\ players[id] = None
       /\ UNCHANGED threadVars
    \/ /\ players[id] # None
       /\ players' = [players EXCEPT ![id] = None]
       /\ Publish(players')

RemoveAllPlayers ==
    /\ players' = [id \in Ids |-> None]
    /\ Publish(players')

HandleCommand ==
    /\ errorsQ = <<>>
    /\ readyQ = <<>>
    /\ commandQ # <<>>
    /\ commandQ' = Tail(commandQ)
    /\ LET c == Head(commandQ) IN
         \/ c.method = "add_player" /\ AddPlayer(c.id) /\ UNCHANGED threadVars
         \/ c.method = "remove_player" /\ RemovePlayer(c.id) /\ UNCHANGED playerVars
         \/ c.method = "remove_all_players" /\ RemoveAllPlayers /\ UNCHANGED playerVars
    /\ UNCHANGED <<errorsQ, readyQ, sent>>

HandleTimeout ==
    /\ errorsQ = <<>>
    /\ readyQ = <<>>
    /\ commandQ = <<>>
    /\ timer = "fired"
    /\ Publish(players)
    /\ UNCHANGED <<players, errorsQ, readyQ, commandQ, sent, playerVars>>

ThreadStep == HandleError \/ HandleReady \/ HandleCommand \/ HandleTimeout

PlayerStep(p) == \/ InitAdvance(p) \/ InitDone(p)
                 \/ InitCallFails(p) \/ InitStreamFails(p)

Next ==
    \/ \E c \in Commands : SendCommand(c)
    \/ \E p \in Instances : PlayerStep(p) \/ PlayerFails(p)
    \/ TimerFires
    \/ ThreadStep

\* The thread is resumed after every put; timers fire; a ubus call is
\* answered or times out.
Fairness ==
    /\ WF_vars(ThreadStep)
    /\ WF_vars(TimerFires)
    /\ \A p \in Instances : WF_vars(PlayerStep(p))

Spec == Init /\ [][Next]_vars /\ Fairness

-----------------------------------------------------------------------------
(* Properties.                                                              *)

\* The other threads are never left with an outdated table: either players_ch
\* last carried exactly the thread's table, or the debounce timer is running
\* (or has fired) and will publish it.
PublishedOrPending == playersCh = players \/ timer # "none"

\* A Player that failed is on its way out: while the table still holds it,
\* its error is queued.  The error queue is served before the ready queue,
\* and this must not let an error overtake the player's own arrival.
FailedIsLeaving ==
    \A p \in Held(players) \cap failed : \E i \in 1..Len(errorsQ) : errorsQ[i] = p

\* An error only ever takes out the very Player that failed: a step that
\* removes a healthy Player serves a command, or replaces it by a newer one.
OnlyFailedPlayersAreDropped ==
    [][errorsQ # <<>> /\ errorsQ' = Tail(errorsQ)
         => \A p \in Held(players) \ Held(players') : p \in failed]_vars

\* Every failure is noticed everywhere: the table the other threads last got
\* eventually stops handing out a failed Player.
FailuresArePublished ==
    \A p \in Instances :
        (p \in failed /\ p \in Held(playersCh)) ~> (p \notin Held(playersCh))

\* A Player that connected and entered the table is eventually handed out,
\* however often later arrivals restart the debounce timer, unless it is
\* removed or replaced first.
ConnectedIsPublished ==
    \A p \in Instances :
        (p \in Held(players)) ~> (p \in everSent \/ p \notin Held(players))
=============================================================================
