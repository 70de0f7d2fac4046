---------------------------- MODULE ManagerDevice ----------------------------
(* How the manager keeps one remote device connected: beepmanager_device.lua *)
(* over lib/device.lua, and urelay, which holds the TCP connection.          *)
(*                                                                           *)
(* The manager knows a device under several interfaces (addresses), each of  *)
(* them a Device object with a connection state of its own.  It tries one at *)
(* a time, confirms it with a get_state, and tells its owner, the grouping,  *)
(* that the device is ready or dead.  urelay has at most one connection per  *)
(* device id, whichever interface asked for it.                              *)
(*                                                                           *)
(* The manager is one thread: every callback runs to its end, calls of the   *)
(* Device and of the manager nesting in each other, and is one step.  Such a *)
(* callback is a function of the manager's state, m, and is composed of the  *)
(* functions that the code calls.  ubus keeps the order of the calls to      *)
(* urelay and of what urelay sends back.  A call that urelay does not answer *)
(* fails after 15 seconds, the oldest first.                                 *)
EXTENDS Integers, Sequences, SequencesExt, FiniteSetsExt

CONSTANTS Interfaces,   \* Device objects
          Ip,           \* their addresses
          None,
          MaxFinds,     \* bound on discovery's announcements
          MaxReports,   \* bound on its removals and on other daemons' errors
          MaxCalls      \* bound on unanswered calls when a retry is due

ASSUME NoneIsNoInterface == None \notin Interfaces
ASSUME InterfacesHaveAddresses == DOMAIN Ip = Interfaces
ASSUME BoundsAssumption == {MaxFinds, MaxReports, MaxCalls} \subseteq Nat

VARIABLES m,         \* the manager's state
          client,    \* urelay's outgoing_client for this device
          inbox,     \* what urelay has sent and the manager not yet read
          finds, reports

relay == <<client, inbox>>
world == <<finds, reports>>
vars == <<m, relay, world>>

DeviceStates == {"DISCONNECTED", "CONNECTING", "CONNECTED", "DISCONNECTING"}
States == {"INIT", "CONNECTING", "CONFIRMING", "CONFIRMING_TRANSIENT", "READY", "DEAD"}
Ops == {"connect", "disconnect", "confirm", "subscribe"}

NoClient == [interface |-> None, is_connected |-> FALSE]

(* calls: in the order they were made, the calls that have no answer yet.    *)
(* "queued" is on its way to urelay, "held" is deferred by it, "dropped" is  *)
(* one that urelay freed or whose connection it closed.  A connect is        *)
(* current as long as connect_seq has not moved on.                          *)
Init ==
  /\ m = [state |-> "INIT", interfaces |-> << >>, active |-> None, timers |-> 0,
          dev |-> [i \in Interfaces |-> "DISCONNECTED"],
          reconnect |-> [i \in Interfaces |-> FALSE],
          removed |-> [i \in Interfaces |-> FALSE],
          trying |-> [i \in Interfaces |-> FALSE],
          calls |-> << >>,
          used |-> {},          \* the interfaces handed to on_ready so far
          told |-> "dead",      \* what the owner heard last
          listed |-> FALSE,     \* grouping's devices[id]
          strayed |-> FALSE]    \* history, see OnConnectFailed and OnDisconnected
  /\ client = NoClient /\ inbox = << >>
  /\ finds = 0 /\ reports = 0
-----------------------------------------------------------------------------
(* lib/device.lua *)

Send(s, op, i) ==
  [s EXCEPT !.calls = Append(@, [op |-> op, interface |-> i, at |-> "queued", current |-> TRUE])]

\* connect_seq + 1 makes the earlier connects of this Device stale.
Outdate(calls, i) ==
  [n \in DOMAIN calls |->
     IF calls[n].op = "connect" /\ calls[n].interface = i
     THEN [calls[n] EXCEPT !.current = FALSE] ELSE calls[n]]

\* Mutant: a connect during a disconnect is forgotten.
DeviceConnectMutant(s, i) ==
  IF s.dev[i] = "DISCONNECTED"
  THEN Send([s EXCEPT !.dev[i] = "CONNECTING", !.calls = Outdate(@, i)], "connect", i)
  ELSE s

DeviceConnect(s, i) ==
  CASE s.dev[i] = "DISCONNECTED" ->
         Send([s EXCEPT !.dev[i] = "CONNECTING", !.calls = Outdate(@, i)], "connect", i)
    [] s.dev[i] = "DISCONNECTING" -> [s EXCEPT !.reconnect[i] = TRUE]
    [] OTHER -> s

DeviceDisconnect(s, i) ==
  IF s.dev[i] \in {"CONNECTED", "CONNECTING"}
  THEN Send([s EXCEPT !.dev[i] = "DISCONNECTING"], "disconnect", i)
  ELSE s

\* Not CONNECTED: done_cb(nil), which _confirm_handler and subscribe ignore.
DeviceCall(s, op, i) == IF s.dev[i] = "CONNECTED" THEN Send(s, op, i) ELSE s
-----------------------------------------------------------------------------
(* beepmanager_device.lua *)

DoConfirm(s) == DeviceCall(s, "confirm", s.active)

\* Mutant: the interface is put at the end and not taken from the front.
OnInterfaceDeadMutant(s, late) ==
  [DeviceDisconnect([s EXCEPT !.state = "DEAD"], s.active)
     EXCEPT !.interfaces = Append(@, s.active), !.active = None, !.timers = @ + 1]

\* late: INTERFACE_EXPIRE_SECS have passed since the first attempt.
OnInterfaceDead(s, late) ==
  LET i == s.active
      rest == Tail(s.interfaces)
      expires == late /\ s.trying[i] /\ s.removed[i]
  IN  [DeviceDisconnect([s EXCEPT !.state = "DEAD"], i)
         EXCEPT !.interfaces = IF expires THEN rest ELSE Append(rest, i),
                !.active = None, !.timers = @ + 1]

\* on_dead: the grouping forgets the device.
OnDead(s) == [s EXCEPT !.told = "dead", !.listed = FALSE]

\* Mutant: the owner is not told when a transient confirmation fails.
OnInterfaceErrorMutant(s, i, late) ==
  IF i # s.active \/ i = None THEN s ELSE
  IF s.state = "READY" THEN DoConfirm(OnDead([s EXCEPT !.state = "CONFIRMING"]))
  ELSE OnInterfaceDead(s, late)

OnInterfaceError(s, i, late) ==
  IF i # s.active \/ i = None THEN s ELSE
  CASE s.state \in {"CONNECTING", "CONFIRMING"} -> OnInterfaceDead(s, late)
    [] s.state = "READY" -> DoConfirm(OnDead([s EXCEPT !.state = "CONFIRMING"]))
    [] s.state = "CONFIRMING_TRANSIENT" -> OnInterfaceDead(OnDead(s), late)

ConnectNextInterface(s) ==
  IF s.active = None /\ s.interfaces # << >>
  THEN LET i == Head(s.interfaces) IN
       DeviceConnect([s EXCEPT !.active = i, !.state = "CONNECTING", !.trying[i] = TRUE], i)
  ELSE s

\* on_ready: the grouping subscribes, which asks for the state at once.
OnReady(s) ==
  DeviceCall([s EXCEPT !.told = "ready", !.used = @ \cup {s.active}], "subscribe", s.active)

\* answer: the id it holds is the "right" or a "wrong" one, or it is "invalid".
ConfirmHandler(s, answer, late) ==
  LET t == IF answer = "right" THEN s ELSE OnInterfaceError(s, s.active, late) IN
  CASE answer # "invalid" /\ t.state = "CONFIRMING" ->
         OnReady([t EXCEPT !.state = "READY", !.trying[t.active] = FALSE])
    [] answer # "invalid" /\ t.state = "CONFIRMING_TRANSIENT" -> [t EXCEPT !.state = "READY"]
    [] OTHER -> t

OnInterfaceConnected(s, i) ==
  IF i = s.active /\ s.state = "CONNECTING"
  THEN DoConfirm([s EXCEPT !.state = "CONFIRMING"]) ELSE s
-----------------------------------------------------------------------------
(* The callbacks of the calls *)

OnConnected(s, call) ==
  LET i == call.interface IN
  IF s.dev[i] = "CONNECTING" /\ call.current
  THEN OnInterfaceConnected([s EXCEPT !.dev[i] = "CONNECTED"], i) ELSE s

\* A stray: the failure of an old attempt ends the connection made since.
OnConnectFailed(s, call, late) ==
  LET i == call.interface
      stray == ~call.current /\ s.dev[i] \in {"CONNECTING", "CONNECTED"}
  IN  DeviceDisconnect(OnInterfaceError([s EXCEPT !.strayed = @ \/ stray], i, late), i)

\* A stray: the Device connects again although it is no longer asked to.
OnDisconnected(s, i) ==
  LET stray == s.reconnect[i] /\ ~(s.active = i /\ s.state = "CONNECTING")
      t == [s EXCEPT !.dev[i] = "DISCONNECTED", !.reconnect[i] = FALSE,
                     !.strayed = @ \/ stray]
  IN  IF s.reconnect[i] THEN DeviceConnect(t, i) ELSE t

\* Mutant: a subscription that fails is not reported to on_error.
OnAnswerMutant(s, call, result, late) ==
  CASE call.op = "connect" ->
         IF result = "failed" THEN OnConnectFailed(s, call, late) ELSE OnConnected(s, call)
    [] call.op = "disconnect" -> OnDisconnected(s, call.interface)
    [] call.op = "confirm" /\ result = "failed" -> OnInterfaceError(s, call.interface, late)
    [] call.op = "confirm" /\ result # "failed" -> ConfirmHandler(s, result, late)
    [] call.op = "subscribe" -> [s EXCEPT !.listed = @ \/ result # "failed"]

\* result: "failed", or what the answer holds.
OnAnswer(s, call, result, late) ==
  CASE call.op = "connect" ->
         IF result = "failed" THEN OnConnectFailed(s, call, late) ELSE OnConnected(s, call)
    [] call.op = "disconnect" -> OnDisconnected(s, call.interface)
    [] call.op \in {"confirm", "subscribe"} /\ result = "failed" ->
         OnInterfaceError(s, call.interface, late)
    [] call.op = "confirm" /\ result # "failed" -> ConfirmHandler(s, result, late)
    [] call.op = "subscribe" /\ result # "failed" -> [s EXCEPT !.listed = TRUE]

\* The manager reads an answer, or urelay's beep.device.error.
HandleMessage ==
  /\ inbox # << >>
  /\ inbox' = Tail(inbox)
  /\ \E late \in BOOLEAN :
       LET msg == Head(inbox) IN
       m' = CASE msg.kind = "answer" -> OnAnswer(m, msg.call, msg.result, late)
              [] OTHER -> IF m.active # None /\ Ip[m.active] = Ip[msg.interface]
                          THEN OnInterfaceError(m, m.active, late) ELSE m
  /\ UNCHANGED <<client, world>>

\* The 15 seconds of the oldest call are over.
CallTimesOut ==
  /\ m.calls # << >> /\ Head(m.calls).at # "queued"
  /\ \E late \in BOOLEAN :
       m' = OnAnswer([m EXCEPT !.calls = Tail(@)], Head(m.calls), "failed", late)
  /\ UNCHANGED <<relay, world>>

RetryTimer ==
  /\ m.timers > 0 /\ Len(m.calls) < MaxCalls
  /\ LET s == [m EXCEPT !.timers = @ - 1] IN
     m' = IF s.state = "DEAD" THEN ConnectNextInterface(s) ELSE s
  /\ UNCHANGED <<relay, world>>

\* beep.device.add.  An unknown address gets a new Device; one that was tried
\* and is not in the list has expired.
AddInterface(address) ==
  LET known == {i \in ToSet(m.interfaces) : Ip[i] = address}
      new == {i \in Interfaces \ ToSet(m.interfaces) : Ip[i] = address /\ ~m.trying[i]}
  IN  /\ finds < MaxFinds
      /\ known \cup new # {}
      /\ LET i == CHOOSE i \in IF known = {} THEN new ELSE known : TRUE IN
         m' = ConnectNextInterface(
                [m EXCEPT !.removed[i] = FALSE,
                          !.interfaces = IF known = {} THEN Append(@, i) ELSE @])
      /\ finds' = finds + 1
      /\ UNCHANGED <<relay, reports>>

\* beep.device.delete
NotifyDiscoveryRemoval(i) ==
  /\ reports < MaxReports /\ i \in ToSet(m.interfaces)
  /\ LET s == [m EXCEPT !.removed[i] = TRUE] IN
     m' = IF m.active = i /\ m.state = "READY"
          THEN DoConfirm([s EXCEPT !.state = "CONFIRMING_TRANSIENT"]) ELSE s
  /\ reports' = reports + 1
  /\ UNCHANGED <<relay, finds>>

\* beep.device.error of a daemon that was given this interface at some time.
NotifyDeviceError(i) ==
  /\ reports < MaxReports /\ i \in m.used
  /\ \E late \in BOOLEAN :
       m' = IF m.active # None /\ Ip[m.active] = Ip[i]
            THEN OnInterfaceError(m, m.active, late) ELSE m
  /\ reports' = reports + 1
  /\ UNCHANGED <<relay, finds>>
-----------------------------------------------------------------------------
(* urelay-client.c *)

Error(i) == [kind |-> "error", interface |-> i]
Reply(call, result) ==
  [kind |-> "answer", call |-> [call EXCEPT !.at = "answered"], result |-> result]

Held(call) == call.at = "held"
HeldConnect(call) == Held(call) /\ call.op = "connect"

\* A set of positions in their order.
InOrder(ns) ==
  {f \in [1 .. Cardinality(ns) -> ns] : \A a, b \in DOMAIN f : a < b => f[a] < f[b]}

\* The deferred connects are answered, the latest first.
AnswerConnects(result) ==
  LET these == {n \in DOMAIN m.calls : HeldConnect(m.calls[n])} IN
  \E f \in InOrder(these), g \in InOrder(DOMAIN m.calls \ these) :
    /\ inbox' = inbox \o [n \in DOMAIN f |-> Reply(m.calls[Reverse(f)[n]], result)]
    /\ m' = [m EXCEPT !.calls = [n \in DOMAIN g |-> @[g[n]]]]

\* del_outgoing_client frees the deferred connects without an answer, and the
\* answers to deferred invokes would have come over the closed connection.
del_outgoing_client(calls) ==
  [n \in DOMAIN calls |-> IF Held(calls[n]) THEN [calls[n] EXCEPT !.at = "dropped"] ELSE calls[n]]

\* ubusd passes a client's requests on in order, and libubus in urelay, which
\* makes no call that waits, serves them as it reads them.
Queued == {n \in DOMAIN m.calls : m.calls[n].at = "queued"}
Serves(op) == Queued # {} /\ m.calls[Min(Queued)].op \in op
Served == m.calls[Min(Queued)]

Answer(calls, result) ==
  /\ inbox' = Append(inbox, Reply(Served, result))
  /\ m' = [m EXCEPT !.calls = RemoveAt(calls, Min(Queued))]

Hold == m' = [m EXCEPT !.calls[Min(Queued)].at = "held"] /\ UNCHANGED inbox

\* A connection or an attempt at one is shared, whatever its address.
relay_connect ==
  /\ Serves({"connect"})
  /\ IF client.is_connected THEN Answer(m.calls, "right") /\ UNCHANGED client
     ELSE \/ Hold /\ client' = IF client = NoClient
                               THEN [client EXCEPT !.interface = Served.interface] ELSE client
          \/ client = NoClient /\ Answer(m.calls, "failed") /\ UNCHANGED client
  /\ UNCHANGED world

relay_disconnect ==
  /\ Serves({"disconnect"})
  /\ client' = NoClient
  /\ Answer(IF client = NoClient THEN m.calls ELSE del_outgoing_client(m.calls), "right")
  /\ UNCHANGED world

relay_invoke ==
  /\ Serves({"confirm", "subscribe"})
  /\ \/ ~client.is_connected /\ Answer(m.calls, "failed")
     \/ client.is_connected /\ (Hold \/ Answer(m.calls, "failed"))
  /\ UNCHANGED <<client, world>>

connect_ready ==
  /\ client # NoClient /\ ~client.is_connected
  /\ client' = [client EXCEPT !.is_connected = TRUE]
  /\ AnswerConnects("right")
  /\ UNCHANGED world

connect_failed ==
  /\ client # NoClient /\ ~client.is_connected
  /\ client' = NoClient
  /\ AnswerConnects("failed")
  /\ UNCHANGED world

\* The device answers a call, or fails it.
handle_response(n) ==
  /\ n \in DOMAIN m.calls /\ Held(m.calls[n]) /\ ~HeldConnect(m.calls[n])
  /\ \E result \in {"right", "failed"} \cup (IF m.calls[n].op = "confirm" THEN {"wrong", "invalid"} ELSE {}) :
       inbox' = Append(inbox, Reply(m.calls[n], result))
  /\ m' = [m EXCEPT !.calls = RemoveAt(@, n)]
  /\ UNCHANGED <<client, world>>

\* Mutant: the connection breaks and no beep.device.error is sent.
out_client_state_cbMutant ==
  /\ client.is_connected
  /\ client' = NoClient
  /\ m' = [m EXCEPT !.calls = del_outgoing_client(@)]
  /\ UNCHANGED <<inbox, world>>

\* The connection breaks.
out_client_state_cb ==
  /\ client.is_connected
  /\ client' = NoClient
  /\ m' = [m EXCEPT !.calls = del_outgoing_client(@)]
  /\ inbox' = Append(inbox, Error(client.interface))
  /\ UNCHANGED world

Manager == HandleMessage \/ CallTimesOut \/ RetryTimer

Events ==
  \/ \E i \in Interfaces : NotifyDiscoveryRemoval(i) \/ NotifyDeviceError(i)
  \/ \E address \in Range(Ip) : AddInterface(address)

Relay == relay_connect \/ relay_disconnect \/ relay_invoke

Network ==
  \/ connect_ready \/ connect_failed \/ out_client_state_cb
  \/ \E n \in 1 .. Len(m.calls) : handle_response(n)

Next == Manager \/ Events \/ Relay \/ Network

Spec == Init /\ [][Next]_vars

(* The manager and urelay run, and ubus gives up a call that is not answered *)
(* and fires its timers.  Nothing is assumed of the network.                 *)
Fairness ==
  /\ WF_vars(HandleMessage) /\ WF_vars(Relay)
  /\ WF_vars(CallTimesOut) /\ WF_vars(RetryTimer)

FairSpec == Spec /\ Fairness
-----------------------------------------------------------------------------
(* The manager's fields, urelay's client and the messages between the two    *)
(* have their types.                                                         *)
TypeOK ==
  /\ m.state \in States /\ m.active \in Interfaces \cup {None}
  /\ m.interfaces \in Seq(Interfaces) /\ \A a, b \in DOMAIN m.interfaces : m.interfaces[a] = m.interfaces[b] => a = b
  /\ m.dev \in [Interfaces -> DeviceStates]
  /\ {m.reconnect, m.removed, m.trying} \subseteq [Interfaces -> BOOLEAN]
  /\ m.timers \in 0 .. MaxFinds + 1
  /\ m.calls \in Seq([op : Ops, interface : Interfaces, at : {"queued", "held", "dropped"},
                      current : BOOLEAN])
  /\ client.interface \in Interfaces \cup {None}

(* "we call on_ready when an interface moves into the READY state; we call   *)
(* on_dead when an interface leaves the READY state": the owner hears the    *)
(* two in turn, whatever state a late callback finds the manager in.         *)
OwnerHearsInTurn ==
  /\ m.told = "ready" <=> m.state \in {"READY", "CONFIRMING_TRANSIENT"}
  /\ m.active = None <=> m.state \in {"INIT", "DEAD"}
  /\ m.active # None => m.active = Head(m.interfaces)

InProgress(op, i) ==
  \/ \E n \in DOMAIN m.calls : m.calls[n].op = op /\ m.calls[n].interface = i /\ m.calls[n].current
  \/ \E n \in DOMAIN inbox : /\ inbox[n].kind = "answer" /\ inbox[n].call.op = op
                             /\ inbox[n].call.interface = i /\ inbox[n].call.current

(* In CONFIRMING there is a get_state that will be answered or time out:     *)
(* when a confirmation fails, "we'll have been notified of the error via     *)
(* self._on_interface_error".                                                *)
ConfirmIsUnderWay ==
  m.state \in {"CONFIRMING", "CONFIRMING_TRANSIENT"} => InProgress("confirm", m.active)

(* The manager never waits for something that will not come: a confirmation, *)
(* a connect or the disconnect before it, or the retry timer is on its way.  *)
(* Strays are excepted: a Device that was disconnected by the failure of an  *)
(* attempt it had given up, or that connects when nobody asks it to.         *)
NeverStuck ==
  m.strayed \/
  /\ ConfirmIsUnderWay
  /\ m.state = "CONNECTING" =>
       \/ m.dev[m.active] = "CONNECTING" /\ InProgress("connect", m.active)
       \/ /\ m.dev[m.active] = "DISCONNECTING" /\ m.reconnect[m.active]
          /\ InProgress("disconnect", m.active)
  /\ m.state = "DEAD" /\ m.interfaces # << >> => m.timers > 0

(* A device the owner takes for ready is connected, by the address that the  *)
(* owner passes on, or the manager has yet to read that the connection broke. *)
ReadyIsConnected ==
  m.told = "ready" /\ ~m.strayed =>
    \/ client.is_connected /\ client.interface = m.active
    \/ \E n \in DOMAIN inbox : inbox[n] = Error(m.active)

(* A device that is announced ready gets into the grouping's table, or is    *)
(* announced dead.                                                           *)
ReadyIsListed == m.told = "ready" ~> m.listed \/ m.told = "dead" \/ m.strayed
=============================================================================
