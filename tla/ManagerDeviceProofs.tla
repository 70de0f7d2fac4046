------------------------- MODULE ManagerDeviceProofs -------------------------
(* What ManagerDevice proves for any number of interfaces, announcements and *)
(* reports: its type invariant, that the owner of a device hears on_ready    *)
(* and on_dead in turn, that the manager never waits for something that will *)
(* not come, and that a device it calls ready is connected.                  *)
EXTENDS ManagerDevice, SequenceTheorems, FiniteSetTheorems, WellFoundedInduction, TLAPS

Calls == [op : Ops, interface : Interfaces, at : {"queued", "held", "dropped"},
          current : BOOLEAN]
Managers ==
  [state : States, interfaces : Seq(Interfaces), active : Interfaces \cup {None}, timers : Nat,
   dev : [Interfaces -> DeviceStates], reconnect : [Interfaces -> BOOLEAN],
   removed : [Interfaces -> BOOLEAN], trying : [Interfaces -> BOOLEAN], calls : Seq(Calls),
   used : SUBSET Interfaces, told : {"ready", "dead"}, listed : BOOLEAN, strayed : BOOLEAN]

Distinct(list) == \A a, b \in 1 .. Len(list) : list[a] = list[b] => a = b

(* The invariant of a manager's state between two callbacks: the active      *)
(* interface is the first of the list, the owner hears the two in turn.      *)
InTurn(s) ==
  /\ s \in Managers /\ Distinct(s.interfaces)
  /\ s.active # None => s.interfaces # << >> /\ s.active = Head(s.interfaces)
  /\ s.told = "ready" <=> s.state \in {"READY", "CONFIRMING_TRANSIENT"}
  /\ s.active = None <=> s.state \in {"INIT", "DEAD"}

\* t is s but for the connections of the interfaces and the pending calls.
Kept(s, t) ==
  /\ t.state = s.state /\ t.interfaces = s.interfaces /\ t.active = s.active
  /\ t.told = s.told /\ t.timers = s.timers /\ (t.strayed <=> s.strayed)

Call(op, i) == [op |-> op, interface |-> i, at |-> "queued", current |-> TRUE]
-----------------------------------------------------------------------------
(* A state with other connections and other calls. *)
LEMMA WithType ==
  ASSUME NEW s \in Managers, NEW d \in [Interfaces -> DeviceStates], NEW c \in Seq(Calls)
  PROVE  LET t == [s EXCEPT !.dev = d, !.calls = c] IN
         t \in Managers /\ t.dev = d /\ t.calls = c /\ t.reconnect = s.reconnect /\ Kept(s, t)
  BY DEF Managers, Kept

(* A call is sent. *)
LEMMA Sends ==
  ASSUME NEW s \in Managers, NEW op \in Ops, NEW i \in Interfaces,
         NEW d \in [Interfaces -> DeviceStates], NEW c \in Seq(Calls)
  PROVE  LET t == Send([s EXCEPT !.dev = d, !.calls = c], op, i) IN
         /\ t \in Managers /\ t.dev = d /\ t.calls = Append(c, Call(op, i))
         /\ t.reconnect = s.reconnect /\ Kept(s, t)
  <1> DEFINE call == Call(op, i)
             q == Append(c, call)
             u == [s EXCEPT !.dev = d, !.calls = c]
  <1>1. call \in Calls
    BY DEF Call, Calls
  <1> HIDE DEF call
  <1>2. q \in Seq(Calls)
    BY <1>1, AppendProperties
  <1>3. u \in Managers /\ u.dev = d /\ u.calls = c /\ u.reconnect = s.reconnect /\ Kept(s, u)
    BY WithType
  <1>4. Send(u, op, i) = [u EXCEPT !.calls = q]
    BY <1>3 DEF Send, call, Call
  <1>5. [u EXCEPT !.calls = q] = [s EXCEPT !.dev = d, !.calls = q]
    BY DEF Managers
  <1> HIDE DEF u, q
  <1>6. LET t == [s EXCEPT !.dev = d, !.calls = q] IN
        t \in Managers /\ t.dev = d /\ t.calls = q /\ t.reconnect = s.reconnect /\ Kept(s, t)
    BY <1>2, WithType
  <1> QED BY <1>4, <1>5, <1>6 DEF q, u, call

(* A stale connect is still a call. *)
LEMMA OutdateType ==
  ASSUME NEW c \in Seq(Calls), NEW i \in Interfaces
  PROVE  /\ Outdate(c, i) \in Seq(Calls) /\ Len(Outdate(c, i)) = Len(c)
         /\ \A n \in 1 .. Len(c) : Outdate(c, i)[n] =
              IF c[n].op = "connect" /\ c[n].interface = i
              THEN [c[n] EXCEPT !.current = FALSE] ELSE c[n]
  <1>1. DOMAIN c = 1 .. Len(c) /\ Len(c) \in Nat /\ \A n \in 1 .. Len(c) : c[n] \in Calls
    BY LenProperties, ElementOfSeq
  <1> DEFINE Old(n) == IF c[n].op = "connect" /\ c[n].interface = i
                       THEN [c[n] EXCEPT !.current = FALSE] ELSE c[n]
  <1>2. \A n \in 1 .. Len(c) : Old(n) \in Calls
    BY <1>1 DEF Calls
  <1>3. Outdate(c, i) = [n \in 1 .. Len(c) |-> Old(n)]
    BY <1>1 DEF Outdate
  <1> HIDE DEF Old
  <1>4. [n \in 1 .. Len(c) |-> Old(n)] \in Seq(Calls)
    BY <1>1, <1>2, IsASeq
  <1>5. Len([n \in 1 .. Len(c) |-> Old(n)]) = Len(c)
    BY <1>1, <1>4, LenProperties
  <1> QED BY <1>3, <1>4, <1>5 DEF Old

(* What a Device's connect does in each of its states. *)
LEMMA DeviceConnects ==
  ASSUME NEW s \in Managers, NEW i \in Interfaces
  PROVE  LET t == DeviceConnect(s, i) IN
         /\ t \in Managers /\ Kept(s, t)
         /\ s.dev[i] = "DISCONNECTED" =>
              /\ t.dev = [s.dev EXCEPT ![i] = "CONNECTING"] /\ t.reconnect = s.reconnect
              /\ t.calls = Append(Outdate(s.calls, i), Call("connect", i))
         /\ s.dev[i] = "DISCONNECTING" =>
              /\ t.reconnect = [s.reconnect EXCEPT ![i] = TRUE]
              /\ t.dev = s.dev /\ t.calls = s.calls
         /\ s.dev[i] \notin {"DISCONNECTED", "DISCONNECTING"} => t = s
  <1>1. CASE s.dev[i] = "DISCONNECTED"
    <2> DEFINE d == [s.dev EXCEPT ![i] = "CONNECTING"]
               o == Outdate(s.calls, i)
    <2>1. d \in [Interfaces -> DeviceStates] /\ o \in Seq(Calls) /\ "connect" \in Ops
      BY OutdateType DEF Managers, DeviceStates, Ops
    <2>2. DeviceConnect(s, i) = Send([s EXCEPT !.dev = d, !.calls = o], "connect", i)
      BY <1>1 DEF DeviceConnect
    <2> HIDE DEF d, o
    <2>3. LET t == Send([s EXCEPT !.dev = d, !.calls = o], "connect", i) IN
          /\ t \in Managers /\ t.dev = d /\ t.calls = Append(o, Call("connect", i))
          /\ t.reconnect = s.reconnect /\ Kept(s, t)
      BY <2>1, Sends
    <2> QED BY <1>1, <2>2, <2>3 DEF d, o
  <1>2. CASE s.dev[i] = "DISCONNECTING"
    <2> DEFINE r == [s.reconnect EXCEPT ![i] = TRUE]
    <2>1. r \in [Interfaces -> BOOLEAN]
      BY DEF Managers
    <2>2. DeviceConnect(s, i) = [s EXCEPT !.reconnect = r]
      BY <1>2 DEF DeviceConnect
    <2> HIDE DEF r
    <2>3. LET t == [s EXCEPT !.reconnect = r] IN
          /\ t \in Managers /\ Kept(s, t) /\ t.reconnect = r
          /\ t.dev = s.dev /\ t.calls = s.calls
      BY <2>1 DEF Managers, Kept
    <2> QED BY <1>2, <2>2, <2>3 DEF r
  <1>3. CASE s.dev[i] \notin {"DISCONNECTED", "DISCONNECTING"}
    BY <1>3 DEF DeviceConnect, Kept
  <1> QED BY <1>1, <1>2, <1>3

(* What its disconnect does, and an invoke. *)
LEMMA DeviceDisconnects ==
  ASSUME NEW s \in Managers, NEW i \in Interfaces
  PROVE  LET t == DeviceDisconnect(s, i) IN
         /\ t \in Managers /\ Kept(s, t) /\ t.reconnect = s.reconnect
         /\ s.dev[i] \in {"CONNECTED", "CONNECTING"} =>
              /\ t.dev = [s.dev EXCEPT ![i] = "DISCONNECTING"]
              /\ t.calls = Append(s.calls, Call("disconnect", i))
         /\ s.dev[i] \notin {"CONNECTED", "CONNECTING"} => t = s
  <1>1. CASE s.dev[i] \in {"CONNECTED", "CONNECTING"}
    <2> DEFINE d == [s.dev EXCEPT ![i] = "DISCONNECTING"]
               o == s.calls
    <2>1. d \in [Interfaces -> DeviceStates] /\ o \in Seq(Calls) /\ "disconnect" \in Ops
      BY DEF Managers, DeviceStates, Ops
    <2>2. [s EXCEPT !.dev[i] = "DISCONNECTING"] = [s EXCEPT !.dev = d, !.calls = o]
      BY DEF Managers
    <2>3. DeviceDisconnect(s, i) = Send([s EXCEPT !.dev = d, !.calls = o], "disconnect", i)
      BY <1>1, <2>2 DEF DeviceDisconnect
    <2> HIDE DEF d, o
    <2>4. LET t == Send([s EXCEPT !.dev = d, !.calls = o], "disconnect", i) IN
          /\ t \in Managers /\ t.dev = d /\ t.calls = Append(o, Call("disconnect", i))
          /\ t.reconnect = s.reconnect /\ Kept(s, t)
      BY <2>1, Sends
    <2> QED BY <1>1, <2>3, <2>4 DEF d, o
  <1>2. CASE s.dev[i] \notin {"CONNECTED", "CONNECTING"}
    BY <1>2 DEF DeviceDisconnect, Kept
  <1> QED BY <1>1, <1>2

(* An invoke is sent by a connected Device only. *)
LEMMA DeviceCalls ==
  ASSUME NEW s \in Managers, NEW i \in Interfaces, NEW op \in Ops
  PROVE  LET t == DeviceCall(s, op, i) IN
         /\ t \in Managers /\ Kept(s, t) /\ t.reconnect = s.reconnect /\ t.dev = s.dev
         /\ s.dev[i] = "CONNECTED" => t.calls = Append(s.calls, Call(op, i))
         /\ s.dev[i] # "CONNECTED" => t = s
  <1>1. CASE s.dev[i] = "CONNECTED"
    <2> DEFINE d == s.dev
               o == s.calls
    <2>1. d \in [Interfaces -> DeviceStates] /\ o \in Seq(Calls)
      BY DEF Managers
    <2>2. s = [s EXCEPT !.dev = d, !.calls = o]
      BY DEF Managers
    <2>3. DeviceCall(s, op, i) = Send([s EXCEPT !.dev = d, !.calls = o], op, i)
      BY <1>1, <2>2 DEF DeviceCall
    <2> HIDE DEF d, o
    <2>4. LET t == Send([s EXCEPT !.dev = d, !.calls = o], op, i) IN
          /\ t \in Managers /\ t.dev = d /\ t.calls = Append(o, Call(op, i))
          /\ t.reconnect = s.reconnect /\ Kept(s, t)
      BY <2>1, Sends
    <2> QED BY <1>1, <2>3, <2>4 DEF d, o
  <1>2. CASE s.dev[i] # "CONNECTED"
    BY <1>2 DEF DeviceCall, Kept
  <1> QED BY <1>1, <1>2
-----------------------------------------------------------------------------
(* What happens to the fields other than the list of interfaces, removed,    *)
(* trying, used and listed, in terms of the state s before and t after.      *)

\* The Device of i has disconnected, if it had anything to disconnect.
Ends(s, t, i) ==
  /\ t.reconnect = s.reconnect
  /\ s.dev[i] \in {"CONNECTED", "CONNECTING"} =>
       /\ t.dev = [s.dev EXCEPT ![i] = "DISCONNECTING"]
       /\ t.calls = Append(s.calls, Call("disconnect", i))
  /\ s.dev[i] \notin {"CONNECTED", "CONNECTING"} => t.dev = s.dev /\ t.calls = s.calls

\* The Device of i has sent a call, if it is connected.
Invokes(s, t, op, i) ==
  /\ t.reconnect = s.reconnect /\ t.dev = s.dev
  /\ s.dev[i] = "CONNECTED" => t.calls = Append(s.calls, Call(op, i))
  /\ s.dev[i] # "CONNECTED" => t.calls = s.calls

\* The manager has stayed with its interface.
Stays(s, t) ==
  /\ t.interfaces = s.interfaces /\ t.active = s.active
  /\ t.timers = s.timers /\ (t.strayed <=> s.strayed)

\* The active interface was given up.
Dies(s, t) ==
  /\ t.state = "DEAD" /\ t.active = None /\ t.timers = s.timers + 1
  /\ (t.strayed <=> s.strayed) /\ Ends(s, t, s.active)

\* A ready interface is confirmed again.
Rechecks(s, t) ==
  /\ t.state = "CONFIRMING" /\ Stays(s, t) /\ Invokes(s, t, "confirm", s.active)

\* A confirmation has succeeded.
Readies(s, t) ==
  /\ t.state = "READY" /\ Stays(s, t)
  /\ t.reconnect = s.reconnect /\ t.dev = s.dev
  /\ \/ t.calls = s.calls
     \/ t.calls = Append(s.calls, Call("subscribe", s.active))

\* The first interface is tried.
Tries(s, t) ==
  /\ t.state = "CONNECTING" /\ t.active = Head(s.interfaces) /\ t.interfaces = s.interfaces
  /\ t.timers = s.timers /\ (t.strayed <=> s.strayed)
  /\ s.dev[t.active] = "DISCONNECTED" =>
       /\ t.dev = [s.dev EXCEPT ![t.active] = "CONNECTING"] /\ t.reconnect = s.reconnect
       /\ t.calls = Append(Outdate(s.calls, t.active), Call("connect", t.active))
  /\ s.dev[t.active] = "DISCONNECTING" =>
       /\ t.reconnect = [s.reconnect EXCEPT ![t.active] = TRUE]
       /\ t.dev = s.dev /\ t.calls = s.calls

(* A list without its first interface, or with it at the end, is a list of   *)
(* different interfaces; so is one with a new interface at the end.          *)
LEMMA Lists ==
  ASSUME NEW list \in Seq(Interfaces), Distinct(list)
  PROVE  /\ list # << >> => /\ Head(list) \in Interfaces
                            /\ Tail(list) \in Seq(Interfaces) /\ Distinct(Tail(list))
                            /\ Append(Tail(list), Head(list)) \in Seq(Interfaces)
                            /\ Distinct(Append(Tail(list), Head(list)))
         /\ \A i \in Interfaces :
              /\ Append(list, i) \in Seq(Interfaces) /\ Append(list, i) # << >>
              /\ list # << >> => Head(Append(list, i)) = Head(list)
              /\ i \notin ToSet(list) => Distinct(Append(list, i))
  <1>1. Len(list) \in Nat /\ DOMAIN list = 1 .. Len(list)
    BY LenProperties
  <1>2. ASSUME NEW i \in Interfaces
        PROVE  /\ Append(list, i) \in Seq(Interfaces) /\ Append(list, i) # << >>
               /\ list # << >> => Head(Append(list, i)) = Head(list)
               /\ i \notin ToSet(list) => Distinct(Append(list, i))
    <2>1. /\ Append(list, i) \in Seq(Interfaces) /\ Append(list, i) # << >>
          /\ Len(Append(list, i)) = Len(list) + 1
          /\ \A a \in 1 .. Len(list) : Append(list, i)[a] = list[a]
          /\ Append(list, i)[Len(list) + 1] = i
      BY AppendProperties
    <2>2. list # << >> => Head(Append(list, i)) = Head(list)
      BY <2>1, HeadTailProperties
    <2>3. i \notin ToSet(list) => \A a \in 1 .. Len(list) : list[a] # i
      BY <1>1 DEF ToSet
    <2>4. i \notin ToSet(list) => Distinct(Append(list, i))
      BY <1>1, <2>1, <2>3 DEF Distinct
    <2> QED BY <2>1, <2>2, <2>4
  <1>3. ASSUME list # << >>
        PROVE  /\ Head(list) \in Interfaces
               /\ Tail(list) \in Seq(Interfaces) /\ Distinct(Tail(list))
               /\ Append(Tail(list), Head(list)) \in Seq(Interfaces)
               /\ Distinct(Append(Tail(list), Head(list)))
    <2> DEFINE rest == Tail(list)
               i == Head(list)
    <2>1. /\ i \in Interfaces /\ rest \in Seq(Interfaces) /\ i = list[1]
          /\ Len(rest) = Len(list) - 1 /\ Len(list) \in Nat \ {0}
          /\ \A a \in 1 .. Len(rest) : rest[a] = list[a + 1]
      BY <1>1, <1>3, HeadTailProperties, EmptySeq
    <2> HIDE DEF rest, i
    <2>2. Len(rest) \in Nat
      BY <2>1
    <2>3. Distinct(rest) /\ \A a \in 1 .. Len(rest) : rest[a] # i
      BY <1>1, <2>1, <2>2 DEF Distinct
    <2>4. /\ Append(rest, i) \in Seq(Interfaces)
          /\ Len(Append(rest, i)) = Len(rest) + 1
          /\ \A a \in 1 .. Len(rest) : Append(rest, i)[a] = rest[a]
          /\ Append(rest, i)[Len(rest) + 1] = i
      BY <2>1, AppendProperties
    <2>5. Distinct(Append(rest, i))
      BY <2>2, <2>3, <2>4 DEF Distinct
    <2> QED BY <2>1, <2>3, <2>4, <2>5 DEF rest, i
  <1> QED BY <1>2, <1>3

(* An interface that is given up goes to the end of the list or from it, and *)
(* the manager has no active one.                                            *)
LEMMA InterfaceDead ==
  ASSUME NEW s \in Managers, NEW late, Distinct(s.interfaces), s.active # None,
         s.interfaces # << >>, s.active = Head(s.interfaces), s.told = "dead"
  PROVE  InTurn(OnInterfaceDead(s, late)) /\ Dies(s, OnInterfaceDead(s, late))
  <1> DEFINE i == s.active
             expires == late /\ s.trying[i] /\ s.removed[i]
             u == [s EXCEPT !.state = "DEAD"]
             d == DeviceDisconnect(u, i)
             list == IF expires THEN Tail(s.interfaces) ELSE Append(Tail(s.interfaces), i)
             k == d.timers + 1
             t == [d EXCEPT !.interfaces = list, !.active = None, !.timers = k]
  <1>1. OnInterfaceDead(s, late) = t
    BY DEF OnInterfaceDead
  <1>2. list \in Seq(Interfaces) /\ Distinct(list) /\ i \in Interfaces
    <2>1. s.interfaces \in Seq(Interfaces)
      BY DEF Managers
    <2>2. /\ Head(s.interfaces) \in Interfaces
          /\ Tail(s.interfaces) \in Seq(Interfaces) /\ Distinct(Tail(s.interfaces))
          /\ Append(Tail(s.interfaces), Head(s.interfaces)) \in Seq(Interfaces)
          /\ Distinct(Append(Tail(s.interfaces), Head(s.interfaces)))
      BY <2>1, Lists
    <2> QED BY <2>2
  <1>3. /\ u \in Managers /\ u.state = "DEAD" /\ u.told = "dead" /\ u.timers = s.timers
        /\ (u.strayed <=> s.strayed) /\ u.dev = s.dev /\ u.calls = s.calls
        /\ u.reconnect = s.reconnect
    BY DEF Managers, States
  <1> HIDE DEF u
  <1>4. /\ d \in Managers /\ Kept(u, d) /\ d.reconnect = u.reconnect
        /\ u.dev[i] \in {"CONNECTED", "CONNECTING"} =>
             /\ d.dev = [u.dev EXCEPT ![i] = "DISCONNECTING"]
             /\ d.calls = Append(u.calls, Call("disconnect", i))
        /\ u.dev[i] \notin {"CONNECTED", "CONNECTING"} => d = u
    BY <1>2, <1>3, DeviceDisconnects
  <1>5. Ends(s, d, i)
    BY <1>3, <1>4 DEF Ends
  <1>6. k \in Nat /\ k = s.timers + 1
    BY <1>3, <1>4 DEF Managers, Kept
  <1> HIDE DEF d, list, k
  <1>7. /\ t \in Managers /\ t.state = d.state /\ t.told = d.told /\ t.interfaces = list
        /\ t.active = None /\ t.timers = k /\ (t.strayed <=> d.strayed) /\ t.dev = d.dev
        /\ t.calls = d.calls /\ t.reconnect = d.reconnect
    BY <1>2, <1>4, <1>6 DEF Managers
  <1> HIDE DEF t
  <1>8. InTurn(t)
    BY <1>2, <1>3, <1>4, <1>7 DEF InTurn, Kept
  <1>9. Ends(s, t, i)
    BY <1>5, <1>7 DEF Ends
  <1>10. Dies(s, t)
    BY <1>3, <1>4, <1>6, <1>7, <1>9 DEF Dies, Kept
  <1> QED BY <1>1, <1>8, <1>10

(* An error of the active interface: the owner hears on_dead exactly when it *)
(* had heard on_ready, and a late error of another interface changes nothing. *)
LEMMA InterfaceError ==
  ASSUME NEW s, NEW i, NEW late, InTurn(s)
  PROVE  LET t == OnInterfaceError(s, i, late) IN
         /\ InTurn(t)
         /\ i # s.active \/ i = None => t = s
         /\ i = s.active /\ i # None =>
              IF s.state = "READY" THEN Rechecks(s, t) ELSE Dies(s, t)
  <1> USE DEF InTurn
  <1>1. CASE i # s.active \/ i = None
    BY <1>1 DEF OnInterfaceError
  <1>2. CASE ~(i # s.active \/ i = None) /\ s.state \in {"CONNECTING", "CONFIRMING"}
    <2>1. s.active # None /\ s.told = "dead"
      BY <1>2 DEF Managers
    <2>2. InTurn(OnInterfaceDead(s, late)) /\ Dies(s, OnInterfaceDead(s, late))
      BY <2>1, InterfaceDead
    <2>3. OnInterfaceError(s, i, late) = OnInterfaceDead(s, late)
      BY <1>2 DEF OnInterfaceError
    <2> QED BY <1>2, <2>2, <2>3
  <1>3. CASE ~(i # s.active \/ i = None) /\ s.state = "READY"
    <2> DEFINE u == OnDead([s EXCEPT !.state = "CONFIRMING"])
    <2>1. /\ u \in Managers /\ u.state = "CONFIRMING" /\ u.told = "dead"
          /\ u.interfaces = s.interfaces /\ u.active = s.active /\ u.timers = s.timers
          /\ (u.strayed <=> s.strayed) /\ u.dev = s.dev /\ u.calls = s.calls
          /\ u.reconnect = s.reconnect
      BY DEF OnDead, Managers, States
    <2>2. OnInterfaceError(s, i, late) = DoConfirm(u)
      BY <1>3 DEF OnInterfaceError
    <2> HIDE DEF u
    <2>3. u.active \in Interfaces /\ "confirm" \in Ops
      BY <1>3, <2>1 DEF Managers, Ops
    <2> DEFINE t == DeviceCall(u, "confirm", u.active)
    <2>4. /\ t \in Managers /\ Kept(u, t) /\ t.reconnect = u.reconnect /\ t.dev = u.dev
          /\ u.dev[u.active] = "CONNECTED" => t.calls = Append(u.calls, Call("confirm", u.active))
          /\ u.dev[u.active] # "CONNECTED" => t = u
      BY <2>1, <2>3, DeviceCalls
    <2>5. DoConfirm(u) = t
      BY DEF DoConfirm
    <2> HIDE DEF t
    <2>6. InTurn(t)
      BY <1>3, <2>1, <2>4 DEF Kept
    <2>7. Rechecks(s, t)
      BY <2>1, <2>4 DEF Rechecks, Stays, Invokes, Kept
    <2> QED BY <1>3, <2>2, <2>5, <2>6, <2>7
  <1>4. CASE ~(i # s.active \/ i = None) /\ s.state = "CONFIRMING_TRANSIENT"
    <2> DEFINE u == OnDead(s)
    <2>1. /\ u \in Managers /\ u.told = "dead"
          /\ u.interfaces = s.interfaces /\ u.active = s.active /\ u.timers = s.timers
          /\ (u.strayed <=> s.strayed) /\ u.dev = s.dev /\ u.calls = s.calls
          /\ u.reconnect = s.reconnect
      BY DEF OnDead, Managers
    <2>2. OnInterfaceError(s, i, late) = OnInterfaceDead(u, late)
      BY <1>4 DEF OnInterfaceError
    <2> HIDE DEF u
    <2>3. InTurn(OnInterfaceDead(u, late)) /\ Dies(u, OnInterfaceDead(u, late))
      BY <1>4, <2>1, InterfaceDead
    <2> DEFINE t == OnInterfaceDead(u, late)
    <2> HIDE DEF t
    <2>4. InTurn(t) /\ Dies(u, t)
      BY <2>3 DEF t
    <2>5. Dies(s, t)
      BY <2>1, <2>4 DEF Dies, Ends
    <2> QED BY <1>4, <2>2, <2>4, <2>5 DEF t
  <1> QED BY <1>1, <1>2, <1>3, <1>4 DEF Managers, States

(* Connecting takes the first interface, and only when there is no active one. *)
LEMMA ConnectNext ==
  ASSUME NEW s, InTurn(s)
  PROVE  LET t == ConnectNextInterface(s) IN
         /\ InTurn(t)
         /\ IF s.active = None /\ s.interfaces # << >> THEN Tries(s, t) ELSE t = s
  <1>1. CASE ~(s.active = None /\ s.interfaces # << >>)
    BY <1>1 DEF ConnectNextInterface
  <1>2. CASE s.active = None /\ s.interfaces # << >>
    <2> DEFINE i == Head(s.interfaces)
               u == [s EXCEPT !.active = i, !.state = "CONNECTING", !.trying[i] = TRUE]
               t == DeviceConnect(u, i)
    <2>1. ConnectNextInterface(s) = t
      BY <1>2 DEF ConnectNextInterface
    <2>2. i \in Interfaces /\ i # None
      <3>1. s.interfaces \in Seq(Interfaces)
        BY DEF InTurn, Managers
      <3> QED BY <1>2, <3>1, HeadTailProperties, NoneIsNoInterface
    <2>3. /\ u \in Managers /\ u.state = "CONNECTING" /\ u.active = i /\ u.timers = s.timers
          /\ u.told = s.told /\ u.interfaces = s.interfaces /\ (u.strayed <=> s.strayed)
          /\ u.dev = s.dev /\ u.calls = s.calls /\ u.reconnect = s.reconnect
      BY <2>2 DEF InTurn, Managers, States
    <2> HIDE DEF u
    <2>4. /\ t \in Managers /\ Kept(u, t)
          /\ u.dev[i] = "DISCONNECTED" =>
               /\ t.dev = [u.dev EXCEPT ![i] = "CONNECTING"] /\ t.reconnect = u.reconnect
               /\ t.calls = Append(Outdate(u.calls, i), Call("connect", i))
          /\ u.dev[i] = "DISCONNECTING" =>
               /\ t.reconnect = [u.reconnect EXCEPT ![i] = TRUE]
               /\ t.dev = u.dev /\ t.calls = u.calls
      BY <2>2, <2>3, DeviceConnects
    <2> HIDE DEF t, i
    <2>5. InTurn(t)
      BY <1>2, <2>2, <2>3, <2>4 DEF InTurn, Kept, i
    <2>6. Tries(s, t)
      BY <2>3, <2>4 DEF Tries, Kept, i
    <2> QED BY <1>2, <2>1, <2>5, <2>6
  <1> QED BY <1>1, <1>2

(* A confirmed interface becomes ready; on_ready is called out of CONFIRMING *)
(* only.                                                                     *)
LEMMA Confirmed ==
  ASSUME NEW s, InTurn(s)
  PROVE  /\ s.state = "CONFIRMING" =>
              LET t == OnReady([s EXCEPT !.state = "READY", !.trying[s.active] = FALSE]) IN
              InTurn(t) /\ Readies(s, t)
         /\ s.state = "CONFIRMING_TRANSIENT" =>
              InTurn([s EXCEPT !.state = "READY"]) /\ Readies(s, [s EXCEPT !.state = "READY"])
  <1>1. CASE s.state = "CONFIRMING"
    <2> DEFINE r == [s EXCEPT !.state = "READY", !.trying[s.active] = FALSE]
               u == [r EXCEPT !.told = "ready", !.used = @ \cup {r.active}]
               t == DeviceCall(u, "subscribe", r.active)
    <2>0. s.active \in Interfaces
      BY <1>1 DEF InTurn, Managers
    <2>1. /\ r \in Managers /\ r.state = "READY" /\ r.timers = s.timers
          /\ r.interfaces = s.interfaces /\ r.active = s.active /\ (r.strayed <=> s.strayed)
          /\ r.dev = s.dev /\ r.calls = s.calls /\ r.reconnect = s.reconnect
      BY <2>0 DEF InTurn, Managers, States
    <2>2. OnReady(r) = t
      BY DEF OnReady
    <2> HIDE DEF r
    <2>3. /\ u \in Managers /\ u.state = "READY" /\ u.told = "ready" /\ u.timers = s.timers
          /\ u.interfaces = s.interfaces /\ u.active = s.active /\ (u.strayed <=> s.strayed)
          /\ u.dev = s.dev /\ u.calls = s.calls /\ u.reconnect = s.reconnect
      BY <2>0, <2>1 DEF Managers
    <2>4. "subscribe" \in Ops /\ r.active \in Interfaces
      BY <2>0, <2>1 DEF Ops
    <2> HIDE DEF u
    <2>5. /\ t \in Managers /\ Kept(u, t) /\ t.reconnect = u.reconnect /\ t.dev = u.dev
          /\ u.dev[r.active] = "CONNECTED" => t.calls = Append(u.calls, Call("subscribe", r.active))
          /\ u.dev[r.active] # "CONNECTED" => t = u
      BY <2>3, <2>4, DeviceCalls
    <2> HIDE DEF t
    <2>6. InTurn(t)
      BY <1>1, <2>3, <2>5 DEF InTurn, Kept
    <2>7. Readies(s, t)
      BY <2>1, <2>3, <2>5 DEF Readies, Stays, Kept
    <2> QED BY <1>1, <2>2, <2>6, <2>7 DEF r
  <1>2. CASE s.state = "CONFIRMING_TRANSIENT"
    <2> DEFINE t == [s EXCEPT !.state = "READY"]
    <2>1. /\ t \in Managers /\ t.state = "READY" /\ t.told = s.told /\ t.timers = s.timers
          /\ t.interfaces = s.interfaces /\ t.active = s.active /\ (t.strayed <=> s.strayed)
          /\ t.dev = s.dev /\ t.calls = s.calls /\ t.reconnect = s.reconnect
      BY DEF InTurn, Managers, States
    <2> HIDE DEF t
    <2>2. InTurn(t)
      BY <1>2, <2>1 DEF InTurn
    <2>3. Readies(s, t)
      BY <2>1 DEF Readies, Stays
    <2> QED BY <1>2, <2>2, <2>3 DEF t
  <1> QED BY <1>1, <1>2
-----------------------------------------------------------------------------
(* The calls under way: c are the ones without an answer, b is what the      *)
(* manager has yet to read.                                                  *)

Answered == [op : Ops, interface : Interfaces, at : {"answered"}, current : BOOLEAN]
Results == {"right", "wrong", "invalid", "failed"}
Messages == [kind : {"answer"}, call : Answered, result : Results]
              \cup [kind : {"error"}, interface : Interfaces]
Going == {"CONNECTING", "CONNECTED"}

Sent(c, n, op, i) == c[n].op = op /\ c[n].interface = i
Told(b, n, op, i) == b[n].kind = "answer" /\ b[n].call.op = op /\ b[n].call.interface = i

UnderWay(c, b, op, i) ==
  \/ \E n \in 1 .. Len(c) : Sent(c, n, op, i) /\ c[n].current
  \/ \E n \in 1 .. Len(b) : Told(b, n, op, i) /\ b[n].call.current

\* A disconnect is answered at once, and a connect is only outdated when urelay
\* has dropped it.
Marked(c, b) ==
  /\ \A n \in 1 .. Len(c) :
       /\ c[n].op = "disconnect" => c[n].at = "queued"
       /\ ~c[n].current => c[n].op = "connect" /\ c[n].at = "dropped"
  /\ \A n \in 1 .. Len(b) : b[n].kind = "answer" => b[n].call.current

\* A Device has at most one current connect and one disconnect.
Single(c, b) ==
  \A op \in {"connect", "disconnect"}, i \in Interfaces :
    /\ \A n, k \in 1 .. Len(c) :
         Sent(c, n, op, i) /\ c[n].current /\ Sent(c, k, op, i) /\ c[k].current => n = k
    /\ \A n, k \in 1 .. Len(b) : Told(b, n, op, i) /\ Told(b, k, op, i) => n = k
    /\ \A n \in 1 .. Len(c), k \in 1 .. Len(b) :
         ~(Sent(c, n, op, i) /\ c[n].current /\ Told(b, k, op, i))

\* The connects of i were dropped, and none is answered.
AllDropped(c, i) == \A n \in 1 .. Len(c) : Sent(c, n, "connect", i) => c[n].at = "dropped"
NoneTold(b, i) == \A n \in 1 .. Len(b) : ~Told(b, n, "connect", i)

\* What may be under way in the states of a Device.
ByState(dev, c, b) ==
  \A i \in Interfaces :
    /\ dev[i] # "DISCONNECTING" => ~UnderWay(c, b, "disconnect", i)
    /\ dev[i] = "CONNECTED" => ~UnderWay(c, b, "connect", i)
    /\ dev[i] = "DISCONNECTED" => AllDropped(c, i) /\ NoneTold(b, i)

\* A disconnect is behind the connects of its Device, and when it is answered
\* they are answered or dropped.
Behind(c, b) ==
  \A i \in Interfaces :
    /\ \A k, n \in 1 .. Len(c) :
         Sent(c, k, "disconnect", i) /\ Sent(c, n, "connect", i) => n < k
    /\ \A k \in 1 .. Len(b) : Told(b, k, "disconnect", i) =>
         /\ \A n \in 1 .. Len(b) : Told(b, n, "connect", i) => n < k
         /\ AllDropped(c, i)

Safe(dev, c, b) == Marked(c, b) /\ Single(c, b) /\ ByState(dev, c, b) /\ Behind(c, b)

\* What urelay has yet to connect and disconnect ends with the connect of the
\* interface in use.
Ordered(dev, c) ==
  \A i \in Interfaces : dev[i] \in Going =>
    \A k \in 1 .. Len(c) :
      c[k].at = "queued" /\ c[k].op \in {"connect", "disconnect"} =>
        \E n \in 1 .. Len(c) :
          k <= n /\ Sent(c, n, "connect", i) /\ c[n].current /\ c[n].at = "queued"

\* urelay (its client is cl) defers connects until it is connected, and the
\* invokes from then on.
Deferred(c, cl) ==
  \A n \in 1 .. Len(c) :
    c[n].at = "held" => cl # NoClient /\ (c[n].op = "connect" <=> ~cl.is_connected)
-----------------------------------------------------------------------------
(* The calls with one more at the end. *)
LEMMA SendFacts ==
  ASSUME NEW c \in Seq(Calls), NEW op \in Ops, NEW i \in Interfaces
  PROVE  LET q == Append(c, Call(op, i)) IN
         /\ q \in Seq(Calls) /\ Len(c) \in Nat /\ Len(q) = Len(c) + 1
         /\ \A n \in 1 .. Len(c) : q[n] = c[n] /\ c[n] \in Calls
         /\ q[Len(q)].op = op /\ q[Len(q)].interface = i /\ q[Len(q)].at = "queued"
         /\ q[Len(q)].current
  <1>1. Call(op, i) \in Calls
    BY DEF Call, Calls
  <1>2. Len(c) \in Nat /\ \A n \in 1 .. Len(c) : c[n] \in Calls
    BY LenProperties, ElementOfSeq
  <1> DEFINE q == Append(c, Call(op, i))
  <1>3. /\ q \in Seq(Calls) /\ Len(q) = Len(c) + 1
        /\ \A n \in 1 .. Len(c) : q[n] = c[n]
        /\ q[Len(c) + 1] = Call(op, i)
    BY <1>1, AppendProperties
  <1> HIDE DEF q
  <1>4. q[Len(q)] = Call(op, i)
    BY <1>3
  <1> QED BY <1>2, <1>3, <1>4 DEF Call, q

(* What is under way stays so when a call is sent. *)
LEMMA SendKeepsUnderWay ==
  ASSUME NEW c \in Seq(Calls), NEW b, NEW op \in Ops, NEW i \in Interfaces
  PROVE  LET q == Append(c, Call(op, i)) IN
         /\ UnderWay(q, b, op, i)
         /\ \A o, j : UnderWay(c, b, o, j) => UnderWay(q, b, o, j)
         /\ \A o, j : UnderWay(q, b, o, j) => UnderWay(c, b, o, j) \/ (o = op /\ j = i)
  <1> DEFINE q == Append(c, Call(op, i))
  <1>1. /\ Len(c) \in Nat /\ Len(q) = Len(c) + 1
        /\ \A n \in 1 .. Len(c) : q[n] = c[n]
        /\ q[Len(q)].op = op /\ q[Len(q)].interface = i /\ q[Len(q)].current
    BY SendFacts
  <1> HIDE DEF q
  <1>2. UnderWay(q, b, op, i)
    BY <1>1 DEF UnderWay, Sent
  <1>3. \A o, j : UnderWay(c, b, o, j) => UnderWay(q, b, o, j)
    BY <1>1 DEF UnderWay, Sent
  <1>4. \A o, j : UnderWay(q, b, o, j) => UnderWay(c, b, o, j) \/ (o = op /\ j = i)
    BY <1>1 DEF UnderWay, Sent
  <1> QED BY <1>2, <1>3, <1>4 DEF q

(* The calls that urelay has deferred stay the same when a call is sent. *)
LEMMA SendKeepsDeferred ==
  ASSUME NEW c \in Seq(Calls), NEW cl, NEW op \in Ops, NEW i \in Interfaces, Deferred(c, cl)
  PROVE  /\ Deferred(Append(c, Call(op, i)), cl)
         /\ Deferred(Append(Outdate(c, i), Call(op, i)), cl)
  <1>1. ASSUME NEW p \in Seq(Calls), Deferred(p, cl)
        PROVE  Deferred(Append(p, Call(op, i)), cl)
    <2> DEFINE q == Append(p, Call(op, i))
    <2>1. /\ Len(p) \in Nat /\ Len(q) = Len(p) + 1 /\ \A n \in 1 .. Len(p) : q[n] = p[n]
          /\ q[Len(q)].at = "queued"
      BY SendFacts
    <2> HIDE DEF q
    <2> QED BY <1>1, <2>1 DEF Deferred, q
  <1> DEFINE p == Outdate(c, i)
  <1>2. /\ p \in Seq(Calls) /\ Len(p) = Len(c)
        /\ \A n \in 1 .. Len(c) : p[n] = IF c[n].op = "connect" /\ c[n].interface = i
                                         THEN [c[n] EXCEPT !.current = FALSE] ELSE c[n]
    BY OutdateType
  <1>3. \A n \in 1 .. Len(c) : c[n] \in Calls
    BY ElementOfSeq
  <1> HIDE DEF p
  <1>4. \A n \in 1 .. Len(c) : p[n].op = c[n].op /\ p[n].at = c[n].at
    BY <1>2, <1>3 DEF Calls
  <1>5. Deferred(p, cl)
    BY <1>2, <1>4 DEF Deferred
  <1> QED BY <1>1, <1>2, <1>5 DEF p

(* A get_state or a subscription is sent. *)
LEMMA SafeInvoke ==
  ASSUME NEW dev, NEW c \in Seq(Calls), NEW b, NEW op \in {"confirm", "subscribe"},
         NEW i \in Interfaces, Safe(dev, c, b)
  PROVE  LET q == Append(c, Call(op, i)) IN
         Safe(dev, q, b) /\ (Ordered(dev, c) => Ordered(dev, q))
  <1> DEFINE q == Append(c, Call(op, i))
  <1>0. op \in Ops /\ op \notin {"connect", "disconnect"}
    BY DEF Ops
  <1>1. /\ Len(c) \in Nat /\ Len(q) = Len(c) + 1
        /\ \A n \in 1 .. Len(c) : q[n] = c[n]
        /\ q[Len(q)].op = op /\ q[Len(q)].interface = i /\ q[Len(q)].current
    BY <1>0, SendFacts
  <1>2. \A o, j : UnderWay(q, b, o, j) => UnderWay(c, b, o, j) \/ (o = op /\ j = i)
    BY <1>0, SendKeepsUnderWay
  <1> HIDE DEF q
  <1>3. Marked(q, b)
    BY <1>0, <1>1 DEF Safe, Marked
  <1>4. Single(q, b)
    BY <1>0, <1>1 DEF Safe, Single, Sent
  <1>5. \A j \in Interfaces : AllDropped(c, j) => AllDropped(q, j)
    BY <1>0, <1>1 DEF AllDropped, Sent
  <1>6. ByState(dev, q, b)
    BY <1>0, <1>2, <1>5 DEF Safe, ByState
  <1>7. Behind(q, b)
    BY <1>0, <1>1, <1>5 DEF Safe, Behind, Sent
  <1>8. Ordered(dev, c) => Ordered(dev, q)
    BY <1>0, <1>1 DEF Ordered, Sent
  <1> QED BY <1>3, <1>4, <1>6, <1>7, <1>8 DEF Safe, q

(* A disconnect is sent. *)
LEMMA SafeDisconnect ==
  ASSUME NEW dev \in [Interfaces -> DeviceStates], NEW c \in Seq(Calls), NEW b,
         NEW i \in Interfaces, Safe(dev, c, b), dev[i] \in Going
  PROVE  Safe([dev EXCEPT ![i] = "DISCONNECTING"], Append(c, Call("disconnect", i)), b)
  <1> DEFINE q == Append(c, Call("disconnect", i))
             d == [dev EXCEPT ![i] = "DISCONNECTING"]
  <1>0. "disconnect" \in Ops
    BY DEF Ops
  <1>1. /\ Len(c) \in Nat /\ Len(q) = Len(c) + 1
        /\ \A n \in 1 .. Len(c) : q[n] = c[n]
        /\ q[Len(q)].op = "disconnect" /\ q[Len(q)].interface = i /\ q[Len(q)].current
        /\ q[Len(q)].at = "queued"
    BY <1>0, SendFacts
  <1>2. \A o, j : UnderWay(q, b, o, j) => UnderWay(c, b, o, j) \/ (o = "disconnect" /\ j = i)
    BY <1>0, SendKeepsUnderWay
  <1>3. d[i] = "DISCONNECTING" /\ \A j \in Interfaces : j # i => d[j] = dev[j]
    OBVIOUS
  <1>4. ~UnderWay(c, b, "disconnect", i)
    BY DEF Safe, ByState, Going
  <1> HIDE DEF q, d
  <1>5. /\ \A n \in 1 .. Len(c) : ~(Sent(c, n, "disconnect", i) /\ c[n].current)
        /\ \A n \in 1 .. Len(b) : ~Told(b, n, "disconnect", i)
    BY <1>4 DEF Safe, UnderWay, Marked, Told
  <1>6. Marked(q, b)
    BY <1>1 DEF Safe, Marked
  <1>7. Single(q, b)
    BY <1>1, <1>5 DEF Safe, Single, Sent
  <1>8. \A j \in Interfaces : AllDropped(c, j) => AllDropped(q, j)
    BY <1>1 DEF AllDropped, Sent
  <1>9. ByState(d, q, b)
    BY <1>2, <1>3, <1>8 DEF Safe, ByState
  <1>10. Behind(q, b)
    BY <1>1, <1>5, <1>8 DEF Safe, Behind, Sent
  <1> QED BY <1>6, <1>7, <1>9, <1>10 DEF Safe, q, d

(* A connect is sent: the earlier ones of the Device were dropped and are    *)
(* outdated by it.                                                           *)
LEMMA SafeConnect ==
  ASSUME NEW dev \in [Interfaces -> DeviceStates], NEW c \in Seq(Calls), NEW b,
         NEW i \in Interfaces, Safe(dev, c, b), dev[i] = "DISCONNECTED"
  PROVE  LET q == Append(Outdate(c, i), Call("connect", i))
             d == [dev EXCEPT ![i] = "CONNECTING"]
         IN  /\ Safe(d, q, b) /\ UnderWay(q, b, "connect", i)
             /\ \A o \in Ops, j \in Interfaces :
                  UnderWay(c, b, o, j) => UnderWay(q, b, o, j)
             /\ \A k \in 1 .. Len(q) :
                  k <= Len(q) /\ q[Len(q)].at = "queued" /\ q[Len(q)].current
                  /\ Sent(q, Len(q), "connect", i)
  <1> DEFINE p == Outdate(c, i)
             q == Append(p, Call("connect", i))
             d == [dev EXCEPT ![i] = "CONNECTING"]
  <1>0. "connect" \in Ops
    BY DEF Ops
  <1>1. /\ p \in Seq(Calls) /\ Len(p) = Len(c)
        /\ \A n \in 1 .. Len(c) : p[n] = IF c[n].op = "connect" /\ c[n].interface = i
                                         THEN [c[n] EXCEPT !.current = FALSE] ELSE c[n]
    BY OutdateType
  <1>2. Len(c) \in Nat /\ \A n \in 1 .. Len(c) : c[n] \in Calls
    BY LenProperties, ElementOfSeq
  <1>3. \A n \in 1 .. Len(c) :
          /\ p[n].op = c[n].op /\ p[n].interface = c[n].interface /\ p[n].at = c[n].at
          /\ p[n].current => c[n].current
          /\ c[n].op = "connect" /\ c[n].interface = i => ~p[n].current
          /\ ~(c[n].op = "connect" /\ c[n].interface = i) => p[n] = c[n]
    BY <1>1, <1>2 DEF Calls
  <1> HIDE DEF p
  <1>4. /\ Len(q) = Len(c) + 1
        /\ \A n \in 1 .. Len(c) : q[n] = p[n]
        /\ q[Len(q)].op = "connect" /\ q[Len(q)].interface = i /\ q[Len(q)].current
        /\ q[Len(q)].at = "queued"
    BY <1>0, <1>1, SendFacts
  <1> HIDE DEF q
  <1>5. d[i] = "CONNECTING" /\ \A j \in Interfaces : j # i => d[j] = dev[j]
    OBVIOUS
  <1> HIDE DEF d
  <1>6. AllDropped(c, i) /\ NoneTold(b, i) /\ ~UnderWay(c, b, "disconnect", i)
    BY DEF Safe, ByState
  <1>7. \A n \in 1 .. Len(c) : ~(Sent(c, n, "disconnect", i) /\ c[n].current)
    BY <1>6 DEF UnderWay
  <1>8. \A n \in 1 .. Len(c) : ~Sent(c, n, "disconnect", i)
    BY <1>2, <1>7 DEF Safe, Marked, Sent
  <1>9. \A n \in 1 .. Len(b) : ~Told(b, n, "disconnect", i)
    BY <1>6 DEF Safe, UnderWay, Marked, Told
  <1>10. Marked(q, b)
    BY <1>2, <1>3, <1>4, <1>6 DEF Safe, Marked, AllDropped, Sent
  <1>11. Single(q, b)
    <2> SUFFICES ASSUME NEW op \in {"connect", "disconnect"}, NEW j \in Interfaces
                 PROVE  /\ \A n, k \in 1 .. Len(q) : Sent(q, n, op, j) /\ q[n].current
                             /\ Sent(q, k, op, j) /\ q[k].current => n = k
                        /\ \A n, k \in 1 .. Len(b) : Told(b, n, op, j) /\ Told(b, k, op, j) => n = k
                        /\ \A n \in 1 .. Len(q), k \in 1 .. Len(b) :
                             ~(Sent(q, n, op, j) /\ q[n].current /\ Told(b, k, op, j))
      BY DEF Single
    <2>1. CASE op = "connect" /\ j = i
      BY <1>2, <1>3, <1>4, <1>6, <2>1 DEF Sent, NoneTold
    <2>2. CASE ~(op = "connect" /\ j = i)
      BY <1>2, <1>3, <1>4, <2>2 DEF Safe, Single, Sent
    <2> QED BY <2>1, <2>2
  <1>12. \A j \in Interfaces : j # i /\ AllDropped(c, j) => AllDropped(q, j)
    BY <1>2, <1>3, <1>4 DEF AllDropped, Sent
  <1>13. \A o, j : UnderWay(q, b, o, j) => UnderWay(c, b, o, j) \/ (o = "connect" /\ j = i)
    BY <1>2, <1>3, <1>4 DEF UnderWay, Sent
  <1>14. ByState(d, q, b)
    BY <1>5, <1>6, <1>12, <1>13 DEF Safe, ByState
  <1>15. Behind(q, b)
    <2> SUFFICES ASSUME NEW j \in Interfaces
                 PROVE  /\ \A k, n \in 1 .. Len(q) :
                             Sent(q, k, "disconnect", j) /\ Sent(q, n, "connect", j) => n < k
                        /\ \A k \in 1 .. Len(b) : Told(b, k, "disconnect", j) =>
                             /\ \A n \in 1 .. Len(b) : Told(b, n, "connect", j) => n < k
                             /\ AllDropped(q, j)
      BY DEF Behind
    <2>1. CASE j = i
      BY <1>2, <1>3, <1>4, <1>8, <1>9, <2>1 DEF Sent
    <2>2. CASE j # i
      BY <1>2, <1>3, <1>4, <1>12, <2>2 DEF Safe, Behind, Sent
    <2> QED BY <2>1, <2>2
  <1>16. UnderWay(q, b, "connect", i)
    BY <1>2, <1>4 DEF UnderWay, Sent
  <1>17. ASSUME NEW o \in Ops, NEW j \in Interfaces, UnderWay(c, b, o, j)
         PROVE  UnderWay(q, b, o, j)
    <2>1. CASE o = "connect" /\ j = i
      BY <1>16, <2>1
    <2>2. CASE ~(o = "connect" /\ j = i)
      BY <1>2, <1>3, <1>4, <1>17, <2>2 DEF UnderWay, Sent
    <2> QED BY <2>1, <2>2
  <1>18. Safe(d, q, b)
    BY <1>10, <1>11, <1>14, <1>15 DEF Safe
  <1> QED BY <1>2, <1>4, <1>16, <1>17, <1>18 DEF q, d, p, Sent

(* The answer to the only connect under way was read. *)
LEMMA SafeConnected ==
  ASSUME NEW dev \in [Interfaces -> DeviceStates], NEW c, NEW b, NEW i \in Interfaces,
         Safe(dev, c, b), dev[i] = "CONNECTING", ~UnderWay(c, b, "connect", i)
  PROVE  Safe([dev EXCEPT ![i] = "CONNECTED"], c, b)
  BY DEF Safe, ByState

(* The answer to the disconnect was read. *)
LEMMA SafeDisconnected ==
  ASSUME NEW dev \in [Interfaces -> DeviceStates], NEW c, NEW b, NEW i \in Interfaces,
         Safe(dev, c, b), ~UnderWay(c, b, "disconnect", i), AllDropped(c, i), NoneTold(b, i)
  PROVE  Safe([dev EXCEPT ![i] = "DISCONNECTED"], c, b)
  BY DEF Safe, ByState

(* The first call, or the first message, is gone. *)
LEMMA SafeTails ==
  ASSUME NEW dev, NEW c \in Seq(Calls), NEW b \in Seq(Messages), Safe(dev, c, b)
  PROVE  /\ c # << >> => Safe(dev, Tail(c), b)
         /\ b # << >> => Safe(dev, c, Tail(b))
  <1>1. ASSUME c # << >> PROVE Safe(dev, Tail(c), b)
    <2> DEFINE q == Tail(c)
    <2>1. /\ Len(c) \in Nat \ {0} /\ Len(q) = Len(c) - 1
          /\ \A n \in 1 .. Len(q) : n + 1 \in 1 .. Len(c) /\ q[n] = c[n + 1]
      BY <1>1, HeadTailProperties, EmptySeq
    <2> HIDE DEF q
    <2>2. Marked(q, b)
      BY <2>1 DEF Safe, Marked
    <2>3. Single(q, b)
      <3> SUFFICES ASSUME NEW op \in {"connect", "disconnect"}, NEW i \in Interfaces
                   PROVE  /\ \A n, k \in 1 .. Len(q) : Sent(q, n, op, i) /\ q[n].current
                               /\ Sent(q, k, op, i) /\ q[k].current => n = k
                          /\ \A n, k \in 1 .. Len(b) :
                               Told(b, n, op, i) /\ Told(b, k, op, i) => n = k
                          /\ \A n \in 1 .. Len(q), k \in 1 .. Len(b) :
                               ~(Sent(q, n, op, i) /\ q[n].current /\ Told(b, k, op, i))
        BY DEF Single
      <3>1. /\ \A n, k \in 1 .. Len(c) : Sent(c, n, op, i) /\ c[n].current
                 /\ Sent(c, k, op, i) /\ c[k].current => n = k
            /\ \A n, k \in 1 .. Len(b) : Told(b, n, op, i) /\ Told(b, k, op, i) => n = k
            /\ \A n \in 1 .. Len(c), k \in 1 .. Len(b) :
                 ~(Sent(c, n, op, i) /\ c[n].current /\ Told(b, k, op, i))
        BY DEF Safe, Single
      <3>2. \A n \in 1 .. Len(q) : /\ n + 1 \in 1 .. Len(c)
                                   /\ Sent(q, n, op, i) <=> Sent(c, n + 1, op, i)
                                   /\ q[n].current <=> c[n + 1].current
        BY <2>1 DEF Sent
      <3>3. ASSUME NEW n \in 1 .. Len(q), NEW k \in 1 .. Len(q),
                   Sent(q, n, op, i), q[n].current, Sent(q, k, op, i), q[k].current
            PROVE  n = k
        <4>1. n + 1 = k + 1
          BY <3>1, <3>2, <3>3
        <4> QED BY <4>1
      <3> QED BY <3>1, <3>2, <3>3
    <2>4. \A o, j : UnderWay(q, b, o, j) => UnderWay(c, b, o, j)
      BY <2>1 DEF UnderWay, Sent
    <2>5. \A j \in Interfaces : AllDropped(c, j) => AllDropped(q, j)
      BY <2>1 DEF AllDropped, Sent
    <2>6. ByState(dev, q, b)
      BY <2>4, <2>5 DEF Safe, ByState
    <2>7. Behind(q, b)
      <3>1. ASSUME NEW i \in Interfaces, NEW k \in 1 .. Len(q), NEW n \in 1 .. Len(q),
                   Sent(q, k, "disconnect", i), Sent(q, n, "connect", i)
            PROVE  n < k
        <4>1. n + 1 < k + 1
          BY <2>1, <3>1 DEF Safe, Behind, Sent
        <4> QED BY <4>1
      <3> QED BY <2>5, <3>1 DEF Safe, Behind
    <2> QED BY <2>2, <2>3, <2>6, <2>7 DEF Safe, q
  <1>2. ASSUME b # << >> PROVE Safe(dev, c, Tail(b))
    <2> DEFINE q == Tail(b)
    <2>1. /\ Len(b) \in Nat \ {0} /\ Len(q) = Len(b) - 1
          /\ \A n \in 1 .. Len(q) : n + 1 \in 1 .. Len(b) /\ q[n] = b[n + 1]
      BY <1>2, HeadTailProperties, EmptySeq
    <2> HIDE DEF q
    <2>2. Marked(c, q)
      BY <2>1 DEF Safe, Marked
    <2>3. Single(c, q)
      <3> SUFFICES ASSUME NEW op \in {"connect", "disconnect"}, NEW i \in Interfaces
                   PROVE  /\ \A n, k \in 1 .. Len(c) : Sent(c, n, op, i) /\ c[n].current
                               /\ Sent(c, k, op, i) /\ c[k].current => n = k
                          /\ \A n, k \in 1 .. Len(q) :
                               Told(q, n, op, i) /\ Told(q, k, op, i) => n = k
                          /\ \A n \in 1 .. Len(c), k \in 1 .. Len(q) :
                               ~(Sent(c, n, op, i) /\ c[n].current /\ Told(q, k, op, i))
        BY DEF Single
      <3>1. /\ \A n, k \in 1 .. Len(c) : Sent(c, n, op, i) /\ c[n].current
                 /\ Sent(c, k, op, i) /\ c[k].current => n = k
            /\ \A n, k \in 1 .. Len(b) : Told(b, n, op, i) /\ Told(b, k, op, i) => n = k
            /\ \A n \in 1 .. Len(c), k \in 1 .. Len(b) :
                 ~(Sent(c, n, op, i) /\ c[n].current /\ Told(b, k, op, i))
        BY DEF Safe, Single
      <3>2. \A n \in 1 .. Len(q) : /\ n + 1 \in 1 .. Len(b)
                                   /\ Told(q, n, op, i) <=> Told(b, n + 1, op, i)
        BY <2>1 DEF Told
      <3>3. ASSUME NEW n \in 1 .. Len(q), NEW k \in 1 .. Len(q),
                   Told(q, n, op, i), Told(q, k, op, i)
            PROVE  n = k
        <4>1. n + 1 = k + 1
          BY <3>1, <3>2, <3>3
        <4> QED BY <4>1
      <3> QED BY <3>1, <3>2, <3>3
    <2>4. \A o, j : UnderWay(c, q, o, j) => UnderWay(c, b, o, j)
      BY <2>1 DEF UnderWay, Told
    <2>5. \A j \in Interfaces : NoneTold(b, j) => NoneTold(q, j)
      BY <2>1 DEF NoneTold, Told
    <2>6. ByState(dev, c, q)
      BY <2>4, <2>5 DEF Safe, ByState
    <2>7. Behind(c, q)
      <3>1. ASSUME NEW i \in Interfaces, NEW k \in 1 .. Len(q), NEW n \in 1 .. Len(q),
                   Told(q, k, "disconnect", i), Told(q, n, "connect", i)
            PROVE  n < k
        <4>1. n + 1 < k + 1
          BY <2>1, <3>1 DEF Safe, Behind, Told
        <4> QED BY <4>1
      <3>2. \A i \in Interfaces, k \in 1 .. Len(q) :
              Told(q, k, "disconnect", i) => AllDropped(c, i)
        BY <2>1 DEF Safe, Behind, Told
      <3> QED BY <3>1, <3>2 DEF Safe, Behind
    <2> QED BY <2>2, <2>3, <2>6, <2>7 DEF Safe, q
  <1> QED BY <1>1, <1>2
-----------------------------------------------------------------------------
(* The manager and its Devices, as long as there was no stray: cl is urelay's *)
(* client.                                                                   *)

Clients == {NoClient} \cup [interface : Interfaces, is_connected : BOOLEAN]

\* Only the active interface is in use, in the way the manager's state says.
Settled(s) ==
  /\ \A i \in Interfaces : i # s.active => s.dev[i] \notin Going
  /\ s.state = "CONNECTING" => \/ s.dev[s.active] = "CONNECTING"
                               \/ s.dev[s.active] = "DISCONNECTING" /\ s.reconnect[s.active]
  /\ s.state \in {"CONFIRMING", "CONFIRMING_TRANSIENT", "READY"} => s.dev[s.active] = "CONNECTED"
  /\ \A i \in Interfaces : s.reconnect[i] => s.dev[i] = "DISCONNECTING"

\* What the Devices and the manager wait for is under way.
DisWaits(s, b) ==
  \A i \in Interfaces : s.dev[i] = "DISCONNECTING" => UnderWay(s.calls, b, "disconnect", i)
ConWaits(s, b) ==
  \A i \in Interfaces : s.dev[i] = "CONNECTING" => UnderWay(s.calls, b, "connect", i)
Confirming(s, b) ==
  s.state \in {"CONFIRMING", "CONFIRMING_TRANSIENT"} => UnderWay(s.calls, b, "confirm", s.active)

\* urelay's client is of the interface in use, or will be closed.
Owned(s, cl) ==
  cl.interface # None =>
    \/ s.dev[cl.interface] \in Going
    \/ \E k \in 1 .. Len(s.calls) : Sent(s.calls, k, "disconnect", cl.interface)

\* A get_state that succeeded.
Confirms(b, n) == b[n].kind = "answer" /\ b[n].call.op = "confirm" /\ b[n].result # "failed"
NoConfirm(b) == \A n \in 1 .. Len(b) : ~Confirms(b, n)
Linked(cl, i) == cl.is_connected /\ cl.interface = i

\* The connection broke: behind position f the manager will read so, and every
\* get_state that succeeded is read before.
Broke(b, cl, i, f) ==
  /\ cl = NoClient
  /\ \E k \in 1 .. Len(b) : /\ f < k /\ b[k] = Error(i)
                            /\ \A n \in 1 .. Len(b) : Confirms(b, n) => n < k

\* A connected interface has urelay's connection; or the manager will read that
\* it broke, or knows and waits for a get_state that fails.
UpStrong(s, b, cl) ==
  \A i \in Interfaces : s.dev[i] = "CONNECTED" => Linked(cl, i) \/ Broke(b, cl, i, 0)
UpWeak(s, b, cl) ==
  \A i \in Interfaces : s.dev[i] = "CONNECTED" =>
    Linked(cl, i) \/ Broke(b, cl, i, 0) \/ (cl = NoClient /\ NoConfirm(b))
Up(s, b, cl) == UpWeak(s, b, cl) /\ (s.state # "CONFIRMING" => UpStrong(s, b, cl))

\* So has one whose connect succeeded.
UpSoon(s, b, cl) ==
  \A i \in Interfaces : s.dev[i] = "CONNECTING" =>
    \A n \in 1 .. Len(b) : Told(b, n, "connect", i) /\ b[n].result # "failed" =>
      Linked(cl, i) \/ Broke(b, cl, i, n)

Base(s, b, cl) ==
  /\ Settled(s) /\ Safe(s.dev, s.calls, b) /\ DisWaits(s, b) /\ Ordered(s.dev, s.calls)
  /\ Owned(s, cl) /\ Deferred(s.calls, cl)
Good(s, b, cl) ==
  Base(s, b, cl) /\ ConWaits(s, b) /\ Confirming(s, b) /\ Up(s, b, cl) /\ UpSoon(s, b, cl)

(* With no interface in use there is little to say. *)
LEMMA IdleGood ==
  ASSUME NEW s \in Managers, NEW b, NEW cl,
         \A i \in Interfaces : s.dev[i] \notin Going,
         \A i \in Interfaces : s.reconnect[i] => s.dev[i] = "DISCONNECTING",
         s.state \in {"INIT", "DEAD"}, Safe(s.dev, s.calls, b), DisWaits(s, b), Owned(s, cl),
         Deferred(s.calls, cl)
  PROVE  Good(s, b, cl)
  <1>1. Settled(s)
    BY DEF Settled
  <1>2. Ordered(s.dev, s.calls)
    BY DEF Ordered
  <1>3. ConWaits(s, b) /\ Confirming(s, b)
    BY DEF ConWaits, Confirming, Going
  <1>4. Up(s, b, cl) /\ UpSoon(s, b, cl)
    BY DEF Up, UpWeak, UpStrong, UpSoon, Going
  <1> QED BY <1>1, <1>2, <1>3, <1>4 DEF Good, Base

(* The active interface is given up. *)
LEMMA DiesGood ==
  ASSUME NEW s \in Managers, NEW t \in Managers, NEW b, NEW cl, Dies(s, t),
         s.active \in Interfaces, Base(s, b, cl)
  PROVE  Good(t, b, cl) /\ t.dev[s.active] \notin Going
  <1> DEFINE i == s.active
  <1>0. /\ s.dev \in [Interfaces -> DeviceStates] /\ s.calls \in Seq(Calls)
        /\ \A j \in Interfaces : j # i => s.dev[j] \notin Going
        /\ \A j \in Interfaces : s.reconnect[j] => s.dev[j] = "DISCONNECTING"
        /\ Safe(s.dev, s.calls, b) /\ DisWaits(s, b) /\ Owned(s, cl) /\ Deferred(s.calls, cl)
    BY DEF Managers, Base, Settled
  <1>1. CASE s.dev[i] \in {"CONNECTED", "CONNECTING"}
    <2>1. /\ t.dev = [s.dev EXCEPT ![i] = "DISCONNECTING"] /\ t.reconnect = s.reconnect
          /\ t.calls = Append(s.calls, Call("disconnect", i)) /\ t.state = "DEAD"
      BY <1>1 DEF Dies, Ends
    <2>2. Safe(t.dev, t.calls, b)
      BY <1>0, <1>1, <2>1, SafeDisconnect DEF Going
    <2>3. "disconnect" \in Ops
      BY DEF Ops
    <2>4. /\ UnderWay(t.calls, b, "disconnect", i)
          /\ \A o, j : UnderWay(s.calls, b, o, j) => UnderWay(t.calls, b, o, j)
      BY <1>0, <2>1, <2>3, SendKeepsUnderWay
    <2>5. DisWaits(t, b)
      BY <1>0, <2>1, <2>4 DEF DisWaits
    <2>6. /\ \A j \in Interfaces : t.dev[j] \notin Going
          /\ \A j \in Interfaces : t.reconnect[j] => t.dev[j] = "DISCONNECTING"
      BY <1>0, <2>1 DEF Going
    <2>7. Owned(t, cl)
      <3>1. /\ Len(s.calls) \in Nat /\ Len(t.calls) = Len(s.calls) + 1
            /\ \A n \in 1 .. Len(s.calls) : t.calls[n] = s.calls[n]
            /\ t.calls[Len(t.calls)].op = "disconnect" /\ t.calls[Len(t.calls)].interface = i
        BY <1>0, <2>1, <2>3, SendFacts
      <3>2. CASE cl.interface = i
        BY <3>1, <3>2 DEF Owned, Sent
      <3>3. CASE cl.interface \in Interfaces /\ cl.interface # i
        BY <1>0, <3>1, <3>3 DEF Owned, Sent
      <3>4. CASE cl.interface = None
        BY <3>4 DEF Owned
      <3>5. CASE cl.interface \notin Interfaces \cup {None}
        <4>1. s.dev[cl.interface] = t.dev[cl.interface]
          BY <1>0, <2>1, <3>5
        <4> QED BY <1>0, <3>1, <4>1 DEF Owned, Sent
      <3> QED BY <3>2, <3>3, <3>4, <3>5
    <2>8. Deferred(t.calls, cl)
      BY <1>0, <2>1, <2>3, SendKeepsDeferred
    <2> QED BY <2>1, <2>2, <2>5, <2>6, <2>7, <2>8, IdleGood
  <1>2. CASE s.dev[i] \notin {"CONNECTED", "CONNECTING"}
    <2>1. /\ t.dev = s.dev /\ t.reconnect = s.reconnect /\ t.calls = s.calls /\ t.state = "DEAD"
      BY <1>2 DEF Dies, Ends
    <2>2. \A j \in Interfaces : t.dev[j] \notin Going
      BY <1>0, <1>2, <2>1 DEF Going
    <2>3. DisWaits(t, b) /\ Owned(t, cl)
      BY <1>0, <2>1 DEF DisWaits, Owned
    <2> QED BY <1>0, <2>1, <2>2, <2>3, IdleGood
  <1> QED BY <1>1, <1>2

(* A ready interface is confirmed again: when the connection broke and the   *)
(* manager has read so, no get_state that succeeded is left.                 *)
LEMMA RechecksGood ==
  ASSUME NEW s \in Managers, NEW t \in Managers, NEW b, NEW cl,
         s.active \in Interfaces, s.state = "READY", Base(s, b, cl), UpWeak(s, b, cl),
         Stays(s, t), Invokes(s, t, "confirm", s.active),
         \/ t.state = "CONFIRMING"
         \/ t.state = "CONFIRMING_TRANSIENT" /\ UpStrong(s, b, cl)
  PROVE  Good(t, b, cl) /\ t.dev = s.dev
  <1> DEFINE i == s.active
  <1>0. /\ s.calls \in Seq(Calls) /\ "confirm" \in Ops /\ "confirm" \in {"confirm", "subscribe"}
        /\ s.dev[i] = "CONNECTED"
    BY DEF Managers, Ops, Base, Settled
  <1>1. /\ t.dev = s.dev /\ t.reconnect = s.reconnect /\ t.active = i
        /\ t.calls = Append(s.calls, Call("confirm", i))
    BY <1>0 DEF Stays, Invokes
  <1>2. Safe(t.dev, t.calls, b) /\ Ordered(t.dev, t.calls)
    BY <1>0, <1>1, SafeInvoke DEF Base
  <1>3. /\ UnderWay(t.calls, b, "confirm", i)
        /\ \A o, j : UnderWay(s.calls, b, o, j) => UnderWay(t.calls, b, o, j)
    BY <1>0, <1>1, SendKeepsUnderWay
  <1>4. DisWaits(t, b) /\ Confirming(t, b)
    BY <1>1, <1>3 DEF Base, DisWaits, Confirming
  <1>5. Settled(t)
    BY <1>0, <1>1 DEF Base, Settled
  <1>6. \A j \in Interfaces : t.dev[j] # "CONNECTING"
    BY <1>0, <1>1 DEF Base, Settled, Going
  <1>7. ConWaits(t, b) /\ UpSoon(t, b, cl)
    BY <1>6 DEF ConWaits, UpSoon
  <1>8. Up(t, b, cl)
    BY <1>1 DEF Up, UpWeak, UpStrong
  <1>9. Owned(t, cl)
    <2>1. /\ Len(s.calls) \in Nat /\ Len(t.calls) = Len(s.calls) + 1
          /\ \A n \in 1 .. Len(s.calls) : t.calls[n] = s.calls[n]
      BY <1>0, <1>1, SendFacts
    <2> QED BY <1>1, <2>1 DEF Base, Owned, Sent
  <1>10. Deferred(t.calls, cl)
    BY <1>0, <1>1, SendKeepsDeferred DEF Base
  <1> QED BY <1>1, <1>2, <1>4, <1>5, <1>7, <1>8, <1>9, <1>10 DEF Good, Base

(* A confirmation succeeded. *)
LEMMA ReadiesGood ==
  ASSUME NEW s \in Managers, NEW t \in Managers, NEW b, NEW cl, Readies(s, t),
         s.active \in Interfaces, s.state \in {"CONFIRMING", "CONFIRMING_TRANSIENT"},
         Base(s, b, cl), UpStrong(s, b, cl)
  PROVE  Good(t, b, cl)
  <1> DEFINE i == s.active
  <1>0. /\ s.calls \in Seq(Calls) /\ "subscribe" \in Ops
        /\ "subscribe" \in {"confirm", "subscribe"} /\ s.dev[i] = "CONNECTED"
    BY DEF Managers, Ops, Base, Settled
  <1>1. /\ t.dev = s.dev /\ t.reconnect = s.reconnect /\ t.state = "READY" /\ t.active = i
        /\ t.calls = s.calls \/ t.calls = Append(s.calls, Call("subscribe", i))
    BY DEF Readies, Stays
  <1>2. Safe(t.dev, t.calls, b) /\ Ordered(t.dev, t.calls)
    BY <1>0, <1>1, SafeInvoke DEF Base
  <1>3. \A o, j : UnderWay(s.calls, b, o, j) => UnderWay(t.calls, b, o, j)
    <2>1. LET q == Append(s.calls, Call("subscribe", i)) IN
          \A o, j : UnderWay(s.calls, b, o, j) => UnderWay(q, b, o, j)
      BY <1>0, SendKeepsUnderWay
    <2> QED BY <1>1, <2>1
  <1>4. DisWaits(t, b) /\ Confirming(t, b)
    BY <1>1, <1>3 DEF Base, DisWaits, Confirming
  <1>5. Settled(t)
    BY <1>0, <1>1 DEF Base, Settled
  <1>6. \A j \in Interfaces : t.dev[j] # "CONNECTING"
    BY <1>0, <1>1 DEF Base, Settled, Going
  <1>7. ConWaits(t, b) /\ UpSoon(t, b, cl)
    BY <1>6 DEF ConWaits, UpSoon
  <1>8. Up(t, b, cl)
    BY <1>1 DEF Up, UpWeak, UpStrong
  <1>9. Owned(t, cl)
    <2>1. CASE t.calls = s.calls
      BY <1>1, <2>1 DEF Base, Owned
    <2>2. CASE t.calls = Append(s.calls, Call("subscribe", i))
      <3>1. /\ Len(s.calls) \in Nat /\ Len(t.calls) = Len(s.calls) + 1
            /\ \A n \in 1 .. Len(s.calls) : t.calls[n] = s.calls[n]
        BY <1>0, <2>2, SendFacts
      <3> QED BY <1>1, <3>1 DEF Base, Owned, Sent
    <2> QED BY <1>1, <2>1, <2>2
  <1>10. Deferred(t.calls, cl)
    BY <1>0, <1>1, SendKeepsDeferred DEF Base
  <1> QED BY <1>1, <1>2, <1>4, <1>5, <1>7, <1>8, <1>9, <1>10 DEF Good, Base

(* The Device of i connects, and no other interface is in use. *)
LEMMA ConnectsGood ==
  ASSUME NEW s \in Managers, NEW t \in Managers, NEW b, NEW cl \in Clients, NEW i \in Interfaces,
         s.dev[i] = "DISCONNECTED", \A j \in Interfaces : s.dev[j] \notin Going,
         \A j \in Interfaces : s.reconnect[j] => s.dev[j] = "DISCONNECTING",
         Safe(s.dev, s.calls, b), DisWaits(s, b), Owned(s, cl), Deferred(s.calls, cl),
         t.state = "CONNECTING", t.active = i, t.reconnect = s.reconnect,
         t.dev = [s.dev EXCEPT ![i] = "CONNECTING"],
         t.calls = Append(Outdate(s.calls, i), Call("connect", i))
  PROVE  Good(t, b, cl)
  <1>0. /\ s.calls \in Seq(Calls) /\ "connect" \in Ops /\ "disconnect" \in Ops
        /\ s.dev \in [Interfaces -> DeviceStates]
    BY DEF Managers, Ops
  <1>1. t.dev[i] = "CONNECTING" /\ \A j \in Interfaces : j # i => t.dev[j] = s.dev[j]
    BY <1>0
  <1> DEFINE q == Append(Outdate(s.calls, i), Call("connect", i))
             d == [s.dev EXCEPT ![i] = "CONNECTING"]
  <1>a. /\ Safe(d, q, b) /\ UnderWay(q, b, "connect", i)
        /\ \A o \in Ops, j \in Interfaces : UnderWay(s.calls, b, o, j) => UnderWay(q, b, o, j)
        /\ \A k \in 1 .. Len(q) :
             k <= Len(q) /\ q[Len(q)].at = "queued" /\ q[Len(q)].current
             /\ Sent(q, Len(q), "connect", i)
    BY <1>0, SafeConnect, Zenon
  <1> HIDE DEF q, d
  <1>b. t.dev = d /\ t.calls = q
    BY DEF d, q
  <1>2. /\ Safe(t.dev, t.calls, b) /\ UnderWay(t.calls, b, "connect", i)
        /\ \A o \in Ops, j \in Interfaces :
             UnderWay(s.calls, b, o, j) => UnderWay(t.calls, b, o, j)
    BY <1>a, <1>b
  <1>3. \A k \in 1 .. Len(t.calls) :
          /\ k <= Len(t.calls) /\ Sent(t.calls, Len(t.calls), "connect", i)
          /\ t.calls[Len(t.calls)].current /\ t.calls[Len(t.calls)].at = "queued"
    BY <1>a, <1>b
  <1>4. DisWaits(t, b) /\ ConWaits(t, b) /\ Confirming(t, b)
    BY <1>0, <1>1, <1>2 DEF DisWaits, ConWaits, Confirming, Going
  <1>5. Settled(t)
    BY <1>1 DEF Settled
  <1>6. Ordered(t.dev, t.calls)
    <2>1. Len(t.calls) \in Nat
      BY LenProperties DEF Managers
    <2> QED BY <1>1, <1>3, <2>1 DEF Ordered
  <1>7. Up(t, b, cl)
    BY <1>1 DEF Up, UpWeak, UpStrong, Going
  <1>8. UpSoon(t, b, cl)
    <2>1. NoneTold(b, i)
      BY DEF Safe, ByState
    <2> QED BY <1>1, <2>1 DEF UpSoon, NoneTold, Going
  <1>9. Owned(t, cl)
    <2> DEFINE p == Outdate(s.calls, i)
    <2>1. /\ p \in Seq(Calls) /\ Len(p) = Len(s.calls) /\ Len(s.calls) \in Nat
          /\ \A n \in 1 .. Len(s.calls) :
               s.calls[n].op # "connect" => p[n] = s.calls[n]
      <3>1. /\ p \in Seq(Calls) /\ Len(p) = Len(s.calls)
            /\ \A n \in 1 .. Len(s.calls) : p[n] =
                 IF s.calls[n].op = "connect" /\ s.calls[n].interface = i
                 THEN [s.calls[n] EXCEPT !.current = FALSE] ELSE s.calls[n]
        BY <1>0, OutdateType
      <3> HIDE DEF p
      <3> QED BY <1>0, <3>1, LenProperties
    <2> HIDE DEF p
    <2>2. Len(t.calls) = Len(p) + 1 /\ \A n \in 1 .. Len(p) : t.calls[n] = p[n]
      BY <1>0, <2>1, SendFacts DEF p
    <2>3. cl.interface \in Interfaces \cup {None}
      BY DEF Clients, NoClient
    <2> QED BY <2>1, <2>2, <2>3 DEF Owned, Sent
  <1>10. Deferred(t.calls, cl)
    BY <1>0, SendKeepsDeferred
  <1> QED BY <1>2, <1>4, <1>5, <1>6, <1>7, <1>8, <1>9, <1>10 DEF Good, Base
-----------------------------------------------------------------------------
(* The callbacks.  Each keeps what InTurn says, whatever has happened since  *)
(* the call was made, and the rest of the invariant as long as there was no  *)
(* stray.                                                                    *)

\* A retry timer runs for every interface that was given up and not tried since.
Owed(s) == s.timers + IF s.active = None THEN 0 ELSE 1
Timed(s) == s.state = "DEAD" /\ s.interfaces # << >> => s.timers > 0
Counts(s, t) == Owed(t) <= Owed(s) /\ (Timed(s) => Timed(t))

WaitsBut(s, b, i) ==
  \A j \in Interfaces :
    j # i /\ s.dev[j] = "CONNECTING" => UnderWay(s.calls, b, "connect", j)

(* An error of an interface. *)
LEMMA ErrorGood ==
  ASSUME NEW s, NEW i, NEW late, NEW b, NEW cl, InTurn(s)
  PROVE  LET t == OnInterfaceError(s, i, late) IN
         /\ InTurn(t) /\ Counts(s, t) /\ (t.strayed <=> s.strayed)
         /\ i # s.active \/ i = None => t = s
         /\ i = s.active /\ i # None /\ Base(s, b, cl) /\ UpWeak(s, b, cl) =>
              /\ Good(t, b, cl)
              /\ t.state # "DEAD" => t.dev = s.dev
              /\ s.state # "READY" => t.dev[i] \notin Going
  <1> DEFINE t == OnInterfaceError(s, i, late)
  <1>1. /\ InTurn(t)
        /\ i # s.active \/ i = None => t = s
        /\ i = s.active /\ i # None => IF s.state = "READY" THEN Rechecks(s, t) ELSE Dies(s, t)
    BY InterfaceError
  <1> HIDE DEF t
  <1>2. s \in Managers /\ t \in Managers /\ s.timers \in Nat
    BY <1>1 DEF InTurn, Managers
  <1>3. CASE i # s.active \/ i = None
    <2>1. t = s /\ Owed(s) \in Int
      BY <1>1, <1>2, <1>3 DEF Owed
    <2>2. Counts(s, t)
      BY <2>1 DEF Counts
    <2> QED BY <1>1, <1>3, <2>1, <2>2 DEF t
  <1>4. CASE i = s.active /\ i # None /\ s.state = "READY"
    <2>1. Rechecks(s, t) /\ i \in Interfaces
      BY <1>1, <1>2, <1>4 DEF Managers
    <2>2. t.state = "CONFIRMING" /\ t.active = s.active /\ t.timers = s.timers
          /\ (t.strayed <=> s.strayed)
      BY <2>1 DEF Rechecks, Stays
    <2>3. Counts(s, t)
      BY <1>2, <2>2 DEF Counts, Owed, Timed
    <2>4. Base(s, b, cl) /\ UpWeak(s, b, cl) => Good(t, b, cl) /\ t.dev = s.dev
      BY <1>2, <1>4, <2>1, RechecksGood DEF Rechecks
    <2> QED BY <1>1, <1>4, <2>2, <2>3, <2>4 DEF t
  <1>5. CASE i = s.active /\ i # None /\ s.state # "READY"
    <2>1. Dies(s, t) /\ i \in Interfaces
      BY <1>1, <1>2, <1>5 DEF Managers
    <2>2. t.state = "DEAD" /\ t.active = None /\ t.timers = s.timers + 1
          /\ (t.strayed <=> s.strayed)
      BY <2>1 DEF Dies
    <2>3. Counts(s, t)
      BY <1>2, <1>5, <2>2 DEF Counts, Owed, Timed
    <2>4. Base(s, b, cl) => Good(t, b, cl) /\ t.dev[i] \notin Going
      BY <1>2, <1>5, <2>1, DiesGood
    <2> QED BY <1>1, <1>5, <2>2, <2>3, <2>4 DEF t
  <1> QED BY <1>3, <1>4, <1>5

(* The success of a connect. *)
LEMMA ConnectedGood ==
  ASSUME NEW s, NEW call, NEW b, NEW cl, InTurn(s), call.interface \in Interfaces
  PROVE  LET t == OnConnected(s, call)
             i == call.interface
         IN  /\ InTurn(t) /\ Counts(s, t) /\ (t.strayed <=> s.strayed)
             /\ /\ Base(s, b, cl) /\ WaitsBut(s, b, i) /\ Confirming(s, b) /\ Up(s, b, cl)
                /\ UpSoon(s, b, cl) /\ ~UnderWay(s.calls, b, "connect", i) /\ call.current
                /\ s.dev[i] = "CONNECTING" => Linked(cl, i) \/ Broke(b, cl, i, 0)
                => Good(t, b, cl)
  <1> DEFINE t == OnConnected(s, call)
             i == call.interface
             d == [s.dev EXCEPT ![i] = "CONNECTED"]
             u == [s EXCEPT !.dev = d]
             v == [u EXCEPT !.state = "CONFIRMING"]
             w == DeviceCall(v, "confirm", v.active)
             Pre == /\ Base(s, b, cl) /\ WaitsBut(s, b, i) /\ Confirming(s, b) /\ Up(s, b, cl)
                    /\ UpSoon(s, b, cl) /\ ~UnderWay(s.calls, b, "connect", i) /\ call.current
                    /\ s.dev[i] = "CONNECTING" => Linked(cl, i) \/ Broke(b, cl, i, 0)
  <1>0. /\ s \in Managers /\ s.dev \in [Interfaces -> DeviceStates] /\ s.calls \in Seq(Calls)
        /\ s.timers \in Nat /\ d \in [Interfaces -> DeviceStates]
    BY DEF InTurn, Managers, DeviceStates
  <1>1. Owed(s) \in Int
    BY <1>0 DEF Owed
  <1>2. CASE ~(s.dev[i] = "CONNECTING" /\ call.current)
    <2>1. t = s
      BY <1>2 DEF OnConnected
    <2> HIDE DEF t
    <2>2. Counts(s, t)
      BY <1>1, <2>1 DEF Counts
    <2>3. Pre => Good(t, b, cl)
      BY <1>2, <2>1 DEF Good, ConWaits, WaitsBut
    <2> QED BY <2>1, <2>2, <2>3 DEF t
  <1>3. CASE s.dev[i] = "CONNECTING" /\ call.current
    <2>1. /\ u \in Managers /\ u.state = s.state /\ u.active = s.active /\ u.told = s.told
          /\ u.interfaces = s.interfaces /\ u.timers = s.timers /\ (u.strayed <=> s.strayed)
          /\ u.dev = d /\ u.calls = s.calls /\ u.reconnect = s.reconnect
      BY <1>0 DEF Managers
    <2>2. t = IF i = u.active /\ u.state = "CONNECTING" THEN DoConfirm(v) ELSE u
      BY <1>3 DEF OnConnected, OnInterfaceConnected
    <2> HIDE DEF u, t
    <2>3. CASE ~(i = u.active /\ u.state = "CONNECTING")
      <3>1. t = u
        BY <2>2, <2>3
      <3>2. InTurn(t) /\ (t.strayed <=> s.strayed)
        BY <2>1, <3>1 DEF InTurn
      <3>3. Counts(s, t)
        BY <1>1, <2>1, <3>1 DEF Counts, Owed, Timed
      <3>4. ~Base(s, b, cl)
        <4>1. SUFFICES ASSUME Base(s, b, cl) PROVE FALSE
          OBVIOUS
        <4>2. i = s.active
          BY <1>3, <4>1 DEF Base, Settled, Going
        <4>3. s.state \in States /\ s.active # None
          BY <4>2, NoneIsNoInterface DEF InTurn, Managers
        <4> QED BY <1>3, <2>1, <2>3, <4>1, <4>2, <4>3 DEF Base, Settled, States, InTurn
      <3> QED BY <3>2, <3>3, <3>4 DEF t
    <2>4. CASE i = u.active /\ u.state = "CONNECTING"
      <3>1. /\ v \in Managers /\ v.state = "CONFIRMING" /\ v.active = i /\ v.told = s.told
            /\ v.interfaces = s.interfaces /\ v.timers = s.timers /\ (v.strayed <=> s.strayed)
            /\ v.dev = d /\ v.calls = s.calls /\ v.reconnect = s.reconnect
        BY <2>1, <2>4 DEF Managers, States
      <3>2. t = w
        BY <2>2, <2>4 DEF DoConfirm
      <3> HIDE DEF v
      <3>3. d[i] = "CONNECTED" /\ "confirm" \in Ops
        BY <1>0 DEF Ops
      <3> HIDE DEF d
      <3>4. /\ w \in Managers /\ Kept(v, w) /\ w.reconnect = v.reconnect /\ w.dev = v.dev
            /\ w.calls = Append(v.calls, Call("confirm", i))
        BY <3>1, <3>3, DeviceCalls
      <3> HIDE DEF w
      <3>5. /\ t \in Managers /\ t.state = "CONFIRMING" /\ t.active = i /\ t.told = s.told
            /\ t.interfaces = s.interfaces /\ t.timers = s.timers /\ (t.strayed <=> s.strayed)
            /\ t.dev = d /\ t.reconnect = s.reconnect
            /\ t.calls = Append(s.calls, Call("confirm", i))
        BY <3>1, <3>2, <3>4 DEF Kept
      <3>6. s.active = i /\ s.state = "CONNECTING"
        BY <2>1, <2>4
      <3>7. InTurn(t) /\ Counts(s, t)
        BY <1>0, <3>5, <3>6 DEF InTurn, Counts, Owed, Timed
      <3>8. ASSUME Pre PROVE Good(t, b, cl)
        <4>0. \A j \in Interfaces : j # i => d[j] = s.dev[j] /\ s.dev[j] \notin Going
          BY <1>0, <3>6, <3>8 DEF Base, Settled, d
        <4>1. Safe(d, s.calls, b)
          BY <1>0, <1>3, <3>8, SafeConnected DEF Base, d
        <4>2. Ordered(d, s.calls)
          BY <1>3, <3>3, <3>8, <4>0 DEF Base, Ordered, Going
        <4>3. Safe(t.dev, t.calls, b) /\ Ordered(t.dev, t.calls)
          BY <1>0, <3>5, <4>1, <4>2, SafeInvoke
        <4>4. /\ UnderWay(t.calls, b, "confirm", i)
              /\ \A o, j : UnderWay(s.calls, b, o, j) => UnderWay(t.calls, b, o, j)
          BY <1>0, <3>3, <3>5, SendKeepsUnderWay
        <4>5. DisWaits(t, b) /\ Confirming(t, b)
          BY <3>3, <3>5, <3>8, <4>0, <4>4 DEF Base, DisWaits, Confirming
        <4>6. Settled(t)
          BY <1>3, <3>3, <3>5, <3>8, <4>0 DEF Base, Settled
        <4>7. \A j \in Interfaces : t.dev[j] # "CONNECTING"
          BY <3>3, <3>5, <4>0 DEF Going
        <4>8. ConWaits(t, b) /\ UpSoon(t, b, cl)
          BY <4>7 DEF ConWaits, UpSoon
        <4>9. UpWeak(t, b, cl)
          BY <1>3, <3>5, <3>8, <4>0 DEF UpWeak, Going
        <4>10. Up(t, b, cl)
          BY <3>5, <4>9 DEF Up
        <4>11. Owned(t, cl)
          <5>1. /\ Len(s.calls) \in Nat /\ Len(t.calls) = Len(s.calls) + 1
                /\ \A n \in 1 .. Len(s.calls) : t.calls[n] = s.calls[n]
            BY <1>0, <3>3, <3>5, SendFacts
          <5>2. s.dev[cl.interface] \in Going => t.dev[cl.interface] \in Going
            BY <1>0, <3>3, <3>5 DEF d, Going
          <5> QED BY <3>8, <5>1, <5>2 DEF Base, Owned, Sent
        <4>12. Deferred(t.calls, cl)
          BY <1>0, <3>3, <3>5, <3>8, SendKeepsDeferred DEF Base
        <4> QED BY <4>3, <4>5, <4>6, <4>8, <4>10, <4>11, <4>12 DEF Good, Base
      <3> QED BY <3>5, <3>7, <3>8 DEF t
    <2> QED BY <2>3, <2>4
  <1> QED BY <1>2, <1>3

(* The failure of a connect, of the current attempt or of an older one.      *)
LEMMA ConnectFailedGood ==
  ASSUME NEW s, NEW call, NEW late, NEW b, NEW cl, InTurn(s), call.interface \in Interfaces
  PROVE  LET t == OnConnectFailed(s, call, late)
             i == call.interface
         IN  /\ InTurn(t) /\ Counts(s, t) /\ (s.strayed => t.strayed)
             /\ /\ Base(s, b, cl) /\ WaitsBut(s, b, i) /\ Confirming(s, b) /\ Up(s, b, cl)
                /\ UpSoon(s, b, cl) /\ (call.current => s.dev[i] # "CONNECTED")
                => t.strayed \/ Good(t, b, cl)
  <1> DEFINE i == call.interface
             stray == ~call.current /\ s.dev[i] \in {"CONNECTING", "CONNECTED"}
             x == s.strayed \/ stray
             u == [s EXCEPT !.strayed = x]
             e == OnInterfaceError(u, i, late)
             t == DeviceDisconnect(e, i)
             Pre == /\ Base(s, b, cl) /\ WaitsBut(s, b, i) /\ Confirming(s, b) /\ Up(s, b, cl)
                    /\ UpSoon(s, b, cl) /\ (call.current => s.dev[i] # "CONNECTED")
  <1>1. OnConnectFailed(s, call, late) = t
    BY DEF OnConnectFailed
  <1>2. x \in BOOLEAN
    BY Zenon
  <1>3. ~x => ~s.strayed /\ (s.dev[i] \in {"CONNECTING", "CONNECTED"} => call.current)
    BY Zenon
  <1>4. s.strayed => x
    BY Zenon
  <1> HIDE DEF x, stray
  <1>5. /\ u \in Managers /\ (u.strayed <=> x) /\ u.state = s.state /\ u.active = s.active
        /\ u.told = s.told /\ u.interfaces = s.interfaces /\ u.timers = s.timers
        /\ u.dev = s.dev /\ u.calls = s.calls /\ u.reconnect = s.reconnect
    BY <1>2 DEF InTurn, Managers
  <1> HIDE DEF u
  <1>6. InTurn(u) /\ Counts(s, u)
    BY <1>5 DEF InTurn, Counts, Owed, Timed, Managers
  <1>7. /\ InTurn(e) /\ Counts(u, e) /\ (e.strayed <=> u.strayed)
        /\ i # u.active \/ i = None => e = u
        /\ i = u.active /\ i # None /\ Base(u, b, cl) /\ UpWeak(u, b, cl) =>
             Good(e, b, cl) /\ (u.state # "READY" => e.dev[i] \notin Going)
    BY <1>6, ErrorGood
  <1> HIDE DEF e
  <1>8. /\ t \in Managers /\ Kept(e, t)
        /\ e.dev[i] \notin {"CONNECTED", "CONNECTING"} => t = e
    BY <1>7, DeviceDisconnects DEF InTurn
  <1> HIDE DEF t
  <1>9. InTurn(t)
    BY <1>7, <1>8 DEF InTurn, Kept
  <1>10. Counts(s, t)
    <2>1. Owed(s) \in Int /\ Owed(u) \in Int /\ Owed(e) \in Int
      BY <1>6, <1>7 DEF Owed, InTurn, Managers
    <2>2. Owed(t) = Owed(e) /\ (Timed(e) => Timed(t))
      BY <1>8 DEF Kept, Owed, Timed
    <2> QED BY <1>6, <1>7, <2>1, <2>2 DEF Counts
  <1>11. t.strayed <=> x
    BY <1>5, <1>7, <1>8 DEF Kept
  <1>12. ASSUME Pre, ~x PROVE Good(t, b, cl)
    <2>1. Good(u, b, cl) \/ s.dev[i] = "CONNECTING"
      <3>1. SUFFICES ASSUME s.dev[i] # "CONNECTING" PROVE Good(u, b, cl)
        OBVIOUS
      <3>2. Base(u, b, cl)
        BY <1>5, <1>12 DEF Base, Settled, DisWaits, Owned
      <3>3. ConWaits(u, b) /\ Confirming(u, b)
        BY <1>5, <1>12, <3>1 DEF WaitsBut, ConWaits, Confirming
      <3>4. UpWeak(u, b, cl) /\ (u.state # "CONFIRMING" => UpStrong(u, b, cl))
        BY <1>5, <1>12 DEF Up, UpWeak, UpStrong
      <3>5. Up(u, b, cl) /\ UpSoon(u, b, cl)
        BY <1>5, <1>12, <3>4 DEF Up, UpSoon
      <3> QED BY <3>2, <3>3, <3>5 DEF Good
    <2>2. Base(u, b, cl) /\ UpWeak(u, b, cl)
      BY <1>5, <1>12 DEF Base, Settled, DisWaits, Owned, Up, UpWeak
    <2>3. s.dev[i] # "CONNECTED"
      BY <1>3, <1>12
    <2>4. i # None
      BY NoneIsNoInterface
    <2>5. CASE i = s.active
      <3>1. s.state # "READY"
        BY <1>12, <2>3, <2>5 DEF Base, Settled
      <3>2. Good(e, b, cl) /\ e.dev[i] \notin Going
        BY <1>5, <1>7, <2>2, <2>4, <2>5, <3>1
      <3> QED BY <1>8, <3>2 DEF Going
    <2>6. CASE i # s.active
      <3>1. s.dev[i] \notin Going
        BY <1>12, <2>6 DEF Base, Settled
      <3>2. e = u /\ Good(u, b, cl)
        BY <1>5, <1>7, <2>1, <2>6, <3>1 DEF Going
      <3> QED BY <1>5, <1>8, <3>1, <3>2 DEF Going
    <2> QED BY <2>5, <2>6
  <1>13. (s.strayed => t.strayed) /\ (Pre => t.strayed \/ Good(t, b, cl))
    <2> HIDE DEF Pre
    <2> QED BY <1>4, <1>11, <1>12
  <1> QED BY <1>1, <1>9, <1>10, <1>13

(* The answer to a disconnect, after which the Device may connect again.     *)
LEMMA DisconnectedGood ==
  ASSUME NEW s, NEW i \in Interfaces, NEW b, NEW cl \in Clients, InTurn(s)
  PROVE  LET t == OnDisconnected(s, i) IN
         /\ InTurn(t) /\ Counts(s, t) /\ (s.strayed => t.strayed)
         /\ /\ Settled(s) /\ Safe(s.dev, s.calls, b) /\ Ordered(s.dev, s.calls) /\ Owned(s, cl)
            /\ Deferred(s.calls, cl)
            /\ \A j \in Interfaces : j # i /\ s.dev[j] = "DISCONNECTING" =>
                                       UnderWay(s.calls, b, "disconnect", j)
            /\ ConWaits(s, b) /\ Confirming(s, b) /\ Up(s, b, cl) /\ UpSoon(s, b, cl)
            /\ s.dev[i] = "DISCONNECTING" /\ ~UnderWay(s.calls, b, "disconnect", i)
            /\ AllDropped(s.calls, i) /\ NoneTold(b, i)
            => t.strayed \/ Good(t, b, cl)
  <1> DEFINE stray == s.reconnect[i] /\ ~(s.active = i /\ s.state = "CONNECTING")
             x == s.strayed \/ stray
             d == [s.dev EXCEPT ![i] = "DISCONNECTED"]
             r == [s.reconnect EXCEPT ![i] = FALSE]
             u == [s EXCEPT !.dev = d, !.reconnect = r, !.strayed = x]
             e == DeviceConnect(u, i)
             t == OnDisconnected(s, i)
             Pre ==
               /\ Settled(s) /\ Safe(s.dev, s.calls, b) /\ Ordered(s.dev, s.calls) /\ Owned(s, cl)
               /\ Deferred(s.calls, cl)
               /\ \A j \in Interfaces : j # i /\ s.dev[j] = "DISCONNECTING" =>
                                          UnderWay(s.calls, b, "disconnect", j)
               /\ ConWaits(s, b) /\ Confirming(s, b) /\ Up(s, b, cl) /\ UpSoon(s, b, cl)
               /\ s.dev[i] = "DISCONNECTING" /\ ~UnderWay(s.calls, b, "disconnect", i)
               /\ AllDropped(s.calls, i) /\ NoneTold(b, i)
  <1>1. t = IF s.reconnect[i] THEN e ELSE u
    BY DEF OnDisconnected
  <1>2. x \in BOOLEAN /\ (s.strayed => x)
    BY Zenon
  <1>3. ~x => ~s.strayed /\ (s.reconnect[i] => s.active = i /\ s.state = "CONNECTING")
    BY Zenon
  <1>4. /\ s \in Managers /\ s.timers \in Nat
        /\ s.dev \in [Interfaces -> DeviceStates] /\ s.calls \in Seq(Calls)
        /\ s.reconnect \in [Interfaces -> BOOLEAN]
        /\ d \in [Interfaces -> DeviceStates] /\ r \in [Interfaces -> BOOLEAN]
    BY DEF InTurn, Managers, DeviceStates
  <1>5. /\ d[i] = "DISCONNECTED" /\ \A j \in Interfaces : j # i => d[j] = s.dev[j]
        /\ ~r[i] /\ \A j \in Interfaces : j # i => (r[j] <=> s.reconnect[j])
    BY <1>4
  <1> HIDE DEF x, stray, t
  <1>6. /\ u \in Managers /\ (u.strayed <=> x) /\ u.state = s.state /\ u.active = s.active
        /\ u.told = s.told /\ u.interfaces = s.interfaces /\ u.timers = s.timers
        /\ u.dev = d /\ u.calls = s.calls /\ u.reconnect = r
    <2> HIDE DEF d, r
    <2> QED BY <1>2, <1>4 DEF Managers
  <1> HIDE DEF u
  <1>7. /\ e \in Managers /\ Kept(u, e)
        /\ u.dev[i] = "DISCONNECTED" =>
             /\ e.dev = [u.dev EXCEPT ![i] = "CONNECTING"] /\ e.reconnect = u.reconnect
             /\ e.calls = Append(Outdate(u.calls, i), Call("connect", i))
    BY <1>6, DeviceConnects
  <1> HIDE DEF e
  <1>8. /\ InTurn(u) /\ InTurn(e) /\ (e.strayed <=> x) /\ e.state = s.state
        /\ e.active = s.active
    BY <1>6, <1>7 DEF InTurn, Kept
  <1>9. Counts(s, u) /\ Counts(s, e)
    BY <1>4, <1>6, <1>7 DEF Kept, Counts, Owed, Timed
  <1>10. ASSUME Pre, ~x, s.reconnect[i] PROVE Good(e, b, cl)
    <2>1. s.active = i /\ s.state = "CONNECTING"
      BY <1>3, <1>10
    <2> HIDE DEF d, r
    <2>2. \A j \in Interfaces : u.dev[j] \notin Going
      BY <1>5, <1>6, <1>10, <2>1 DEF Settled, Going
    <2>3. \A j \in Interfaces : u.reconnect[j] => u.dev[j] = "DISCONNECTING"
      BY <1>5, <1>6, <1>10 DEF Settled
    <2>4. Safe(u.dev, u.calls, b)
      BY <1>4, <1>6, <1>10, SafeDisconnected DEF d
    <2>5. DisWaits(u, b)
      BY <1>5, <1>6, <1>10 DEF DisWaits
    <2>6. Owned(u, cl)
      <3>1. cl.interface \in Interfaces \cup {None}
        BY DEF Clients, NoClient
      <3>2. cl.interface # i
        BY <1>10, <2>1, NoneIsNoInterface DEF Owned, UnderWay, Safe, Marked, Going, Sent
      <3> QED BY <1>5, <1>6, <1>10, <3>1, <3>2 DEF Owned
    <2>7. u.dev[i] = "DISCONNECTED"
      BY <1>5, <1>6
    <2>8. Deferred(u.calls, cl)
      BY <1>6, <1>10
    <2> QED BY <1>6, <1>7, <1>8, <2>1, <2>2, <2>3, <2>4, <2>5, <2>6, <2>7, <2>8, ConnectsGood
  <1>11. ASSUME Pre, ~x, ~s.reconnect[i] PROVE Good(u, b, cl)
    <2> HIDE DEF d, r
    <2>1. s.active # i
      <3>1. SUFFICES ASSUME s.active = i PROVE FALSE
        OBVIOUS
      <3>2. s.state \in States /\ s.active # None
        BY <3>1, NoneIsNoInterface DEF InTurn, Managers
      <3> QED BY <1>11, <3>1, <3>2 DEF Settled, States, InTurn
    <2>2. Settled(u)
      <3>1. s.active = None \/ s.active \in Interfaces
        BY <1>4 DEF Managers
      <3>2. s.active = None => s.state \in {"INIT", "DEAD"}
        BY DEF InTurn
      <3>3. \A j \in Interfaces : j # u.active => u.dev[j] \notin Going
        BY <1>5, <1>6, <1>11 DEF Settled, Going
      <3>4. \A j \in Interfaces : u.reconnect[j] => u.dev[j] = "DISCONNECTING"
        BY <1>5, <1>6, <1>11 DEF Settled
      <3>5. s.active \in Interfaces =>
              /\ u.dev[u.active] = s.dev[s.active]
              /\ u.reconnect[u.active] <=> s.reconnect[s.active]
        BY <1>5, <1>6, <2>1
      <3> QED BY <1>6, <1>11, <3>1, <3>2, <3>3, <3>4, <3>5 DEF Settled
    <2>3. Safe(u.dev, u.calls, b)
      BY <1>4, <1>6, <1>11, SafeDisconnected DEF d
    <2>4. DisWaits(u, b) /\ ConWaits(u, b) /\ Confirming(u, b)
      BY <1>5, <1>6, <1>11 DEF DisWaits, ConWaits, Confirming
    <2>5. Ordered(u.dev, u.calls)
      BY <1>5, <1>6, <1>11 DEF Ordered, Going
    <2>6. Owned(u, cl)
      <3>1. cl.interface \in Interfaces \cup {None}
        BY DEF Clients, NoClient
      <3>2. cl.interface # i
        BY <1>11, NoneIsNoInterface DEF Owned, UnderWay, Safe, Marked, Going, Sent
      <3> QED BY <1>5, <1>6, <1>11, <3>1, <3>2 DEF Owned
    <2>7. UpWeak(u, b, cl) /\ (s.state # "CONFIRMING" => UpStrong(u, b, cl))
      BY <1>5, <1>6, <1>11 DEF Up, UpWeak, UpStrong
    <2>8. Up(u, b, cl) /\ UpSoon(u, b, cl)
      BY <1>5, <1>6, <1>11, <2>7 DEF Up, UpSoon
    <2>9. Deferred(u.calls, cl)
      BY <1>6, <1>11
    <2> QED BY <2>2, <2>3, <2>4, <2>5, <2>6, <2>8, <2>9 DEF Good, Base
  <1>12. Pre => t.strayed \/ Good(t, b, cl)
    <2> HIDE DEF Pre
    <2>1. CASE s.reconnect[i]
      BY <1>1, <1>8, <1>10, <2>1
    <2>2. CASE ~s.reconnect[i]
      BY <1>1, <1>6, <1>11, <2>2
    <2> QED BY <2>1, <2>2
  <1>13. InTurn(t) /\ Counts(s, t) /\ (s.strayed => t.strayed)
    BY <1>1, <1>2, <1>6, <1>8, <1>9
  <1> QED BY <1>12, <1>13 DEF t

(* An answer to a get_state.  A wrong id is reported as an error first, after *)
(* which the handler looks at the state again.                               *)
LEMMA ConfirmGood ==
  ASSUME NEW s, NEW answer, NEW late, NEW b, NEW cl, InTurn(s)
  PROVE  LET t == ConfirmHandler(s, answer, late) IN
         /\ InTurn(t) /\ Counts(s, t) /\ (t.strayed <=> s.strayed)
         /\ Base(s, b, cl) /\ ConWaits(s, b) /\ UpStrong(s, b, cl) /\ UpSoon(s, b, cl)
              => Good(t, b, cl)
  <1> DEFINE u == IF answer = "right" THEN s ELSE OnInterfaceError(s, s.active, late)
             r == [u EXCEPT !.state = "READY", !.trying[u.active] = FALSE]
             q == [u EXCEPT !.state = "READY"]
             t == ConfirmHandler(s, answer, late)
             Pre == Base(s, b, cl) /\ ConWaits(s, b) /\ UpStrong(s, b, cl) /\ UpSoon(s, b, cl)
  <1>0. s \in Managers /\ s.timers \in Nat /\ (UpStrong(s, b, cl) => UpWeak(s, b, cl))
    BY DEF InTurn, Managers, UpStrong, UpWeak
  <1>1. /\ InTurn(u) /\ Counts(s, u) /\ (u.strayed <=> s.strayed)
        /\ answer = "right" \/ s.active = None => u = s
        /\ answer # "right" /\ s.active # None /\ Pre =>
             Good(u, b, cl) /\ (u.state # "DEAD" => u.dev = s.dev)
    <2>1. CASE answer = "right"
      <3>1. u = s /\ Owed(s) \in Int
        BY <2>1 DEF InTurn, Managers, Owed
      <3> HIDE DEF u
      <3> QED BY <2>1, <3>1 DEF Counts
    <2>2. CASE answer # "right"
      <3> DEFINE e == OnInterfaceError(s, s.active, late)
      <3>1. /\ InTurn(e) /\ Counts(s, e) /\ (e.strayed <=> s.strayed)
            /\ s.active = None => e = s
            /\ s.active # None /\ Base(s, b, cl) /\ UpWeak(s, b, cl) =>
                 Good(e, b, cl) /\ (e.state # "DEAD" => e.dev = s.dev)
        BY ErrorGood
      <3> HIDE DEF e
      <3>2. UpStrong(s, b, cl) => UpWeak(s, b, cl)
        BY DEF UpStrong, UpWeak
      <3> QED BY <2>2, <3>1, <3>2 DEF e
    <2> QED BY <2>1, <2>2
  <1>2. t = CASE answer # "invalid" /\ u.state = "CONFIRMING" -> OnReady(r)
              [] answer # "invalid" /\ u.state = "CONFIRMING_TRANSIENT" -> q
              [] OTHER -> u
    BY DEF ConfirmHandler
  <1> HIDE DEF u, t
  <1>3. u \in Managers /\ u.timers \in Nat /\ Owed(u) \in Int /\ Owed(s) \in Int
    BY <1>0, <1>1 DEF InTurn, Managers, Owed
  <1>4. ASSUME Pre, u.state \in {"CONFIRMING", "CONFIRMING_TRANSIENT"}
        PROVE  Base(u, b, cl) /\ UpStrong(u, b, cl) /\ u.active \in Interfaces
    <2>1. u.active \in Interfaces
      BY <1>1, <1>3, <1>4 DEF InTurn, Managers
    <2>2. CASE u = s
      BY <1>4, <2>1, <2>2
    <2>3. CASE u # s
      <3>1. Good(u, b, cl) /\ u.dev = s.dev
        BY <1>1, <1>4, <2>3
      <3> QED BY <1>4, <2>1, <3>1 DEF Good, UpStrong
    <2> QED BY <2>2, <2>3
  <1>5. ASSUME NEW v, InTurn(v), Readies(u, v), t = v,
               u.state \in {"CONFIRMING", "CONFIRMING_TRANSIENT"}
        PROVE  /\ InTurn(t) /\ Counts(s, t) /\ (t.strayed <=> s.strayed)
               /\ Pre => Good(t, b, cl)
    <2>1. v \in Managers /\ v.state = "READY" /\ v.active = u.active /\ v.timers = u.timers
          /\ (v.strayed <=> u.strayed)
      BY <1>5 DEF InTurn, Readies, Stays
    <2>2. Counts(s, t)
      BY <1>1, <1>3, <1>5, <2>1 DEF Counts, Owed, Timed
    <2>3. Pre => Good(t, b, cl)
      BY <1>3, <1>4, <1>5, <2>1, ReadiesGood
    <2> QED BY <1>1, <1>5, <2>1, <2>2, <2>3
  <1>6. CASE answer # "invalid" /\ u.state = "CONFIRMING"
    <2>1. InTurn(OnReady(r)) /\ Readies(u, OnReady(r))
      BY <1>1, <1>6, Confirmed
    <2>2. t = OnReady(r)
      BY <1>2, <1>6
    <2> HIDE DEF r, Pre
    <2> QED BY <1>5, <1>6, <2>1, <2>2 DEF t, Pre
  <1>7. CASE answer # "invalid" /\ u.state = "CONFIRMING_TRANSIENT"
    <2>1. InTurn(q) /\ Readies(u, q)
      BY <1>1, <1>7, Confirmed
    <2>2. t = q
      BY <1>2, <1>7
    <2> HIDE DEF q, Pre
    <2> QED BY <1>5, <1>7, <2>1, <2>2 DEF t, Pre
  <1>8. CASE answer = "invalid" \/ u.state \notin {"CONFIRMING", "CONFIRMING_TRANSIENT"}
    <2>1. t = u
      BY <1>2, <1>8
    <2>2. ASSUME Pre, u = s PROVE Good(s, b, cl)
      <3>1. s.state \notin {"CONFIRMING", "CONFIRMING_TRANSIENT"}
        <4>1. CASE u.state \notin {"CONFIRMING", "CONFIRMING_TRANSIENT"}
          BY <2>2, <4>1
        <4>2. CASE answer = "invalid" /\ s.active = None
          BY <4>2 DEF InTurn
        <4>3. CASE answer = "invalid" /\ s.active # None /\ u.state = "CONFIRMING"
          <5>1. s.state # "READY"
            BY <2>2, <4>3
          <5> DEFINE e == OnInterfaceError(s, s.active, late)
          <5>2. IF s.state = "READY" THEN Rechecks(s, e) ELSE Dies(s, e)
            BY <4>3, InterfaceError
          <5>3. u = e
            BY <4>3 DEF u
          <5> HIDE DEF e
          <5> QED BY <4>3, <5>1, <5>2, <5>3 DEF Dies
        <4>4. CASE answer = "invalid" /\ s.active # None /\ u.state = "CONFIRMING_TRANSIENT"
          <5> DEFINE e == OnInterfaceError(s, s.active, late)
          <5>1. s.state # "READY"
            BY <2>2, <4>4
          <5>2. IF s.state = "READY" THEN Rechecks(s, e) ELSE Dies(s, e)
            BY <4>4, InterfaceError
          <5>3. u = e
            BY <4>4 DEF u
          <5> HIDE DEF e
          <5> QED BY <4>4, <5>1, <5>2, <5>3 DEF Dies
        <4> QED BY <1>8, <4>1, <4>2, <4>3, <4>4
      <3>2. Up(s, b, cl) /\ Confirming(s, b)
        BY <1>0, <2>2, <3>1 DEF Up, Confirming
      <3> QED BY <2>2, <3>2 DEF Good
    <2>3. Pre => Good(u, b, cl)
      BY <1>1, <2>2
    <2> HIDE DEF Pre
    <2> QED BY <1>1, <2>1, <2>3 DEF t, Pre
  <1> QED BY <1>6, <1>7, <1>8

(* An interface is tried. *)
LEMMA ConnectNextGood ==
  ASSUME NEW s, NEW b, NEW cl \in Clients, InTurn(s)
  PROVE  LET t == ConnectNextInterface(s) IN
         /\ InTurn(t) /\ (t.strayed <=> s.strayed)
         /\ IF s.active = None /\ s.interfaces # << >>
            THEN Owed(t) = Owed(s) + 1 /\ Timed(t) ELSE t = s
         /\ Good(s, b, cl) => Good(t, b, cl)
  <1> DEFINE t == ConnectNextInterface(s)
  <1>1. /\ InTurn(t)
        /\ IF s.active = None /\ s.interfaces # << >> THEN Tries(s, t) ELSE t = s
    BY ConnectNext
  <1> HIDE DEF t
  <1>2. CASE ~(s.active = None /\ s.interfaces # << >>)
    BY <1>1, <1>2 DEF t
  <1>3. CASE s.active = None /\ s.interfaces # << >>
    <2> DEFINE i == t.active
    <2>1. Tries(s, t) /\ s \in Managers /\ t \in Managers
      BY <1>1, <1>3 DEF InTurn
    <2>2. i \in Interfaces
      <3>1. t.state = "CONNECTING"
        BY <2>1 DEF Tries
      <3> QED BY <1>1, <2>1, <3>1 DEF InTurn, Managers
    <2>3. Owed(t) = Owed(s) + 1 /\ Timed(t) /\ (t.strayed <=> s.strayed)
      BY <1>3, <2>1, <2>2, NoneIsNoInterface DEF Tries, Owed, Timed, Managers
    <2>4. ASSUME Good(s, b, cl) PROVE Good(t, b, cl)
      <3>0. /\ \A j \in Interfaces : s.dev[j] \notin Going
            /\ \A j \in Interfaces : s.reconnect[j] => s.dev[j] = "DISCONNECTING"
            /\ Safe(s.dev, s.calls, b) /\ DisWaits(s, b) /\ Owned(s, cl) /\ Deferred(s.calls, cl)
            /\ s.dev \in [Interfaces -> DeviceStates]
            /\ s.reconnect \in [Interfaces -> BOOLEAN]
        BY <1>3, <2>1, <2>4, NoneIsNoInterface DEF Good, Base, Settled, Managers
      <3>1. CASE s.dev[i] = "DISCONNECTED"
        <4>1. /\ t.state = "CONNECTING" /\ t.reconnect = s.reconnect
              /\ t.dev = [s.dev EXCEPT ![i] = "CONNECTING"]
              /\ t.calls = Append(Outdate(s.calls, i), Call("connect", i))
          BY <2>1, <3>1 DEF Tries
        <4> QED BY <2>1, <2>2, <3>0, <3>1, <4>1, ConnectsGood
      <3>2. CASE s.dev[i] = "DISCONNECTING"
        <4>1. /\ t.state = "CONNECTING" /\ t.dev = s.dev /\ t.calls = s.calls
              /\ t.reconnect = [s.reconnect EXCEPT ![i] = TRUE]
          BY <2>1, <3>2 DEF Tries
        <4>2. t.reconnect[i] /\ \A j \in Interfaces : j # i => (t.reconnect[j] <=> s.reconnect[j])
          BY <2>2, <3>0, <4>1
        <4>3. Settled(t)
          BY <3>0, <3>2, <4>1, <4>2 DEF Settled
        <4>4. /\ Safe(t.dev, t.calls, b) /\ DisWaits(t, b) /\ Ordered(t.dev, t.calls)
              /\ Owned(t, cl) /\ Deferred(t.calls, cl)
          BY <2>4, <3>0, <4>1 DEF Good, Base, DisWaits, Owned
        <4>5. ConWaits(t, b) /\ Confirming(t, b)
          BY <3>0, <4>1 DEF ConWaits, Confirming, Going
        <4>6. Up(t, b, cl) /\ UpSoon(t, b, cl)
          BY <3>0, <4>1 DEF Up, UpWeak, UpStrong, UpSoon, Going
        <4> QED BY <4>3, <4>4, <4>5, <4>6 DEF Good, Base
      <3> QED BY <2>2, <3>0, <3>1, <3>2 DEF DeviceStates, Going
    <2> QED BY <1>1, <1>3, <2>3, <2>4 DEF t
  <1> QED BY <1>2, <1>3
-----------------------------------------------------------------------------
(* What is left of the invariant when an answer was taken from the queue and *)
(* its callback runs.                                                        *)
Left(s, b, cl, call, result) ==
  LET i == call.interface IN
  /\ Settled(s) /\ Safe(s.dev, s.calls, b) /\ Ordered(s.dev, s.calls) /\ Owned(s, cl)
  /\ Deferred(s.calls, cl) /\ Up(s, b, cl) /\ UpSoon(s, b, cl)
  /\ \A j \in Interfaces : s.dev[j] = "DISCONNECTING" /\ ~(call.op = "disconnect" /\ j = i) =>
                             UnderWay(s.calls, b, "disconnect", j)
  /\ \A j \in Interfaces : s.dev[j] = "CONNECTING" /\ ~(call.op = "connect" /\ j = i) =>
                             UnderWay(s.calls, b, "connect", j)
  /\ call.op # "confirm" \/ i # s.active => Confirming(s, b)
  /\ call.op = "disconnect" =>
       /\ s.dev[i] = "DISCONNECTING" /\ ~UnderWay(s.calls, b, "disconnect", i)
       /\ AllDropped(s.calls, i) /\ NoneTold(b, i)
  /\ call.op = "connect" /\ call.current =>
       s.dev[i] # "CONNECTED" /\ ~UnderWay(s.calls, b, "connect", i)
  /\ call.op = "connect" /\ result # "failed" =>
       call.current /\ (s.dev[i] = "CONNECTING" => Linked(cl, i) \/ Broke(b, cl, i, 0))
  /\ call.op = "confirm" /\ result # "failed" => UpStrong(s, b, cl)

(* Any callback. *)
LEMMA AnswerGood ==
  ASSUME NEW s, NEW call, NEW result, NEW late, NEW b, NEW cl \in Clients, InTurn(s),
         call.op \in Ops, call.interface \in Interfaces
  PROVE  LET t == OnAnswer(s, call, result, late) IN
         /\ InTurn(t) /\ Counts(s, t) /\ (s.strayed => t.strayed)
         /\ Left(s, b, cl, call, result) => t.strayed \/ Good(t, b, cl)
  <1> DEFINE i == call.interface
             t == OnAnswer(s, call, result, late)
  <1>0. Owed(s) \in Int /\ s \in Managers
    BY DEF InTurn, Managers, Owed
  <1>1. CASE call.op = "connect" /\ result = "failed"
    <2> DEFINE e == OnConnectFailed(s, call, late)
    <2>1. t = e
      BY <1>1 DEF OnAnswer
    <2>2. /\ InTurn(e) /\ Counts(s, e) /\ (s.strayed => e.strayed)
          /\ /\ Base(s, b, cl) /\ WaitsBut(s, b, i) /\ Confirming(s, b) /\ Up(s, b, cl)
             /\ UpSoon(s, b, cl) /\ (call.current => s.dev[i] # "CONNECTED")
             => e.strayed \/ Good(e, b, cl)
      BY ConnectFailedGood
    <2> HIDE DEF t, e
    <2>3. ASSUME Left(s, b, cl, call, result)
          PROVE  /\ Base(s, b, cl) /\ WaitsBut(s, b, i) /\ Confirming(s, b) /\ Up(s, b, cl)
                 /\ UpSoon(s, b, cl) /\ (call.current => s.dev[i] # "CONNECTED")
      BY <1>1, <2>3 DEF Left, Base, DisWaits, WaitsBut
    <2> QED BY <2>1, <2>2, <2>3 DEF t
  <1>2. CASE call.op = "connect" /\ result # "failed"
    <2> DEFINE e == OnConnected(s, call)
    <2>1. t = e
      BY <1>2 DEF OnAnswer
    <2>2. /\ InTurn(e) /\ Counts(s, e) /\ (e.strayed <=> s.strayed)
          /\ /\ Base(s, b, cl) /\ WaitsBut(s, b, i) /\ Confirming(s, b) /\ Up(s, b, cl)
             /\ UpSoon(s, b, cl) /\ ~UnderWay(s.calls, b, "connect", i) /\ call.current
             /\ s.dev[i] = "CONNECTING" => Linked(cl, i) \/ Broke(b, cl, i, 0)
             => Good(e, b, cl)
      BY ConnectedGood
    <2> HIDE DEF t, e
    <2>3. ASSUME Left(s, b, cl, call, result)
          PROVE  /\ Base(s, b, cl) /\ WaitsBut(s, b, i) /\ Confirming(s, b) /\ Up(s, b, cl)
                 /\ UpSoon(s, b, cl) /\ ~UnderWay(s.calls, b, "connect", i) /\ call.current
                 /\ s.dev[i] = "CONNECTING" => Linked(cl, i) \/ Broke(b, cl, i, 0)
      BY <1>2, <2>3 DEF Left, Base, DisWaits, WaitsBut
    <2> QED BY <2>1, <2>2, <2>3 DEF t
  <1>3. CASE call.op = "disconnect"
    <2> DEFINE e == OnDisconnected(s, i)
    <2>1. t = e
      BY <1>3 DEF OnAnswer
    <2>2. /\ InTurn(e) /\ Counts(s, e) /\ (s.strayed => e.strayed)
          /\ /\ Settled(s) /\ Safe(s.dev, s.calls, b) /\ Ordered(s.dev, s.calls) /\ Owned(s, cl)
             /\ Deferred(s.calls, cl)
             /\ \A j \in Interfaces : j # i /\ s.dev[j] = "DISCONNECTING" =>
                                        UnderWay(s.calls, b, "disconnect", j)
             /\ ConWaits(s, b) /\ Confirming(s, b) /\ Up(s, b, cl) /\ UpSoon(s, b, cl)
             /\ s.dev[i] = "DISCONNECTING" /\ ~UnderWay(s.calls, b, "disconnect", i)
             /\ AllDropped(s.calls, i) /\ NoneTold(b, i)
             => e.strayed \/ Good(e, b, cl)
      BY DisconnectedGood
    <2> HIDE DEF t, e
    <2>3. ASSUME Left(s, b, cl, call, result)
          PROVE  /\ Settled(s) /\ Safe(s.dev, s.calls, b) /\ Ordered(s.dev, s.calls)
                 /\ Owned(s, cl) /\ Deferred(s.calls, cl)
                 /\ \A j \in Interfaces : j # i /\ s.dev[j] = "DISCONNECTING" =>
                                            UnderWay(s.calls, b, "disconnect", j)
                 /\ ConWaits(s, b) /\ Confirming(s, b) /\ Up(s, b, cl) /\ UpSoon(s, b, cl)
                 /\ s.dev[i] = "DISCONNECTING" /\ ~UnderWay(s.calls, b, "disconnect", i)
                 /\ AllDropped(s.calls, i) /\ NoneTold(b, i)
      BY <1>3, <2>3 DEF Left, ConWaits
    <2> QED BY <2>1, <2>2, <2>3 DEF t
  <1>4. CASE call.op \in {"confirm", "subscribe"} /\ result = "failed"
    <2> DEFINE e == OnInterfaceError(s, i, late)
    <2>1. t = e
      BY <1>4 DEF OnAnswer
    <2>2. /\ InTurn(e) /\ Counts(s, e) /\ (e.strayed <=> s.strayed)
          /\ i # s.active \/ i = None => e = s
          /\ i = s.active /\ i # None /\ Base(s, b, cl) /\ UpWeak(s, b, cl) => Good(e, b, cl)
      BY ErrorGood
    <2> HIDE DEF t, e
    <2>3. ASSUME Left(s, b, cl, call, result)
          PROVE  /\ Base(s, b, cl) /\ UpWeak(s, b, cl) /\ ConWaits(s, b) /\ UpSoon(s, b, cl)
                 /\ Up(s, b, cl) /\ (i # s.active => Confirming(s, b))
      BY <1>4, <2>3 DEF Left, Base, DisWaits, ConWaits, Up
    <2>4. i # None
      BY NoneIsNoInterface
    <2> QED BY <2>1, <2>2, <2>3, <2>4 DEF t, Good
  <1>5. CASE call.op = "confirm" /\ result # "failed"
    <2> DEFINE e == ConfirmHandler(s, result, late)
    <2>1. t = e
      BY <1>5 DEF OnAnswer
    <2>2. /\ InTurn(e) /\ Counts(s, e) /\ (e.strayed <=> s.strayed)
          /\ Base(s, b, cl) /\ ConWaits(s, b) /\ UpStrong(s, b, cl) /\ UpSoon(s, b, cl)
               => Good(e, b, cl)
      BY ConfirmGood
    <2> HIDE DEF t, e
    <2>3. ASSUME Left(s, b, cl, call, result)
          PROVE  Base(s, b, cl) /\ ConWaits(s, b) /\ UpStrong(s, b, cl) /\ UpSoon(s, b, cl)
      BY <1>5, <2>3 DEF Left, Base, DisWaits, ConWaits
    <2> QED BY <2>1, <2>2, <2>3 DEF t
  <1>6. CASE call.op = "subscribe" /\ result # "failed"
    <2>1. t = [s EXCEPT !.listed = TRUE]
      BY <1>6 DEF OnAnswer
    <2>2. /\ t \in Managers /\ t.state = s.state /\ t.active = s.active /\ t.told = s.told
          /\ t.interfaces = s.interfaces /\ t.timers = s.timers /\ (t.strayed <=> s.strayed)
          /\ t.dev = s.dev /\ t.calls = s.calls /\ t.reconnect = s.reconnect
      BY <1>0, <2>1 DEF Managers
    <2> HIDE DEF t
    <2>3. InTurn(t) /\ Counts(s, t)
      BY <1>0, <2>2 DEF InTurn, Counts, Owed, Timed
    <2>4. ASSUME Left(s, b, cl, call, result) PROVE Good(t, b, cl)
      <3>1. Base(t, b, cl)
        BY <1>6, <2>2, <2>4 DEF Left, Base, Settled, DisWaits, Owned
      <3>2. ConWaits(t, b) /\ Confirming(t, b)
        BY <1>6, <2>2, <2>4 DEF Left, ConWaits, Confirming
      <3>3. UpWeak(t, b, cl) /\ (t.state # "CONFIRMING" => UpStrong(t, b, cl))
        BY <2>2, <2>4 DEF Left, Up, UpWeak, UpStrong
      <3>4. Up(t, b, cl) /\ UpSoon(t, b, cl)
        BY <2>2, <2>4, <3>3 DEF Left, Up, UpSoon
      <3> QED BY <3>1, <3>2, <3>4 DEF Good
    <2> QED BY <2>2, <2>3, <2>4 DEF t
  <1> QED BY <1>1, <1>2, <1>3, <1>4, <1>5, <1>6 DEF Ops
-----------------------------------------------------------------------------
(* The manager takes a message or a call from its queue. *)

(* A queue without its first element. *)
LEMMA TailFacts ==
  ASSUME NEW S, NEW b \in Seq(S), b # << >>
  PROVE  LET q == Tail(b) IN
         /\ q \in Seq(S) /\ Len(b) \in Nat \ {0} /\ Len(q) = Len(b) - 1 /\ Head(b) = b[1]
         /\ 1 \in 1 .. Len(b) /\ b[1] \in S
         /\ \A n \in 1 .. Len(q) : n + 1 \in 1 .. Len(b) /\ q[n] = b[n + 1]
         /\ \A n \in 1 .. Len(b) : n # 1 => n - 1 \in 1 .. Len(q) /\ q[n - 1] = b[n]
  <1> DEFINE q == Tail(b)
  <1>1. /\ q \in Seq(S) /\ Len(b) \in Nat \ {0} /\ Len(q) = Len(b) - 1 /\ Head(b) = b[1]
        /\ \A n \in 1 .. Len(q) : q[n] = b[n + 1]
    BY HeadTailProperties, EmptySeq
  <1>2. 1 \in 1 .. Len(b) /\ b[1] \in S
    BY <1>1, ElementOfSeq
  <1> HIDE DEF q
  <1>3. \A n \in 1 .. Len(b) : n # 1 => n - 1 \in 1 .. Len(q) /\ q[n - 1] = b[(n - 1) + 1]
    BY <1>1
  <1>4. \A n \in 1 .. Len(b) : (n - 1) + 1 = n
    BY <1>1
  <1> QED BY <1>1, <1>2, <1>3, <1>4 DEF q

(* A message is read: what was under way still is, but for an answer to it,  *)
(* and an error that is yet to come stays so unless it was this one.         *)
LEMMA ReadFacts ==
  ASSUME NEW c, NEW b \in Seq(Messages), NEW cl, b # << >>
  PROVE  LET q == Tail(b) IN
         /\ \A o, j : UnderWay(c, b, o, j) => UnderWay(c, q, o, j) \/ Told(b, 1, o, j)
         /\ NoConfirm(b) => NoConfirm(q)
         /\ \A i : Broke(b, cl, i, 0) => Broke(q, cl, i, 0)
                                           \/ (b[1] = Error(i) /\ cl = NoClient /\ NoConfirm(q))
         /\ \A i, n : n \in 1 .. Len(b) /\ Broke(b, cl, i, n) => Broke(q, cl, i, n - 1)
  <1> DEFINE q == Tail(b)
  <1>1. /\ Len(b) \in Nat \ {0} /\ Len(q) = Len(b) - 1
        /\ \A n \in 1 .. Len(q) : n + 1 \in 1 .. Len(b) /\ q[n] = b[n + 1]
        /\ \A n \in 1 .. Len(b) : n # 1 => n - 1 \in 1 .. Len(q) /\ q[n - 1] = b[n]
    BY TailFacts
  <1> HIDE DEF q
  <1>2. \A o, j : UnderWay(c, b, o, j) => UnderWay(c, q, o, j) \/ Told(b, 1, o, j)
    BY <1>1 DEF UnderWay, Told
  <1>3. \A n \in 1 .. Len(q) : Confirms(q, n) <=> Confirms(b, n + 1)
    BY <1>1 DEF Confirms
  <1>4. NoConfirm(b) => NoConfirm(q)
    BY <1>1, <1>3 DEF NoConfirm
  <1>5. ASSUME NEW i, NEW f \in Nat, NEW k \in 1 .. Len(b), cl = NoClient, f < k - 1, b[k] = Error(i),
               \A n \in 1 .. Len(b) : Confirms(b, n) => n < k
        PROVE  Broke(q, cl, i, f)
    <2>1. k - 1 \in 1 .. Len(q) /\ q[k - 1] = Error(i)
      BY <1>1, <1>5
    <2>2. ASSUME NEW n \in 1 .. Len(q), Confirms(q, n) PROVE n < k - 1
      <3>1. n + 1 < k
        BY <1>1, <1>3, <1>5, <2>2
      <3> QED BY <1>1, <3>1
    <2> QED BY <1>5, <2>1, <2>2 DEF Broke
  <1>6. ASSUME NEW i, Broke(b, cl, i, 0)
        PROVE  Broke(q, cl, i, 0) \/ (b[1] = Error(i) /\ cl = NoClient /\ NoConfirm(q))
    <2>1. PICK k \in 1 .. Len(b) :
            b[k] = Error(i) /\ \A n \in 1 .. Len(b) : Confirms(b, n) => n < k
      BY <1>6 DEF Broke
    <2>2. CASE k = 1
      BY <1>1, <1>4, <1>6, <2>1, <2>2 DEF NoConfirm, Broke
    <2>3. CASE k # 1
      <3>1. cl = NoClient /\ 0 < k - 1
        BY <1>1, <1>6, <2>3 DEF Broke
      <3> QED BY <1>5, <2>1, <3>1
    <2> QED BY <2>2, <2>3
  <1>7. ASSUME NEW i, NEW n \in 1 .. Len(b), Broke(b, cl, i, n) PROVE Broke(q, cl, i, n - 1)
    <2>1. PICK k \in 1 .. Len(b) :
            n < k /\ b[k] = Error(i) /\ \A a \in 1 .. Len(b) : Confirms(b, a) => a < k
      BY <1>7 DEF Broke
    <2>2. cl = NoClient /\ n - 1 \in Nat /\ n - 1 < k - 1
      BY <1>1, <1>7, <2>1 DEF Broke
    <2> QED BY <1>5, <2>1, <2>2
  <1> QED BY <1>2, <1>4, <1>6, <1>7 DEF q

(* An answer is read. *)
LEMMA PopAnswer ==
  ASSUME NEW s \in Managers, NEW b \in Seq(Messages), NEW cl, b # << >>,
         Head(b).kind = "answer", Good(s, b, cl)
  PROVE  /\ Left(s, Tail(b), cl, Head(b).call, Head(b).result)
         /\ Head(b).call.op \in Ops /\ Head(b).call.interface \in Interfaces
  <1> DEFINE q == Tail(b)
             call == Head(b).call
             i == call.interface
             result == Head(b).result
             c == s.calls
  <1>1. /\ Len(b) \in Nat \ {0} /\ Len(q) = Len(b) - 1 /\ Head(b) = b[1]
        /\ 1 \in 1 .. Len(b) /\ b[1] \in Messages
        /\ \A n \in 1 .. Len(q) : n + 1 \in 1 .. Len(b) /\ q[n] = b[n + 1]
    BY TailFacts
  <1>2. call.op \in Ops /\ i \in Interfaces /\ \A j : b[1] # Error(j)
    BY <1>1 DEF Messages, Answered, Error
  <1>3. Told(b, 1, call.op, i) /\ call.current
    BY <1>1 DEF Told, Good, Base, Safe, Marked
  <1>4. \A o, j : Told(b, 1, o, j) => o = call.op /\ j = i
    BY <1>1 DEF Told
  <1>5. /\ \A o, j : UnderWay(c, b, o, j) => UnderWay(c, q, o, j) \/ Told(b, 1, o, j)
        /\ NoConfirm(b) => NoConfirm(q)
        /\ \A j : Broke(b, cl, j, 0) => Broke(q, cl, j, 0)
        /\ \A j, n : n \in 1 .. Len(b) /\ Broke(b, cl, j, n) => Broke(q, cl, j, n - 1)
    BY <1>2, ReadFacts
  <1>6. s.calls \in Seq(Calls)
    BY DEF Managers
  <1>7. Safe(s.dev, c, q)
    BY <1>6, SafeTails DEF Good, Base
  <1>8. UnderWay(c, b, call.op, i)
    BY <1>1, <1>3 DEF UnderWay
  <1>9. result # "failed" /\ call.op = "confirm" => ~NoConfirm(b)
    BY <1>1 DEF NoConfirm, Confirms
  <1>10. \A n \in 1 .. Len(q) : n + 1 # 1 /\ (n + 1) - 1 = n
    BY <1>1
  <1>11. call.op \in {"connect", "disconnect"} => ~UnderWay(c, q, call.op, i)
    <2>1. SUFFICES ASSUME call.op \in {"connect", "disconnect"} PROVE ~UnderWay(c, q, call.op, i)
      OBVIOUS
    <2>2. \A n \in 1 .. Len(c) : ~(Sent(c, n, call.op, i) /\ c[n].current)
      BY <1>1, <1>2, <1>3, <2>1 DEF Good, Base, Safe, Single
    <2>3. \A n \in 1 .. Len(b) : Told(b, n, call.op, i) => n = 1
      BY <1>1, <1>2, <1>3, <2>1 DEF Good, Base, Safe, Single
    <2>4. \A n \in 1 .. Len(q) : Told(q, n, call.op, i) => Told(b, n + 1, call.op, i)
      BY <1>1 DEF Told
    <2> QED BY <1>1, <1>10, <2>2, <2>3, <2>4 DEF UnderWay
  <1>12. UpWeak(s, q, cl) /\ (UpStrong(s, b, cl) => UpStrong(s, q, cl))
    BY <1>5 DEF Good, Up, UpWeak, UpStrong
  <1>13. ASSUME NEW j \in Interfaces, s.dev[j] = "CONNECTING", NEW n \in 1 .. Len(q),
                Told(q, n, "connect", j), q[n].result # "failed"
         PROVE  Linked(cl, j) \/ Broke(q, cl, j, n)
    <2>1. Told(b, n + 1, "connect", j) /\ b[n + 1].result # "failed" /\ n + 1 \in 1 .. Len(b)
      BY <1>1, <1>13 DEF Told
    <2>2. Linked(cl, j) \/ Broke(b, cl, j, n + 1)
      BY <1>13, <2>1 DEF Good, UpSoon
    <2> QED BY <1>5, <1>10, <2>1, <2>2
  <1>14. /\ call.op = "connect" /\ result # "failed" /\ s.dev[i] = "CONNECTING"
              => Linked(cl, i) \/ Broke(q, cl, i, 0)
         /\ call.op = "confirm" /\ result # "failed" => UpStrong(s, q, cl)
    <2>1. ASSUME call.op = "connect", result # "failed", s.dev[i] = "CONNECTING"
          PROVE  Linked(cl, i) \/ Broke(q, cl, i, 0)
      <3>1. Linked(cl, i) \/ Broke(b, cl, i, 1)
        BY <1>1, <1>2, <1>3, <2>1 DEF Good, UpSoon
      <3>2. 1 - 1 = 0
        OBVIOUS
      <3> QED BY <1>1, <1>5, <3>1, <3>2
    <2>2. ASSUME call.op = "confirm", result # "failed" PROVE UpStrong(s, q, cl)
      BY <1>5, <1>9, <2>2 DEF Good, Up, UpWeak, UpStrong
    <2> QED BY <2>1, <2>2
  <1>15. call.op = "disconnect" => /\ s.dev[i] = "DISCONNECTING" /\ AllDropped(c, i)
                                   /\ NoneTold(q, i)
    <2>1. SUFFICES ASSUME call.op = "disconnect"
                   PROVE  s.dev[i] = "DISCONNECTING" /\ AllDropped(c, i) /\ NoneTold(q, i)
      OBVIOUS
    <2>2. s.dev[i] = "DISCONNECTING"
      BY <1>2, <1>8, <2>1 DEF Good, Base, Safe, ByState
    <2>3. AllDropped(c, i) /\ \A n \in 1 .. Len(b) : Told(b, n, "connect", i) => n < 1
      BY <1>1, <1>2, <1>3, <2>1 DEF Good, Base, Safe, Behind
    <2>4. NoneTold(q, i)
      BY <1>1, <2>3 DEF NoneTold, Told
    <2> QED BY <2>2, <2>3, <2>4
  <1>16. call.op = "connect" => s.dev[i] # "CONNECTED"
    BY <1>2, <1>8 DEF Good, Base, Safe, ByState
  <1> HIDE DEF q, call, result, c, i
  <1>17. /\ \A j \in Interfaces : s.dev[j] = "DISCONNECTING" /\ ~(call.op = "disconnect" /\ j = i)
                                   => UnderWay(c, q, "disconnect", j)
         /\ \A j \in Interfaces : s.dev[j] = "CONNECTING" /\ ~(call.op = "connect" /\ j = i)
                                   => UnderWay(c, q, "connect", j)
         /\ call.op # "confirm" \/ i # s.active => Confirming(s, q)
    BY <1>4, <1>5 DEF Good, Base, DisWaits, ConWaits, Confirming, c
  <1>18. Up(s, q, cl) /\ UpSoon(s, q, cl)
    BY <1>12, <1>13 DEF Good, Up, UpSoon
  <1>19. Settled(s) /\ Ordered(s.dev, c) /\ Owned(s, cl) /\ Deferred(c, cl)
    BY DEF Good, Base, c
  <1>20. i = call.interface
    BY DEF i
  <1>21. Left(s, q, cl, call, result)
    BY <1>3, <1>7, <1>11, <1>14, <1>15, <1>16, <1>17, <1>18, <1>19, <1>20 DEF Left, c
  <1> QED BY <1>2, <1>20, <1>21 DEF q, call, result

(* A call has waited for its 15 seconds: urelay has seen it, so it is not a  *)
(* disconnect.                                                               *)
LEMMA PopCall ==
  ASSUME NEW s \in Managers, NEW b \in Seq(Messages), NEW cl, s.calls # << >>,
         Head(s.calls).at # "queued",
         Good(s, b, cl)
  PROVE  Left([s EXCEPT !.calls = Tail(@)], b, cl, Head(s.calls), "failed")
  <1> DEFINE c == s.calls
             q == Tail(c)
             t == [s EXCEPT !.calls = q]
             call == Head(c)
             i == call.interface
  <1>0. c \in Seq(Calls)
    BY DEF Managers
  <1>1. /\ q \in Seq(Calls) /\ Len(c) \in Nat \ {0} /\ Len(q) = Len(c) - 1 /\ Head(c) = c[1]
        /\ 1 \in 1 .. Len(c) /\ c[1] \in Calls
        /\ \A n \in 1 .. Len(q) : n + 1 \in 1 .. Len(c) /\ q[n] = c[n + 1]
        /\ \A n \in 1 .. Len(c) : n # 1 => n - 1 \in 1 .. Len(q) /\ q[n - 1] = c[n]
    BY <1>0, TailFacts
  <1>2. /\ t.calls = q /\ t.dev = s.dev /\ t.state = s.state /\ t.active = s.active
        /\ t.reconnect = s.reconnect
    BY DEF Managers
  <1>3. call.op # "disconnect" /\ i \in Interfaces /\ call.op \in Ops
    BY <1>1 DEF Good, Base, Safe, Marked, Calls
  <1>4. ASSUME NEW o, NEW j, UnderWay(c, b, o, j), ~UnderWay(q, b, o, j)
        PROVE  o = call.op /\ j = i
    <2>1. PICK n \in 1 .. Len(c) : Sent(c, n, o, j) /\ c[n].current
      BY <1>4 DEF UnderWay
    <2>2. n = 1
      BY <1>1, <1>4, <2>1 DEF UnderWay, Sent
    <2> QED BY <1>1, <2>1, <2>2 DEF Sent
  <1>5. Safe(s.dev, q, b)
    BY <1>0, SafeTails DEF Good, Base
  <1>6. call.current => UnderWay(c, b, call.op, i)
    BY <1>1 DEF UnderWay, Sent
  <1>7. ASSUME call.op = "connect", call.current PROVE ~UnderWay(q, b, "connect", i)
    <2>1. /\ \A n \in 1 .. Len(c) : Sent(c, n, "connect", i) /\ c[n].current => n = 1
          /\ \A n \in 1 .. Len(b) : ~Told(b, n, "connect", i)
      BY <1>1, <1>3, <1>7 DEF Good, Base, Safe, Single, Sent
    <2>2. \A n \in 1 .. Len(q) : n + 1 # 1
      BY <1>1
    <2> QED BY <1>1, <2>1, <2>2 DEF UnderWay, Sent
  <1>8. call.op = "connect" /\ call.current => s.dev[i] # "CONNECTED"
    BY <1>3, <1>6 DEF Good, Base, Safe, ByState
  <1>9. Deferred(q, cl)
    BY <1>1 DEF Good, Base, Deferred
  <1>10. Ordered(s.dev, q)
    <2> SUFFICES ASSUME NEW j \in Interfaces, s.dev[j] \in Going, NEW k \in 1 .. Len(q),
                        q[k].at = "queued", q[k].op \in {"connect", "disconnect"}
                 PROVE  \E n \in 1 .. Len(q) : /\ k <= n /\ Sent(q, n, "connect", j)
                                               /\ q[n].current /\ q[n].at = "queued"
      BY DEF Ordered
    <2>1. PICK n \in 1 .. Len(c) : /\ k + 1 <= n /\ Sent(c, n, "connect", j)
                                   /\ c[n].current /\ c[n].at = "queued"
      BY <1>1 DEF Good, Base, Ordered
    <2>2. n # 1 /\ k <= n - 1
      BY <1>1, <2>1
    <2> QED BY <1>1, <2>1, <2>2 DEF Sent
  <1>11. Owned(t, cl)
    <2> SUFFICES ASSUME cl.interface # None, s.dev[cl.interface] \notin Going
                 PROVE  \E k \in 1 .. Len(q) : Sent(q, k, "disconnect", cl.interface)
      BY <1>2 DEF Owned
    <2>1. PICK k \in 1 .. Len(c) : Sent(c, k, "disconnect", cl.interface)
      BY DEF Good, Base, Owned
    <2>2. k # 1
      BY <1>1, <1>3, <2>1 DEF Sent
    <2> QED BY <1>1, <2>1, <2>2 DEF Sent
  <1> HIDE DEF c, q, t, call, i
  <1>12. /\ Settled(t) /\ UpSoon(t, b, cl)
    BY <1>2 DEF Good, Base, Settled, UpSoon
  <1>13. Up(t, b, cl)
    BY <1>2 DEF Good, Up, UpWeak, UpStrong
  <1>14. /\ \A j \in Interfaces : s.dev[j] = "DISCONNECTING" => UnderWay(q, b, "disconnect", j)
         /\ \A j \in Interfaces : s.dev[j] = "CONNECTING" /\ ~(call.op = "connect" /\ j = i)
                                   => UnderWay(q, b, "connect", j)
         /\ call.op # "confirm" \/ i # s.active => Confirming(t, b)
    BY <1>2, <1>3, <1>4 DEF Good, Base, DisWaits, ConWaits, Confirming, c
  <1>15. i = call.interface
    BY DEF i
  <1>16. Left(t, b, cl, call, "failed")
    BY <1>2, <1>3, <1>5, <1>7, <1>8, <1>9, <1>10, <1>11, <1>12, <1>13, <1>14, <1>15 DEF Left
  <1> QED BY <1>16 DEF t, q, c, call

(* urelay's error is read. *)
LEMMA PopError ==
  ASSUME NEW s \in Managers, NEW b \in Seq(Messages), NEW cl, b # << >>,
         Head(b).kind # "answer", Good(s, b, cl)
  PROVE  /\ Base(s, Tail(b), cl) /\ UpWeak(s, Tail(b), cl) /\ Head(b).interface \in Interfaces
         /\ Head(b).interface # s.active => Good(s, Tail(b), cl)
  <1> DEFINE q == Tail(b)
             i == Head(b).interface
             c == s.calls
  <1>1. /\ Len(b) \in Nat \ {0} /\ Len(q) = Len(b) - 1 /\ Head(b) = b[1]
        /\ 1 \in 1 .. Len(b) /\ b[1] \in Messages
        /\ \A n \in 1 .. Len(q) : n + 1 \in 1 .. Len(b) /\ q[n] = b[n + 1]
    BY TailFacts
  <1>2. i \in Interfaces /\ \A j : b[1] = Error(j) => j = i
    BY <1>1 DEF Messages, Error
  <1>3. \A o, j : ~Told(b, 1, o, j)
    BY <1>1 DEF Told
  <1>4. /\ \A o, j : UnderWay(c, b, o, j) => UnderWay(c, q, o, j)
        /\ NoConfirm(b) => NoConfirm(q)
        /\ \A j : Broke(b, cl, j, 0) => \/ Broke(q, cl, j, 0)
                                        \/ (j = i /\ cl = NoClient /\ NoConfirm(q))
        /\ \A j, n : n \in 1 .. Len(b) /\ Broke(b, cl, j, n) => Broke(q, cl, j, n - 1)
    BY <1>2, <1>3, ReadFacts
  <1>5. Safe(s.dev, c, q)
    BY SafeTails DEF Managers, Good, Base
  <1>6. UpWeak(s, q, cl)
    BY <1>4 DEF Good, Up, UpWeak
  <1>7. \A n \in 1 .. Len(q) : (n + 1) - 1 = n
    BY <1>1
  <1>8. ASSUME NEW j \in Interfaces, s.dev[j] = "CONNECTING", NEW n \in 1 .. Len(q),
               Told(q, n, "connect", j), q[n].result # "failed"
        PROVE  Linked(cl, j) \/ Broke(q, cl, j, n)
    <2>1. Told(b, n + 1, "connect", j) /\ b[n + 1].result # "failed" /\ n + 1 \in 1 .. Len(b)
      BY <1>1, <1>8 DEF Told
    <2>2. Linked(cl, j) \/ Broke(b, cl, j, n + 1)
      BY <1>8, <2>1 DEF Good, UpSoon
    <2> QED BY <1>4, <1>7, <2>1, <2>2
  <1> HIDE DEF q, i, c
  <1>9. Base(s, q, cl)
    BY <1>4, <1>5 DEF Good, Base, DisWaits, c
  <1>10. ConWaits(s, q) /\ Confirming(s, q) /\ UpSoon(s, q, cl)
    BY <1>4, <1>8 DEF Good, ConWaits, Confirming, UpSoon, c
  <1>11. ASSUME i # s.active PROVE Up(s, q, cl)
    <2>1. s.dev[i] # "CONNECTED"
      BY <1>2, <1>11 DEF Good, Base, Settled, Going
    <2>2. UpStrong(s, b, cl) => UpStrong(s, q, cl)
      BY <1>4, <2>1 DEF UpStrong
    <2> QED BY <1>6, <2>2 DEF Good, Up
  <1>12. i # s.active => Good(s, q, cl)
    BY <1>9, <1>10, <1>11 DEF Good
  <1> QED BY <1>2, <1>6, <1>9, <1>12 DEF q, i
-----------------------------------------------------------------------------
(* The steps of the manager. *)

(* The inductive invariant. *)
Inv ==
  /\ InTurn(m) /\ Timed(m) /\ Owed(m) <= finds /\ finds \in Nat /\ finds <= MaxFinds
  /\ inbox \in Seq(Messages) /\ client \in Clients
  /\ m.strayed \/ Good(m, inbox, client)

(* A state with fields changed that Good does not speak of. *)
LEMMA SameGood ==
  ASSUME NEW s, NEW t, NEW b, NEW cl, Good(s, b, cl), t.state = s.state, t.active = s.active,
         t.dev = s.dev, t.reconnect = s.reconnect, t.calls = s.calls
  PROVE  Good(t, b, cl)
  <1>1. Base(t, b, cl)
    BY DEF Good, Base, Settled, DisWaits, Owned
  <1>2. ConWaits(t, b) /\ Confirming(t, b) /\ UpSoon(t, b, cl)
    BY DEF Good, ConWaits, Confirming, UpSoon
  <1>3. UpWeak(t, b, cl) /\ (t.state # "CONFIRMING" => UpStrong(t, b, cl))
    BY DEF Good, Up, UpWeak, UpStrong
  <1> QED BY <1>1, <1>2, <1>3 DEF Good, Up

(* A message is read. *)
LEMMA HandleMessageStep == ASSUME Inv, HandleMessage PROVE Inv'
  <1> DEFINE b == Tail(inbox)
             msg == Head(inbox)
  <1>1. PICK late \in BOOLEAN :
          m' = CASE msg.kind = "answer" -> OnAnswer(m, msg.call, msg.result, late)
                 [] OTHER -> IF m.active # None /\ Ip[m.active] = Ip[msg.interface]
                             THEN OnInterfaceError(m, m.active, late) ELSE m
    BY DEF HandleMessage
  <1>2. inbox # << >> /\ inbox' = b /\ client' = client /\ finds' = finds
    BY DEF HandleMessage, world
  <1>3. /\ inbox \in Seq(Messages) /\ InTurn(m) /\ m \in Managers /\ client \in Clients
        /\ Owed(m) \in Int
    BY DEF Inv, InTurn, Managers, Owed
  <1>4. b \in Seq(Messages) /\ msg \in Messages
    BY <1>2, <1>3, TailFacts
  <1> HIDE DEF b, msg
  <1>5. SUFFICES InTurn(m') /\ Counts(m, m') /\ (m'.strayed \/ Good(m', b, client))
    <2>1. Owed(m') \in Int
      BY <1>5 DEF InTurn, Managers, Owed
    <2>2. Owed(m') <= finds /\ Timed(m')
      BY <1>3, <1>5, <2>1 DEF Inv, Counts
    <2> QED BY <1>2, <1>4, <1>5, <2>2 DEF Inv, InTurn, Timed, Owed, Good, Base, Settled, Safe, DisWaits, ConWaits
  <1>6. CASE msg.kind = "answer"
    <2> DEFINE t == OnAnswer(m, msg.call, msg.result, late)
    <2>1. msg.call.op \in Ops /\ msg.call.interface \in Interfaces
      BY <1>4, <1>6 DEF Messages, Answered
    <2>2. /\ InTurn(t) /\ Counts(m, t) /\ (m.strayed => t.strayed)
          /\ Left(m, b, client, msg.call, msg.result) => t.strayed \/ Good(t, b, client)
      BY <1>3, <2>1, AnswerGood
    <2>3. Good(m, inbox, client) => Left(m, b, client, msg.call, msg.result)
      BY <1>2, <1>3, <1>6, PopAnswer DEF b, msg
    <2>4. m' = t
      BY <1>1, <1>6
    <2> HIDE DEF t
    <2> QED BY <2>2, <2>3, <2>4 DEF Inv
  <1>7. CASE msg.kind # "answer"
    <2> DEFINE t == OnInterfaceError(m, m.active, late)
    <2>1. msg.interface \in Interfaces
      BY <1>4, <1>7 DEF Messages
    <2>2. Good(m, inbox, client) => /\ Base(m, b, client) /\ UpWeak(m, b, client)
                                    /\ msg.interface # m.active => Good(m, b, client)
      BY <1>2, <1>3, <1>7, PopError DEF b, msg
    <2>3. CASE m.active # None /\ Ip[m.active] = Ip[msg.interface]
      <3>1. /\ InTurn(t) /\ Counts(m, t) /\ (t.strayed <=> m.strayed)
            /\ m.active # None /\ Base(m, b, client) /\ UpWeak(m, b, client) => Good(t, b, client)
        BY <1>3, ErrorGood
      <3>2. m' = t
        BY <1>1, <1>7, <2>3
      <3> HIDE DEF t
      <3> QED BY <2>2, <2>3, <3>1, <3>2 DEF Inv
    <2>4. CASE ~(m.active # None /\ Ip[m.active] = Ip[msg.interface])
      <3>1. m' = m /\ msg.interface # m.active
        BY <1>1, <1>7, <2>1, <2>4, NoneIsNoInterface
      <3> QED BY <1>3, <2>2, <3>1 DEF Inv, Counts
    <2> QED BY <2>3, <2>4
  <1> QED BY <1>6, <1>7

(* The oldest call is given up. *)
LEMMA CallTimesOutStep == ASSUME Inv, CallTimesOut PROVE Inv'
  <1> DEFINE q == Tail(m.calls)
             s == [m EXCEPT !.calls = q]
             call == Head(m.calls)
  <1>1. PICK late \in BOOLEAN : m' = OnAnswer(s, call, "failed", late)
    BY DEF CallTimesOut
  <1>2. /\ m.calls # << >> /\ call.at # "queued" /\ inbox' = inbox /\ client' = client
        /\ finds' = finds
    BY DEF CallTimesOut, relay, world
  <1>3. /\ inbox \in Seq(Messages) /\ InTurn(m) /\ m \in Managers /\ client \in Clients
        /\ Owed(m) \in Int /\ m.calls \in Seq(Calls)
    BY DEF Inv, InTurn, Managers, Owed
  <1>4. q \in Seq(Calls) /\ call \in Calls
    BY <1>2, <1>3, TailFacts
  <1>5. call.op \in Ops /\ call.interface \in Interfaces
    BY <1>4 DEF Calls
  <1>6. /\ s \in Managers /\ s.state = m.state /\ s.active = m.active /\ s.told = m.told
        /\ s.interfaces = m.interfaces /\ s.timers = m.timers /\ (s.strayed <=> m.strayed)
    BY <1>3, <1>4 DEF Managers
  <1>7. Good(m, inbox, client) => Left(s, inbox, client, call, "failed")
    BY <1>2, <1>3, PopCall
  <1> HIDE DEF q, s, call
  <1>8. InTurn(s) /\ Owed(s) = Owed(m) /\ (Timed(m) => Timed(s))
    BY <1>3, <1>6 DEF InTurn, Owed, Timed
  <1> DEFINE t == OnAnswer(s, call, "failed", late)
  <1>9. /\ InTurn(t) /\ Counts(s, t) /\ (s.strayed => t.strayed)
        /\ Left(s, inbox, client, call, "failed") => t.strayed \/ Good(t, inbox, client)
    BY <1>3, <1>5, <1>8, AnswerGood
  <1> HIDE DEF t
  <1>10. Owed(t) \in Int
    BY <1>9 DEF InTurn, Managers, Owed
  <1>11. /\ InTurn(t) /\ Timed(t) /\ Owed(t) <= finds /\ (t.strayed \/ Good(t, inbox, client))
    BY <1>3, <1>6, <1>7, <1>8, <1>9, <1>10 DEF Inv, Counts
  <1>12. m' = t
    BY <1>1 DEF t
  <1> QED BY <1>2, <1>11, <1>12 DEF Inv

(* A retry timer fires. *)
LEMMA RetryTimerStep == ASSUME Inv, RetryTimer PROVE Inv'
  <1> DEFINE k == m.timers - 1
             s == [m EXCEPT !.timers = k]
  <1>1. /\ m' = IF s.state = "DEAD" THEN ConnectNextInterface(s) ELSE s
        /\ m.timers > 0 /\ inbox' = inbox /\ client' = client /\ finds' = finds
    BY DEF RetryTimer, relay, world
  <1>2. /\ inbox \in Seq(Messages) /\ InTurn(m) /\ m \in Managers /\ client \in Clients
        /\ Owed(m) \in Int /\ m.timers \in Nat
    BY DEF Inv, InTurn, Managers, Owed
  <1>3. k \in Nat
    BY <1>1, <1>2
  <1> HIDE DEF k
  <1>4. /\ s \in Managers /\ s.state = m.state /\ s.active = m.active /\ s.told = m.told
        /\ s.interfaces = m.interfaces /\ s.timers = k /\ (s.strayed <=> m.strayed)
        /\ s.dev = m.dev /\ s.reconnect = m.reconnect /\ s.calls = m.calls
    BY <1>2, <1>3 DEF Managers
  <1> HIDE DEF s
  <1>5. InTurn(s) /\ (Good(m, inbox, client) => Good(s, inbox, client))
    BY <1>2, <1>4, SameGood DEF InTurn
  <1>6. Owed(s) + 1 = Owed(m) /\ Owed(s) \in Int
    BY <1>2, <1>3, <1>4 DEF Owed, k
  <1> DEFINE t == IF s.state = "DEAD" THEN ConnectNextInterface(s) ELSE s
  <1>7. InTurn(t) /\ Timed(t) /\ Owed(t) <= finds /\ (t.strayed \/ Good(t, inbox, client))
    <2>1. CASE s.state # "DEAD"
      <3>1. t = s
        BY <2>1
      <3> HIDE DEF t
      <3> QED BY <1>4, <1>5, <1>6, <2>1, <3>1 DEF Inv, Timed
    <2>2. CASE s.state = "DEAD"
      <3> DEFINE e == ConnectNextInterface(s)
      <3>1. /\ InTurn(e) /\ (e.strayed <=> s.strayed)
            /\ IF s.active = None /\ s.interfaces # << >>
               THEN Owed(e) = Owed(s) + 1 /\ Timed(e) ELSE e = s
            /\ Good(s, inbox, client) => Good(e, inbox, client)
        BY <1>2, <1>5, ConnectNextGood
      <3>2. t = e
        BY <2>2
      <3> HIDE DEF t, e
      <3>3. s.active = None
        BY <1>5, <2>2 DEF InTurn
      <3> QED BY <1>4, <1>5, <1>6, <3>1, <3>2, <3>3 DEF Inv, Timed
    <2> QED BY <2>1, <2>2
  <1> HIDE DEF t
  <1>8. m' = t
    BY <1>1 DEF t
  <1> QED BY <1>1, <1>7, <1>8 DEF Inv

(* Discovery announces an address. *)
LEMMA AddInterfaceStep ==
  ASSUME Inv, MaxFinds \in Nat, NEW address, AddInterface(address) PROVE Inv'
  <1> DEFINE known == {i \in ToSet(m.interfaces) : Ip[i] = address}
             new == {i \in Interfaces \ ToSet(m.interfaces) : Ip[i] = address /\ ~m.trying[i]}
             i == CHOOSE i \in IF known = {} THEN new ELSE known : TRUE
             r == [m.removed EXCEPT ![i] = FALSE]
             l == IF known = {} THEN Append(m.interfaces, i) ELSE m.interfaces
             s == [m EXCEPT !.removed = r, !.interfaces = l]
             t == ConnectNextInterface(s)
  <1>1. /\ m' = t /\ finds' = finds + 1 /\ finds < MaxFinds
        /\ known \cup new # {} /\ inbox' = inbox /\ client' = client
    BY DEF AddInterface, relay
  <1>2. /\ inbox \in Seq(Messages) /\ InTurn(m) /\ m \in Managers /\ client \in Clients
        /\ Owed(m) \in Int /\ m.interfaces \in Seq(Interfaces) /\ Distinct(m.interfaces)
    BY DEF Inv, InTurn, Managers, Owed
  <1>3. i \in IF known = {} THEN new ELSE known
    <2>1. (IF known = {} THEN new ELSE known) # {}
      BY <1>1
    <2> QED BY <2>1
  <1>4. i \in Interfaces /\ (known = {} => i \notin ToSet(m.interfaces))
    <2>1. ToSet(m.interfaces) \subseteq Interfaces
      BY <1>2, ElementOfSeq, LenProperties DEF ToSet
    <2> QED BY <1>3, <2>1
  <1> HIDE DEF i, known, new
  <1>5. /\ l \in Seq(Interfaces) /\ Distinct(l)
        /\ m.interfaces # << >> => l # << >> /\ Head(l) = Head(m.interfaces)
    BY <1>2, <1>4, Lists
  <1>6. r \in [Interfaces -> BOOLEAN]
    BY <1>2, <1>4 DEF Managers
  <1> HIDE DEF l, r
  <1>7. /\ s \in Managers /\ s.state = m.state /\ s.active = m.active /\ s.told = m.told
        /\ s.interfaces = l /\ s.timers = m.timers /\ (s.strayed <=> m.strayed)
        /\ s.dev = m.dev /\ s.reconnect = m.reconnect /\ s.calls = m.calls
    BY <1>2, <1>5, <1>6 DEF Managers
  <1> HIDE DEF s
  <1>8. InTurn(s) /\ (Good(m, inbox, client) => Good(s, inbox, client))
    BY <1>2, <1>5, <1>7, SameGood DEF InTurn
  <1>9. Owed(s) = Owed(m)
    BY <1>7 DEF Owed
  <1>10. /\ InTurn(t) /\ (t.strayed <=> s.strayed)
         /\ IF s.active = None /\ s.interfaces # << >>
            THEN Owed(t) = Owed(s) + 1 /\ Timed(t) ELSE t = s
         /\ Good(s, inbox, client) => Good(t, inbox, client)
    BY <1>2, <1>8, ConnectNextGood
  <1> HIDE DEF t
  <1>11. Timed(t)
    BY <1>8, <1>10 DEF Timed, InTurn
  <1>12. Owed(t) <= finds + 1 /\ finds + 1 \in Nat /\ finds + 1 <= MaxFinds
    BY <1>1, <1>2, <1>9, <1>10 DEF Inv
  <1>13. t.strayed \/ Good(t, inbox, client)
    BY <1>7, <1>8, <1>10 DEF Inv
  <1> QED BY <1>1, <1>10, <1>11, <1>12, <1>13 DEF Inv

(* Discovery takes an address back: a ready device is confirmed. *)
LEMMA NotifyDiscoveryRemovalStep ==
  ASSUME Inv, NEW i \in Interfaces, NotifyDiscoveryRemoval(i) PROVE Inv'
  <1> DEFINE r == [m.removed EXCEPT ![i] = TRUE]
             s == [m EXCEPT !.removed = r]
             u == [s EXCEPT !.state = "CONFIRMING_TRANSIENT"]
             t == DeviceCall(u, "confirm", u.active)
  <1>1. /\ m' = IF m.active = i /\ m.state = "READY" THEN t ELSE s
        /\ inbox' = inbox /\ client' = client /\ finds' = finds
    BY DEF NotifyDiscoveryRemoval, relay, DoConfirm
  <1>2. /\ inbox \in Seq(Messages) /\ InTurn(m) /\ m \in Managers /\ client \in Clients
        /\ Owed(m) \in Int
    BY DEF Inv, InTurn, Managers, Owed
  <1>3. r \in [Interfaces -> BOOLEAN]
    BY <1>2 DEF Managers
  <1> HIDE DEF r
  <1>4. /\ s \in Managers /\ s.state = m.state /\ s.active = m.active /\ s.told = m.told
        /\ s.interfaces = m.interfaces /\ s.timers = m.timers /\ (s.strayed <=> m.strayed)
        /\ s.dev = m.dev /\ s.reconnect = m.reconnect /\ s.calls = m.calls
    BY <1>2, <1>3 DEF Managers
  <1> HIDE DEF s
  <1>5. /\ InTurn(s) /\ (Good(m, inbox, client) => Good(s, inbox, client)) /\ Owed(s) = Owed(m)
        /\ (Timed(m) => Timed(s))
    BY <1>2, <1>4, SameGood DEF InTurn, Owed, Timed
  <1>6. CASE ~(m.active = i /\ m.state = "READY")
    <2>1. m' = s
      BY <1>1, <1>6
    <2> QED BY <1>1, <1>4, <1>5, <2>1 DEF Inv
  <1>7. CASE m.active = i /\ m.state = "READY"
    <2>1. /\ u \in Managers /\ u.state = "CONFIRMING_TRANSIENT" /\ u.active = i
          /\ u.told = s.told /\ u.interfaces = s.interfaces /\ u.timers = s.timers
          /\ (u.strayed <=> s.strayed) /\ u.dev = s.dev /\ u.reconnect = s.reconnect
          /\ u.calls = s.calls
      BY <1>4, <1>7 DEF Managers, States
    <2> HIDE DEF u
    <2>2. "confirm" \in Ops
      BY DEF Ops
    <2>3. /\ t \in Managers /\ Kept(u, t) /\ t.reconnect = u.reconnect /\ t.dev = u.dev
          /\ u.dev[u.active] = "CONNECTED" => t.calls = Append(u.calls, Call("confirm", u.active))
          /\ u.dev[u.active] # "CONNECTED" => t = u
      BY <2>1, <2>2, DeviceCalls
    <2>4. m' = t
      BY <1>1, <1>7
    <2> HIDE DEF t
    <2>5. InTurn(t) /\ Owed(t) = Owed(s) /\ Timed(t)
      BY <1>4, <1>5, <1>7, <2>1, <2>3 DEF InTurn, Kept, Owed, Timed
    <2>6. /\ Stays(s, t) /\ Invokes(s, t, "confirm", s.active)
          /\ t.state = "CONFIRMING_TRANSIENT" /\ (t.strayed <=> m.strayed)
      BY <1>4, <1>7, <2>1, <2>3 DEF Stays, Invokes, Kept
    <2>7. ASSUME Good(s, inbox, client) PROVE Good(t, inbox, client)
      <3>1. Base(s, inbox, client) /\ UpWeak(s, inbox, client) /\ UpStrong(s, inbox, client)
        BY <1>4, <1>7, <2>7 DEF Good, Up
      <3> QED BY <1>4, <1>7, <2>3, <2>6, <3>1, RechecksGood
    <2> QED BY <1>1, <1>5, <2>4, <2>5, <2>6, <2>7 DEF Inv
  <1> QED BY <1>6, <1>7

(* Another daemon reports an error. *)
LEMMA NotifyDeviceErrorStep ==
  ASSUME Inv, NEW i \in Interfaces, NotifyDeviceError(i) PROVE Inv'
  <1>1. PICK late \in BOOLEAN : m' = IF m.active # None /\ Ip[m.active] = Ip[i]
                                     THEN OnInterfaceError(m, m.active, late) ELSE m
    BY DEF NotifyDeviceError
  <1>2. inbox' = inbox /\ client' = client /\ finds' = finds
    BY DEF NotifyDeviceError, relay
  <1>3. InTurn(m) /\ Owed(m) \in Int
    BY DEF Inv, InTurn, Managers, Owed
  <1> DEFINE t == OnInterfaceError(m, m.active, late)
  <1>4. CASE m.active # None /\ Ip[m.active] = Ip[i]
    <2>1. /\ InTurn(t) /\ Counts(m, t) /\ (t.strayed <=> m.strayed)
          /\ Base(m, inbox, client) /\ UpWeak(m, inbox, client) => Good(t, inbox, client)
      BY <1>3, <1>4, ErrorGood
    <2>2. m' = t
      BY <1>1, <1>4
    <2> HIDE DEF t
    <2>3. Owed(t) \in Int
      BY <2>1 DEF InTurn, Managers, Owed
    <2>4. Timed(t) /\ Owed(t) <= finds /\ (t.strayed \/ Good(t, inbox, client))
      BY <1>3, <2>1, <2>3 DEF Inv, Counts, Good, Up
    <2> QED BY <1>2, <2>1, <2>2, <2>4 DEF Inv
  <1>5. CASE ~(m.active # None /\ Ip[m.active] = Ip[i])
    BY <1>1, <1>2, <1>5 DEF Inv
  <1> QED BY <1>4, <1>5
-----------------------------------------------------------------------------
(* The steps of urelay. *)

\* Answers that were added to b.
Added(b, b2) == {n \in 1 .. Len(b2) : n > Len(b) /\ b2[n].kind = "answer"}

\* The calls c2 are what is left of c, of which c2[a] is c[g[a]] and may have
\* been deferred or dropped; the others are answered, c[f[n]] in b2[n].
Moves(c, b, c2, b2, g, f) ==
  /\ \A a \in 1 .. Len(c2) :
       /\ g[a] \in 1 .. Len(c)
       /\ c2[a].op = c[g[a]].op /\ c2[a].interface = c[g[a]].interface
       /\ c2[a].current <=> c[g[a]].current
       /\ c[g[a]].at = "dropped" => c2[a].at = "dropped"
       /\ c[g[a]].op = "disconnect" => c2[a].at = c[g[a]].at
  /\ \A a, d \in 1 .. Len(c2) : a < d => g[a] < g[d]
  /\ Len(b) <= Len(b2) /\ \A n \in 1 .. Len(b) : b2[n] = b[n]
  /\ \A n \in Added(b, b2) :
       /\ f[n] \in 1 .. Len(c) /\ c[f[n]].at # "dropped"
       /\ b2[n].call.op = c[f[n]].op /\ b2[n].call.interface = c[f[n]].interface
       /\ b2[n].call.current <=> c[f[n]].current
       /\ \A a \in 1 .. Len(c2) : g[a] # f[n]
       /\ \A d \in Added(b, b2) : f[d] = f[n] => d = n
       /\ b2[n].call.op = "disconnect" => n = Len(b2) /\ AllDropped(c2, b2[n].call.interface)
  /\ \A x \in 1 .. Len(c) : \/ \E a \in 1 .. Len(c2) : g[a] = x
                            \/ \E n \in Added(b, b2) : f[n] = x

(* Answers and deferrals keep what was said of the calls under way. *)
LEMMA MovesSafe ==
  ASSUME NEW dev, NEW c, NEW b, NEW c2, NEW b2, NEW g, NEW f,
         Len(c) \in Nat, Len(b) \in Nat, Len(c2) \in Nat, Len(b2) \in Nat,
         Safe(dev, c, b), Moves(c, b, c2, b2, g, f)
  PROVE  /\ Safe(dev, c2, b2)
         /\ \A o, j : UnderWay(c, b, o, j) => UnderWay(c2, b2, o, j)
  <1>1. \A a \in 1 .. Len(c2) :
          /\ g[a] \in 1 .. Len(c)
          /\ c2[a].op = c[g[a]].op /\ c2[a].interface = c[g[a]].interface
          /\ c2[a].current <=> c[g[a]].current
          /\ c[g[a]].at = "dropped" => c2[a].at = "dropped"
          /\ c[g[a]].op = "disconnect" => c2[a].at = c[g[a]].at
    BY DEF Moves
  <1>2. \A a, d \in 1 .. Len(c2) : a < d => g[a] < g[d]
    BY DEF Moves
  <1>3. Len(b) <= Len(b2) /\ \A n \in 1 .. Len(b) : b2[n] = b[n]
    BY DEF Moves
  <1>4. \A n \in Added(b, b2) :
          /\ f[n] \in 1 .. Len(c) /\ c[f[n]].at # "dropped"
          /\ b2[n].call.op = c[f[n]].op /\ b2[n].call.interface = c[f[n]].interface
          /\ b2[n].call.current <=> c[f[n]].current
          /\ \A a \in 1 .. Len(c2) : g[a] # f[n]
          /\ \A d \in Added(b, b2) : f[d] = f[n] => d = n
          /\ b2[n].call.op = "disconnect" => n = Len(b2) /\ AllDropped(c2, b2[n].call.interface)
    BY DEF Moves
  <1>5. \A x \in 1 .. Len(c) : \/ \E a \in 1 .. Len(c2) : g[a] = x
                               \/ \E n \in Added(b, b2) : f[n] = x
    BY DEF Moves
  <1>6. \A n \in 1 .. Len(b2) : b2[n].kind = "answer" => n \in 1 .. Len(b) \/ n \in Added(b, b2)
    BY DEF Added
  <1>7. \A n \in Added(b, b2) : n \in 1 .. Len(b2) /\ b2[n].kind = "answer" /\ n \notin 1 .. Len(b)
    BY DEF Added
  <1>8. \A a \in 1 .. Len(c2) : \A o, j : Sent(c2, a, o, j) <=> Sent(c, g[a], o, j)
    BY <1>1 DEF Sent
  <1>9. /\ \A n \in 1 .. Len(b) : n \in 1 .. Len(b2)
        /\ \A n \in 1 .. Len(b) : \A o, j : (Told(b2, n, o, j) <=> Told(b, n, o, j))
        /\ \A n \in Added(b, b2) : \A o, j : Told(b2, n, o, j) <=> Sent(c, f[n], o, j)
        /\ \A n \in 1 .. Len(b2) : \A o, j :
             Told(b2, n, o, j) => n \in 1 .. Len(b) \/ n \in Added(b, b2)
    BY <1>3, <1>4, <1>6, <1>7 DEF Told, Sent
  <1>10. ASSUME NEW a \in 1 .. Len(c2), NEW d \in 1 .. Len(c2), g[a] = g[d] PROVE a = d
    <2>1. g[a] \in Int /\ g[d] \in Int /\ ~(a < d) /\ ~(d < a)
      BY <1>1, <1>2, <1>10
    <2> QED BY <2>1
  <1>11. \A n \in Added(b, b2) : c[f[n]].current
    BY <1>4 DEF Safe, Marked
  <1>12. Marked(c2, b2)
    <2>1. \A n \in 1 .. Len(b2) : b2[n].kind = "answer" => b2[n].call.current
      BY <1>3, <1>4, <1>6, <1>11 DEF Safe, Marked
    <2>2. \A a \in 1 .. Len(c2) :
            /\ c2[a].op = "disconnect" => c2[a].at = "queued"
            /\ ~c2[a].current => c2[a].op = "connect" /\ c2[a].at = "dropped"
      BY <1>1 DEF Safe, Marked
    <2> QED BY <2>1, <2>2 DEF Marked
  <1>13. Single(c2, b2)
    <2> SUFFICES ASSUME NEW op \in {"connect", "disconnect"}, NEW i \in Interfaces
                 PROVE  /\ \A n, k \in 1 .. Len(c2) : Sent(c2, n, op, i) /\ c2[n].current
                             /\ Sent(c2, k, op, i) /\ c2[k].current => n = k
                        /\ \A n, k \in 1 .. Len(b2) :
                             Told(b2, n, op, i) /\ Told(b2, k, op, i) => n = k
                        /\ \A n \in 1 .. Len(c2), k \in 1 .. Len(b2) :
                             ~(Sent(c2, n, op, i) /\ c2[n].current /\ Told(b2, k, op, i))
      BY DEF Single
    <2>1. /\ \A n, k \in 1 .. Len(c) : Sent(c, n, op, i) /\ c[n].current
               /\ Sent(c, k, op, i) /\ c[k].current => n = k
          /\ \A n, k \in 1 .. Len(b) : Told(b, n, op, i) /\ Told(b, k, op, i) => n = k
          /\ \A n \in 1 .. Len(c), k \in 1 .. Len(b) :
               ~(Sent(c, n, op, i) /\ c[n].current /\ Told(b, k, op, i))
      BY DEF Safe, Single
    <2>2. \A n, k \in 1 .. Len(c2) : Sent(c2, n, op, i) /\ c2[n].current
               /\ Sent(c2, k, op, i) /\ c2[k].current => n = k
      BY <1>1, <1>8, <1>10, <2>1
    <2>3. \A n, k \in 1 .. Len(b2) : Told(b2, n, op, i) /\ Told(b2, k, op, i) => n = k
      BY <1>4, <1>9, <1>11, <2>1
    <2>4. \A n \in 1 .. Len(c2), k \in 1 .. Len(b2) :
            ~(Sent(c2, n, op, i) /\ c2[n].current /\ Told(b2, k, op, i))
      BY <1>1, <1>4, <1>8, <1>9, <1>11, <2>1
    <2> QED BY <2>2, <2>3, <2>4
  <1>14. \A j : AllDropped(c, j) => AllDropped(c2, j)
    BY <1>1, <1>8 DEF AllDropped
  <1>15. \A j : AllDropped(c, j) /\ NoneTold(b, j) => NoneTold(b2, j)
    BY <1>4, <1>9 DEF AllDropped, NoneTold
  <1>16. \A o, j : UnderWay(c2, b2, o, j) => UnderWay(c, b, o, j)
    <2> SUFFICES ASSUME NEW o, NEW j, UnderWay(c2, b2, o, j) PROVE UnderWay(c, b, o, j)
      OBVIOUS
    <2>1. CASE \E n \in 1 .. Len(c2) : Sent(c2, n, o, j) /\ c2[n].current
      BY <1>1, <1>8, <2>1 DEF UnderWay
    <2>2. CASE \E n \in 1 .. Len(b2) : Told(b2, n, o, j) /\ b2[n].call.current
      BY <1>3, <1>4, <1>9, <1>11, <2>2 DEF UnderWay
    <2> QED BY <2>1, <2>2 DEF UnderWay
  <1>17. ByState(dev, c2, b2)
    BY <1>14, <1>15, <1>16 DEF Safe, ByState
  <1>18. Behind(c2, b2)
    <2> SUFFICES ASSUME NEW i \in Interfaces
                 PROVE  /\ \A k, n \in 1 .. Len(c2) :
                             Sent(c2, k, "disconnect", i) /\ Sent(c2, n, "connect", i) => n < k
                        /\ \A k \in 1 .. Len(b2) : Told(b2, k, "disconnect", i) =>
                             /\ \A n \in 1 .. Len(b2) : Told(b2, n, "connect", i) => n < k
                             /\ AllDropped(c2, i)
      BY DEF Behind
    <2>1. ASSUME NEW k \in 1 .. Len(c2), NEW n \in 1 .. Len(c2),
                 Sent(c2, k, "disconnect", i), Sent(c2, n, "connect", i)
          PROVE  n < k
      <3>1. g[n] < g[k]
        BY <1>1, <1>8, <2>1 DEF Safe, Behind
      <3>2. g[n] \in Int /\ g[k] \in Int /\ ~(k < n) /\ k # n
        BY <1>1, <1>2, <3>1
      <3> QED BY <3>2
    <2>2. ASSUME NEW k \in 1 .. Len(b), Told(b2, k, "disconnect", i)
          PROVE  /\ \A n \in 1 .. Len(b2) : Told(b2, n, "connect", i) => n < k
                 /\ AllDropped(c2, i)
      <3>1. AllDropped(c, i) /\ \A n \in 1 .. Len(b) : Told(b, n, "connect", i) => n < k
        BY <1>9, <2>2 DEF Safe, Behind
      <3>2. \A n \in Added(b, b2) : ~Told(b2, n, "connect", i)
        BY <1>4, <1>9, <3>1 DEF AllDropped
      <3> QED BY <1>9, <1>14, <3>1, <3>2
    <2>3. ASSUME NEW k \in Added(b, b2), Told(b2, k, "disconnect", i)
          PROVE  /\ \A n \in 1 .. Len(b2) : Told(b2, n, "connect", i) => n < k
                 /\ AllDropped(c2, i)
      <3>1. k = Len(b2) /\ AllDropped(c2, i)
        BY <1>4, <2>3 DEF Told
      <3>2. \A n \in 1 .. Len(b2) : Told(b2, n, "connect", i) => n # k
        BY <2>3 DEF Told
      <3> QED BY <3>1, <3>2
    <2> QED BY <1>9, <2>1, <2>2, <2>3
  <1>19. ASSUME NEW o, NEW j, UnderWay(c, b, o, j) PROVE UnderWay(c2, b2, o, j)
    <2>1. CASE \E n \in 1 .. Len(b) : Told(b, n, o, j) /\ b[n].call.current
      BY <1>3, <1>9, <2>1 DEF UnderWay
    <2>2. CASE \E n \in 1 .. Len(c) : Sent(c, n, o, j) /\ c[n].current
      <3>1. PICK x \in 1 .. Len(c) : Sent(c, x, o, j) /\ c[x].current
        BY <2>2
      <3>2. CASE \E a \in 1 .. Len(c2) : g[a] = x
        BY <1>1, <1>8, <3>1, <3>2 DEF UnderWay
      <3>3. CASE \E n \in Added(b, b2) : f[n] = x
        <4>1. PICK n \in Added(b, b2) : f[n] = x
          BY <3>3
        <4>2. Told(b2, n, o, j) /\ b2[n].call.current
          BY <1>4, <1>9, <3>1, <4>1
        <4> QED BY <1>7, <4>1, <4>2 DEF UnderWay
      <3> QED BY <1>5, <3>2, <3>3
    <2> QED BY <1>19, <2>1, <2>2 DEF UnderWay
  <1> QED BY <1>12, <1>13, <1>17, <1>18, <1>19 DEF Safe

\* Of the calls that urelay has yet to see only q, the first, may have been seen.
QueueKept(c, c2, g, q) ==
  /\ \A x \in 1 .. Len(c) : c[x].at = "queued" => q <= x
  /\ \A a \in 1 .. Len(c2) : c2[a].at = "queued" => c[g[a]].at = "queued" /\ g[a] # q
  /\ \A x \in 1 .. Len(c) : c[x].at = "queued" /\ x # q =>
                              \E a \in 1 .. Len(c2) : g[a] = x /\ c2[a].at = "queued"

(* urelay sees the calls in their order. *)
LEMMA MovesOrdered ==
  ASSUME NEW dev, NEW c, NEW b, NEW c2, NEW b2, NEW g, NEW f, NEW q \in Int,
         Len(c) \in Nat, Len(c2) \in Nat, Moves(c, b, c2, b2, g, f), Ordered(dev, c),
         QueueKept(c, c2, g, q)
  PROVE  Ordered(dev, c2)
  <1> SUFFICES ASSUME NEW i \in Interfaces, dev[i] \in Going, NEW k \in 1 .. Len(c2),
                      c2[k].at = "queued", c2[k].op \in {"connect", "disconnect"}
               PROVE  \E n \in 1 .. Len(c2) : /\ k <= n /\ Sent(c2, n, "connect", i)
                                              /\ c2[n].current /\ c2[n].at = "queued"
    BY DEF Ordered
  <1>1. \A a \in 1 .. Len(c2) :
          /\ g[a] \in 1 .. Len(c)
          /\ c2[a].op = c[g[a]].op /\ c2[a].interface = c[g[a]].interface
          /\ c2[a].current <=> c[g[a]].current
    BY DEF Moves
  <1>2. \A a, d \in 1 .. Len(c2) : a < d => g[a] < g[d]
    BY DEF Moves
  <1>3. g[k] \in 1 .. Len(c) /\ q <= g[k] /\ g[k] # q /\ c[g[k]].at = "queued"
        /\ c[g[k]].op \in {"connect", "disconnect"}
    BY <1>1 DEF QueueKept
  <1>4. PICK n \in 1 .. Len(c) : /\ g[k] <= n /\ Sent(c, n, "connect", i)
                                 /\ c[n].current /\ c[n].at = "queued"
    BY <1>3 DEF Ordered
  <1>5. n # q
    BY <1>3, <1>4
  <1>6. PICK a \in 1 .. Len(c2) : g[a] = n /\ c2[a].at = "queued"
    BY <1>4, <1>5 DEF QueueKept
  <1>7. ~(a < k)
    BY <1>2, <1>3, <1>4, <1>6
  <1>8. Sent(c2, a, "connect", i) /\ c2[a].current
    BY <1>1, <1>4, <1>6 DEF Sent
  <1> QED BY <1>6, <1>7, <1>8

(* urelay's client stays with its interface, and no disconnect is answered. *)
LEMMA MovesOwned ==
  ASSUME NEW s, NEW t, NEW b, NEW b2, NEW g, NEW f, NEW cl, NEW cl2,
         Moves(s.calls, b, t.calls, b2, g, f), Owned(s, cl), t.dev = s.dev,
         cl2.interface \in {cl.interface, None},
         \A n \in Added(b, b2) : b2[n].call.op # "disconnect"
  PROVE  Owned(t, cl2)
  <1> SUFFICES ASSUME cl2.interface # None, s.dev[cl2.interface] \notin Going
               PROVE  \E k \in 1 .. Len(t.calls) : Sent(t.calls, k, "disconnect", cl2.interface)
    BY DEF Owned
  <1>1. PICK k \in 1 .. Len(s.calls) : Sent(s.calls, k, "disconnect", cl2.interface)
    BY DEF Owned
  <1>2. PICK a \in 1 .. Len(t.calls) : g[a] = k
    BY <1>1 DEF Moves, Sent
  <1>3. t.calls[a].op = s.calls[k].op /\ t.calls[a].interface = s.calls[k].interface
    BY <1>2 DEF Moves
  <1> QED BY <1>1, <1>2, <1>3 DEF Sent

(* When urelay serves a connect or a disconnect, no interface is connected,  *)
(* and the one that connects has a connect that urelay has not served.       *)
LEMMA ServesAlone ==
  ASSUME NEW s, NEW b, NEW cl, Good(s, b, cl), NEW q \in 1 .. Len(s.calls),
         s.calls[q].at = "queued", s.calls[q].op \in {"connect", "disconnect"},
         NEW i \in Interfaces
  PROVE  /\ s.dev[i] # "CONNECTED"
         /\ s.dev[i] = "CONNECTING" =>
              /\ NoneTold(b, i)
              /\ \E n \in 1 .. Len(s.calls) :
                   /\ q <= n /\ Sent(s.calls, n, "connect", i) /\ s.calls[n].current
                   /\ s.calls[n].at = "queued"
  <1>1. SUFFICES ASSUME s.dev[i] \in Going
                 PROVE  /\ s.dev[i] # "CONNECTED"
                        /\ NoneTold(b, i)
                        /\ \E n \in 1 .. Len(s.calls) :
                             /\ q <= n /\ Sent(s.calls, n, "connect", i) /\ s.calls[n].current
                             /\ s.calls[n].at = "queued"
    BY DEF Going
  <1>2. PICK n \in 1 .. Len(s.calls) :
          /\ q <= n /\ Sent(s.calls, n, "connect", i) /\ s.calls[n].current
          /\ s.calls[n].at = "queued"
    BY <1>1 DEF Good, Base, Ordered
  <1>3. s.dev[i] # "CONNECTED"
    BY <1>2 DEF Good, Base, Safe, ByState, UnderWay
  <1>4. NoneTold(b, i)
    BY <1>2 DEF Good, Base, Safe, Single, NoneTold
  <1> QED BY <1>2, <1>3, <1>4

(* The first of the calls that urelay has yet to see. *)
LEMMA FirstQueued ==
  ASSUME m.calls \in Seq(Calls), Queued # {}
  PROVE  /\ Min(Queued) \in 1 .. Len(m.calls) /\ m.calls[Min(Queued)].at = "queued"
         /\ \A x \in 1 .. Len(m.calls) : m.calls[x].at = "queued" => Min(Queued) <= x
  <1>1. Len(m.calls) \in Nat /\ DOMAIN m.calls = 1 .. Len(m.calls)
    BY LenProperties
  <1>2. Queued \subseteq Nat /\ Queued # {}
    BY <1>1 DEF Queued
  <1>3. \E x \in Queued : \A y \in Queued : x <= y
    <2>1. IsWellFoundedOn(OpToRel(<, Nat), Nat)
      BY NatLessThanWellFounded
    <2>2. PICK x \in Queued : \A y \in Queued : ~(<<y, x>> \in OpToRel(<, Nat))
      BY <1>2, <2>1, WFMin
    <2>3. \A y \in Queued : <<y, x>> \in OpToRel(<, Nat) <=> y < x
      BY <1>2 DEF OpToRel
    <2>4. \A y \in Queued : y \in Nat /\ x \in Nat /\ ~(y < x)
      BY <1>2, <2>2, <2>3
    <2> QED BY <2>4
  <1>4. Min(Queued) \in Queued /\ \A y \in Queued : Min(Queued) <= y
    BY <1>3 DEF Min
  <1> QED BY <1>1, <1>4 DEF Queued

(* A sequence without its element at position k. *)
LEMMA Removed ==
  ASSUME NEW S, NEW c \in Seq(S), NEW k \in 1 .. Len(c)
  PROVE  LET q == RemoveAt(c, k) IN
         /\ q \in Seq(S) /\ Len(c) \in Nat /\ Len(q) = Len(c) - 1
         /\ \A a \in 1 .. Len(q) : q[a] = c[IF a < k THEN a ELSE a + 1]
  <1> DEFINE x == SubSeq(c, 1, k - 1)
             y == SubSeq(c, k + 1, Len(c))
  <1>0. Len(c) \in Nat
    BY LenProperties
  <1>1. /\ x \in Seq(S) /\ Len(x) = k - 1
        /\ \A a \in 1 .. k - 1 : x[a] = c[a]
    <2>1. \A a \in 1 .. k - 1 : c[a] \in S
      BY <1>0, ElementOfSeq
    <2>2. /\ x \in Seq(S)
          /\ Len(x) = IF 1 <= k - 1 THEN (k - 1) - 1 + 1 ELSE 0
          /\ \A a \in 1 .. (k - 1) - 1 + 1 : x[a] = c[1 + a - 1]
      BY <1>0, SubSeqProperties
    <2> QED BY <1>0, <2>2
  <1>2. /\ y \in Seq(S) /\ Len(y) = Len(c) - k
        /\ \A a \in 1 .. Len(c) - k : y[a] = c[a + k]
    <2>2. /\ y \in Seq(S)
          /\ Len(y) = IF k + 1 <= Len(c) THEN Len(c) - (k + 1) + 1 ELSE 0
          /\ \A a \in 1 .. Len(c) - (k + 1) + 1 : y[a] = c[k + 1 + a - 1]
      BY <1>0, SubSeqProperties
    <2>3. \A a \in 1 .. Len(c) - k : k + 1 + a - 1 = a + k
      BY <1>0
    <2> QED BY <1>0, <2>2, <2>3
  <1>3. RemoveAt(c, k) = x \o y
    BY DEF RemoveAt
  <1> HIDE DEF x, y
  <1> DEFINE z == x \o y
  <1>4. /\ z \in Seq(S) /\ Len(z) = Len(x) + Len(y)
        /\ \A a \in 1 .. Len(x) + Len(y) : z[a] = IF a <= Len(x) THEN x[a] ELSE y[a - Len(x)]
    BY <1>1, <1>2, ConcatProperties
  <1> HIDE DEF z
  <1>5. Len(x) + Len(y) = Len(c) - 1
    BY <1>0, <1>1, <1>2
  <1>6. ASSUME NEW a \in 1 .. Len(c) - 1 PROVE z[a] = c[IF a < k THEN a ELSE a + 1]
    <2>1. CASE a < k
      BY <1>0, <1>1, <1>4, <1>5, <2>1
    <2>2. CASE ~(a < k)
      <3> DEFINE d == a - Len(x)
      <3>1. d \in 1 .. Len(c) - k /\ ~(a <= Len(x)) /\ d + k = a + 1
        BY <1>0, <1>1, <2>2
      <3>2. z[a] = y[d]
        BY <1>4, <1>5, <3>1
      <3> HIDE DEF d
      <3>3. y[d] = c[d + k]
        BY <1>2, <3>1
      <3> QED BY <2>2, <3>1, <3>2, <3>3
    <2> QED BY <2>1, <2>2
  <1>7. Len(z) = Len(c) - 1
    BY <1>4, <1>5
  <1>8. RemoveAt(c, k) = z
    BY <1>3 DEF z
  <1> QED BY <1>0, <1>4, <1>6, <1>7, <1>8


(* A step of urelay, with what it has to show for itself. *)
LEMMA MovesGood ==
  ASSUME NEW s, NEW t, NEW b \in Seq(Messages), NEW b2 \in Seq(Messages), NEW cl, NEW cl2,
         NEW g, NEW f, NEW q \in Int, s.calls \in Seq(Calls), t.calls \in Seq(Calls),
         t.state = s.state, t.active = s.active, t.dev = s.dev, t.reconnect = s.reconnect,
         Good(s, b, cl), Moves(s.calls, b, t.calls, b2, g, f), QueueKept(s.calls, t.calls, g, q),
         Deferred(t.calls, cl2), Owned(t, cl2), Up(t, b2, cl2), UpSoon(t, b2, cl2)
  PROVE  Good(t, b2, cl2)
  <1>1. /\ Len(s.calls) \in Nat /\ Len(t.calls) \in Nat /\ Len(b) \in Nat /\ Len(b2) \in Nat
    BY LenProperties
  <1>2. /\ Safe(s.dev, t.calls, b2)
        /\ \A o, j : UnderWay(s.calls, b, o, j) => UnderWay(t.calls, b2, o, j)
    BY <1>1, MovesSafe DEF Good, Base
  <1>3. Ordered(s.dev, t.calls)
    BY <1>1, MovesOrdered DEF Good, Base
  <1>4. Settled(t)
    BY DEF Good, Base, Settled
  <1>5. DisWaits(t, b2) /\ ConWaits(t, b2) /\ Confirming(t, b2)
    BY <1>2 DEF Good, Base, DisWaits, ConWaits, Confirming
  <1> QED BY <1>2, <1>3, <1>4, <1>5 DEF Good, Base

\* d are the calls c, of which deferred ones may have been dropped.
Drops(c, d) ==
  /\ d \in Seq(Calls) /\ Len(d) = Len(c)
  /\ \A x \in 1 .. Len(c) :
       /\ d[x].op = c[x].op /\ d[x].interface = c[x].interface
       /\ d[x].current <=> c[x].current
       /\ c[x].at # "held" => d[x].at = c[x].at
       /\ c[x].at = "held" => d[x].at \in {"held", "dropped"}

(* The connection is given up. *)
LEMMA Dropped ==
  ASSUME NEW c \in Seq(Calls)
  PROVE  LET d == del_outgoing_client(c) IN
         Drops(c, c) /\ Drops(c, d) /\ \A x \in 1 .. Len(c) : d[x].at # "held"
  <1> DEFINE d == del_outgoing_client(c)
             E(n) == IF Held(c[n]) THEN [c[n] EXCEPT !.at = "dropped"] ELSE c[n]
  <1>1. DOMAIN c = 1 .. Len(c) /\ Len(c) \in Nat /\ \A n \in 1 .. Len(c) : c[n] \in Calls
    BY LenProperties, ElementOfSeq
  <1>2. \A n \in 1 .. Len(c) : E(n) \in Calls
    BY <1>1 DEF Calls
  <1>3. \A n \in 1 .. Len(c) :
          /\ E(n).op = c[n].op /\ E(n).interface = c[n].interface /\ (E(n).current <=> c[n].current)
          /\ c[n].at # "held" => E(n).at = c[n].at
          /\ E(n).at # "held" /\ (c[n].at = "held" => E(n).at = "dropped")
    BY <1>1 DEF Calls, Held
  <1>4. d = [n \in 1 .. Len(c) |-> E(n)]
    BY <1>1 DEF del_outgoing_client
  <1> HIDE DEF E
  <1>5. d \in Seq(Calls)
    BY <1>1, <1>2, <1>4, IsASeq
  <1>6. Len(d) = Len(c)
    BY <1>1, <1>4, <1>5, LenProperties
  <1>7. \A n \in 1 .. Len(c) : d[n] = E(n)
    BY <1>4
  <1> HIDE DEF d
  <1>8. Drops(c, d) /\ \A x \in 1 .. Len(c) : d[x].at # "held"
    BY <1>3, <1>5, <1>6, <1>7 DEF Drops
  <1>9. Drops(c, c)
    BY DEF Drops
  <1> QED BY <1>8, <1>9 DEF d

\* The positions 1 .. n without k.
Skip(k, n) == [a \in 1 .. n - 1 |-> IF a < k THEN a ELSE a + 1]

(* A call is answered. *)
LEMMA AnswerMoves ==
  ASSUME NEW c \in Seq(Calls), NEW d, NEW b \in Seq(Messages), NEW k \in 1 .. Len(c),
         NEW result \in Results, NEW q \in Int, Drops(c, d), c[k].at # "dropped",
         \A x \in 1 .. Len(c) : c[x].op = "disconnect" => c[x].at = "queued",
         c[k].op = "disconnect" => AllDropped(RemoveAt(d, k), c[k].interface),
         \A x \in 1 .. Len(c) : c[x].at = "queued" => q <= x,
         q = k \/ (q = 0 /\ c[k].at # "queued")
  PROVE  LET c2 == RemoveAt(d, k)
             b2 == Append(b, Reply(c[k], result))
             g == Skip(k, Len(c))
             f == [n \in Nat |-> k]
         IN  /\ c2 \in Seq(Calls) /\ b2 \in Seq(Messages)
             /\ Moves(c, b, c2, b2, g, f) /\ QueueKept(c, c2, g, q)
  <1> DEFINE c2 == RemoveAt(d, k)
             r == Reply(c[k], result)
             b2 == Append(b, r)
             g == Skip(k, Len(c))
             f == [n \in Nat |-> k]
  <1>0. /\ Len(c) \in Nat /\ Len(b) \in Nat /\ d \in Seq(Calls) /\ Len(d) = Len(c)
        /\ \A x \in 1 .. Len(c) : c[x] \in Calls
    BY LenProperties, ElementOfSeq DEF Drops
  <1>1. /\ r \in Messages /\ r.kind = "answer" /\ r.call.op = c[k].op
        /\ r.call.interface = c[k].interface /\ (r.call.current <=> c[k].current)
    <2>1. c[k] \in Calls
      BY <1>0
    <2> DEFINE x == [c[k] EXCEPT !.at = "answered"]
    <2>2. /\ x \in Answered /\ x.op = c[k].op /\ x.interface = c[k].interface
          /\ (x.current <=> c[k].current)
      BY <2>1 DEF Calls, Answered
    <2>3. r = [kind |-> "answer", call |-> x, result |-> result]
      BY DEF Reply
    <2> HIDE DEF x, r
    <2> QED BY <2>2, <2>3 DEF Messages
  <1> HIDE DEF r
  <1>2. /\ b2 \in Seq(Messages) /\ Len(b2) = Len(b) + 1 /\ b2[Len(b) + 1] = r
        /\ \A n \in 1 .. Len(b) : b2[n] = b[n]
    BY <1>1, AppendProperties
  <1>3. /\ c2 \in Seq(Calls) /\ Len(c2) = Len(c) - 1
        /\ \A a \in 1 .. Len(c2) : c2[a] = d[IF a < k THEN a ELSE a + 1]
    BY <1>0, Removed
  <1>4. \A a \in 1 .. Len(c2) : g[a] \in 1 .. Len(c) /\ g[a] # k
                                /\ g[a] = IF a < k THEN a ELSE a + 1
    BY <1>0, <1>3 DEF Skip
  <1>5. \A n \in 1 .. Len(b2) : f[n] = k
    BY <1>0, <1>2
  <1>6. Added(b, b2) = {Len(b2)}
    BY <1>0, <1>1, <1>2 DEF Added
  <1> HIDE DEF g, f, c2, b2
  <1>7. \A a \in 1 .. Len(c2) : c2[a] = d[g[a]]
    BY <1>3, <1>4
  <1>8. \A x \in 1 .. Len(c) : x # k => \E a \in 1 .. Len(c2) : g[a] = x
    <2> TAKE x \in 1 .. Len(c)
    <2>1. CASE x < k
      <3>1. x \in 1 .. Len(c2)
        BY <1>0, <1>3, <2>1
      <3> QED BY <1>4, <2>1, <3>1
    <2>2. CASE x > k
      <3>1. x - 1 \in 1 .. Len(c2) /\ ~(x - 1 < k) /\ (x - 1) + 1 = x
        BY <1>0, <1>3, <2>2
      <3> QED BY <1>4, <3>1
    <2> QED BY <1>0, <2>1, <2>2
  <1>9. \A a \in 1 .. Len(c2) :
          /\ c2[a].op = c[g[a]].op /\ c2[a].interface = c[g[a]].interface
          /\ c2[a].current <=> c[g[a]].current
          /\ c[g[a]].at = "dropped" => c2[a].at = "dropped"
          /\ c[g[a]].op = "disconnect" => c2[a].at = c[g[a]].at
          /\ c2[a].at = "queued" <=> c[g[a]].at = "queued"
    BY <1>4, <1>7 DEF Drops
  <1>10. \A a, e \in 1 .. Len(c2) : a < e => g[a] < g[e]
    BY <1>0, <1>3, <1>4
  <1>11. Moves(c, b, c2, b2, g, f)
    <2>1. Len(b) <= Len(b2) /\ Len(b2) \in 1 .. Len(b2) /\ b2[Len(b2)] = r
      BY <1>0, <1>2
    <2>2. ASSUME NEW n \in Added(b, b2)
          PROVE  /\ f[n] \in 1 .. Len(c) /\ c[f[n]].at # "dropped"
                 /\ b2[n].call.op = c[f[n]].op /\ b2[n].call.interface = c[f[n]].interface
                 /\ b2[n].call.current <=> c[f[n]].current
                 /\ \A a \in 1 .. Len(c2) : g[a] # f[n]
                 /\ \A e \in Added(b, b2) : f[e] = f[n] => e = n
                 /\ b2[n].call.op = "disconnect" =>
                      n = Len(b2) /\ AllDropped(c2, b2[n].call.interface)
      <3>1. n = Len(b2) /\ f[n] = k /\ b2[n] = r
        BY <1>5, <1>6, <2>1, <2>2
      <3>2. c[k].op = "disconnect" => AllDropped(c2, c[k].interface)
        BY DEF c2
      <3> QED BY <1>1, <1>4, <1>6, <3>1, <3>2
    <2>3. \A x \in 1 .. Len(c) : \/ \E a \in 1 .. Len(c2) : g[a] = x
                                 \/ \E n \in Added(b, b2) : f[n] = x
      BY <1>5, <1>6, <1>8, <2>1
    <2> QED BY <1>2, <1>4, <1>9, <1>10, <2>1, <2>2, <2>3 DEF Moves
  <1>12. QueueKept(c, c2, g, q)
    <2>1. \A a \in 1 .. Len(c2) : c2[a].at = "queued" => c[g[a]].at = "queued" /\ g[a] # q
      BY <1>0, <1>4, <1>9
    <2>2. \A x \in 1 .. Len(c) : c[x].at = "queued" /\ x # q =>
                                   \E a \in 1 .. Len(c2) : g[a] = x /\ c2[a].at = "queued"
      <3> SUFFICES ASSUME NEW x \in 1 .. Len(c), c[x].at = "queued", x # q
                   PROVE  \E a \in 1 .. Len(c2) : g[a] = x /\ c2[a].at = "queued"
        OBVIOUS
      <3>1. x # k
        OBVIOUS
      <3>2. PICK a \in 1 .. Len(c2) : g[a] = x
        BY <1>8, <3>1
      <3>3. c2[a].at = "queued"
        BY <1>9, <3>2
      <3> QED BY <3>2, <3>3
    <2> QED BY <2>1, <2>2 DEF QueueKept
  <1> QED BY <1>2, <1>3, <1>11, <1>12 DEF c2, b2, g, f, r

\* The result answers the call k of c in b, and takes it from d.
OneAnswered(c, d, b, k, result) ==
  LET r == Reply(c[k], result)
      b2 == Append(b, r)
  IN  /\ RemoveAt(d, k) \in Seq(Calls) /\ b2 \in Seq(Messages)
      /\ Len(b) \in Nat /\ Len(b2) = Len(b) + 1 /\ b2[Len(b2)] = r
      /\ \A n \in 1 .. Len(b) : b2[n] = b[n]
      /\ r.kind = "answer" /\ r.call.op = c[k].op /\ r.call.interface = c[k].interface
      /\ r.result = result

(* The types of an answer and of the calls without it. *)
LEMMA AnswerTypes ==
  ASSUME NEW c \in Seq(Calls), NEW d \in Seq(Calls), NEW b \in Seq(Messages),
         NEW k \in 1 .. Len(c), Len(d) = Len(c), NEW result \in Results
  PROVE  OneAnswered(c, d, b, k, result)
  <1> DEFINE x == [c[k] EXCEPT !.at = "answered"]
             r == Reply(c[k], result)
             b2 == Append(b, r)
  <1>1. c[k] \in Calls
    BY ElementOfSeq
  <1>2. x \in Answered /\ x.op = c[k].op /\ x.interface = c[k].interface
    BY <1>1 DEF Calls, Answered
  <1>3. r = [kind |-> "answer", call |-> x, result |-> result]
    BY DEF Reply
  <1> HIDE DEF x, r
  <1>4. /\ r \in Messages /\ r.kind = "answer" /\ r.call.op = c[k].op
        /\ r.call.interface = c[k].interface /\ r.result = result
    BY <1>2, <1>3 DEF Messages
  <1>5. /\ Len(b) \in Nat /\ b2 \in Seq(Messages) /\ Len(b2) = Len(b) + 1
        /\ b2[Len(b) + 1] = r /\ \A n \in 1 .. Len(b) : b2[n] = b[n]
    BY <1>4, AppendProperties, LenProperties
  <1> HIDE DEF b2
  <1>6. RemoveAt(d, k) \in Seq(Calls)
    BY Removed
  <1> QED BY <1>4, <1>5, <1>6 DEF OneAnswered, r, b2

(* Calls change where they are, and the manager is not told or told of an    *)
(* error.                                                                    *)
LEMMA InPlaceMoves ==
  ASSUME NEW c \in Seq(Calls), NEW c2 \in Seq(Calls), NEW b \in Seq(Messages),
         NEW b2 \in Seq(Messages), NEW q \in Int, Len(c2) = Len(c), Len(b) <= Len(b2),
         \A n \in 1 .. Len(b) : b2[n] = b[n],
         \A n \in 1 .. Len(b2) : n > Len(b) => b2[n].kind # "answer",
         \A x \in 1 .. Len(c) :
           /\ c2[x].op = c[x].op /\ c2[x].interface = c[x].interface
           /\ c2[x].current <=> c[x].current
           /\ c[x].at = "dropped" => c2[x].at = "dropped"
           /\ c[x].op = "disconnect" => c2[x].at = c[x].at
           /\ c2[x].at = "queued" <=> c[x].at = "queued" /\ x # q,
         \A x \in 1 .. Len(c) : c[x].at = "queued" => q <= x
  PROVE  LET g == [a \in 1 .. Len(c) |-> a] IN
         /\ Moves(c, b, c2, b2, g, g) /\ QueueKept(c, c2, g, q) /\ Added(b, b2) = {}
  <1> DEFINE g == [a \in 1 .. Len(c) |-> a]
  <1>1. Len(c) \in Nat /\ \A a \in 1 .. Len(c) : g[a] = a
    BY LenProperties
  <1>2. Added(b, b2) = {}
    BY DEF Added
  <1> HIDE DEF g
  <1>3. Moves(c, b, c2, b2, g, g)
    BY <1>1, <1>2 DEF Moves
  <1>4. QueueKept(c, c2, g, q)
    BY <1>1 DEF QueueKept
  <1> QED BY <1>2, <1>3, <1>4 DEF g

(* urelay changes nothing of the manager's but the calls. *)
LEMMA OtherCalls ==
  ASSUME Inv, NEW c2 \in Seq(Calls)
  PROVE  LET t == [m EXCEPT !.calls = c2] IN
         /\ t.calls = c2 /\ t.state = m.state /\ t.active = m.active /\ t.dev = m.dev
         /\ t.reconnect = m.reconnect /\ (t.strayed <=> m.strayed)
         /\ InTurn(t) /\ Timed(t) /\ Owed(t) <= finds
  <1> DEFINE t == [m EXCEPT !.calls = c2]
  <1>1. InTurn(m) /\ m \in Managers /\ Timed(m) /\ Owed(m) <= finds
    BY DEF Inv, InTurn
  <1>2. /\ t \in Managers /\ t.calls = c2 /\ t.state = m.state /\ t.active = m.active
        /\ t.dev = m.dev /\ t.reconnect = m.reconnect /\ (t.strayed <=> m.strayed)
        /\ t.interfaces = m.interfaces /\ t.told = m.told /\ t.timers = m.timers
    BY <1>1 DEF Managers
  <1> HIDE DEF t
  <1>3. InTurn(t) /\ Timed(t) /\ Owed(t) <= finds
    BY <1>1, <1>2 DEF InTurn, Timed, Owed
  <1> QED BY <1>2, <1>3 DEF t

(* A step of urelay. *)
LEMMA RelayStep ==
  ASSUME Inv, NEW c2 \in Seq(Calls), m' = [m EXCEPT !.calls = c2], inbox' \in Seq(Messages),
         client' \in Clients, finds' = finds,
         Good(m, inbox, client) => Good([m EXCEPT !.calls = c2], inbox', client')
  PROVE  Inv'
  <1> DEFINE t == [m EXCEPT !.calls = c2]
  <1>1. (t.strayed <=> m.strayed) /\ InTurn(t) /\ Timed(t) /\ Owed(t) <= finds
    BY OtherCalls
  <1>2. m' = t /\ (Good(m, inbox, client) => Good(t, inbox', client'))
    OBVIOUS
  <1> HIDE DEF t
  <1> QED BY <1>1, <1>2 DEF Inv

(* What there is to know before urelay serves a call. *)
LEMMA Serving ==
  ASSUME Inv, NEW op, Serves(op)
  PROVE  LET k == Min(Queued) IN
         /\ m.calls \in Seq(Calls) /\ Len(m.calls) \in Nat /\ inbox \in Seq(Messages)
         /\ client \in Clients /\ k \in 1 .. Len(m.calls) /\ k \in Int
         /\ m.calls[k].at = "queued" /\ m.calls[k].op \in op /\ m.calls[k].interface \in Interfaces
         /\ \A x \in 1 .. Len(m.calls) : m.calls[x].at = "queued" => k <= x
         /\ \A x \in 1 .. Len(m.calls) : m.calls[x] \in Calls
         /\ Good(m, inbox, client) =>
              \A x \in 1 .. Len(m.calls) : m.calls[x].op = "disconnect" => m.calls[x].at = "queued"
  <1> DEFINE k == Min(Queued)
  <1>1. m.calls \in Seq(Calls) /\ inbox \in Seq(Messages) /\ client \in Clients
    BY DEF Inv, InTurn, Managers
  <1>2. Queued # {} /\ m.calls[k].op \in op
    BY DEF Serves
  <1>3. /\ k \in 1 .. Len(m.calls) /\ m.calls[k].at = "queued"
        /\ \A x \in 1 .. Len(m.calls) : m.calls[x].at = "queued" => k <= x
    BY <1>1, <1>2, FirstQueued
  <1> HIDE DEF k
  <1>4. Len(m.calls) \in Nat /\ \A x \in 1 .. Len(m.calls) : m.calls[x] \in Calls
    BY <1>1, LenProperties, ElementOfSeq
  <1>5. k \in Int /\ m.calls[k].interface \in Interfaces
    BY <1>3, <1>4 DEF Calls
  <1>6. Good(m, inbox, client) =>
          \A x \in 1 .. Len(m.calls) : m.calls[x].op = "disconnect" => m.calls[x].at = "queued"
    BY DEF Good, Base, Safe, Marked
  <1> QED BY <1>1, <1>2, <1>3, <1>4, <1>5, <1>6 DEF k

(* A call is deferred. *)
LEMMA HoldMoves ==
  ASSUME NEW c \in Seq(Calls), NEW b \in Seq(Messages), NEW k \in 1 .. Len(c), k \in Int,
         c[k].at = "queued", c[k].op # "disconnect",
         \A x \in 1 .. Len(c) : c[x].at = "queued" => k <= x
  PROVE  LET c2 == [c EXCEPT ![k].at = "held"]
             g == [a \in 1 .. Len(c) |-> a]
         IN  /\ c2 \in Seq(Calls) /\ Len(c2) = Len(c)
             /\ \A x \in 1 .. Len(c) : c2[x].op = c[x].op /\ c2[x].interface = c[x].interface
                                       /\ c2[x].at = IF x = k THEN "held" ELSE c[x].at
             /\ Moves(c, b, c2, b, g, g) /\ QueueKept(c, c2, g, k) /\ Added(b, b) = {}
  <1> DEFINE c2 == [c EXCEPT ![k].at = "held"]
             h == [c[k] EXCEPT !.at = "held"]
             g == [a \in 1 .. Len(c) |-> a]
  <1>1. Len(c) \in Nat /\ DOMAIN c = 1 .. Len(c) /\ Len(b) \in Nat
    BY LenProperties
  <1>2. \A x \in 1 .. Len(c) : c[x] \in Calls
    BY ElementOfSeq
  <1>3. /\ h \in Calls /\ h.op = c[k].op /\ h.interface = c[k].interface /\ h.at = "held"
        /\ (h.current <=> c[k].current)
    BY <1>2 DEF Calls
  <1>4. c2 = [c EXCEPT ![k] = h]
    OBVIOUS
  <1> HIDE DEF c2, h
  <1>5. /\ c2 \in Seq(Calls) /\ Len(c2) = Len(c)
        /\ \A x \in 1 .. Len(c) : c2[x] = IF x = k THEN h ELSE c[x]
    BY <1>1, <1>3, <1>4, ExceptSeq
  <1>6. \A x \in 1 .. Len(c) :
           /\ c2[x].op = c[x].op /\ c2[x].interface = c[x].interface
           /\ c2[x].at = IF x = k THEN "held" ELSE c[x].at
           /\ c2[x].current <=> c[x].current
           /\ c[x].at = "dropped" => c2[x].at = "dropped"
           /\ c[x].op = "disconnect" => c2[x].at = c[x].at
           /\ c2[x].at = "queued" <=> c[x].at = "queued" /\ x # k
    BY <1>3, <1>5
  <1>7. Moves(c, b, c2, b, g, g) /\ QueueKept(c, c2, g, k) /\ Added(b, b) = {}
    <2>1. /\ Len(b) <= Len(b) /\ \A n \in 1 .. Len(b) : b[n] = b[n]
          /\ \A n \in 1 .. Len(b) : n > Len(b) => b[n].kind # "answer"
      BY <1>1
    <2>2. \A x \in 1 .. Len(c) :
            /\ c2[x].op = c[x].op /\ c2[x].interface = c[x].interface
            /\ c2[x].current <=> c[x].current
            /\ c[x].at = "dropped" => c2[x].at = "dropped"
            /\ c[x].op = "disconnect" => c2[x].at = c[x].at
            /\ c2[x].at = "queued" <=> c[x].at = "queued" /\ x # k
      BY <1>6
    <2> QED BY <1>5, <2>1, <2>2, InPlaceMoves
  <1> QED BY <1>5, <1>6, <1>7 DEF c2

(* A connect is answered at once: with success when there is a connection,   *)
(* which is then the one of the interface that connects.                     *)
LEMMA ConnectAnswered ==
  ASSUME Inv, Serves({"connect"}), NEW result \in {"right", "failed"},
         result = "right" => client.is_connected, Answer(m.calls, result), client' = client,
         finds' = finds
  PROVE  Inv'
  <1> DEFINE k == Min(Queued)
             c == m.calls
             r == Reply(c[k], result)
             c2 == RemoveAt(c, k)
             b2 == Append(inbox, r)
             t == [m EXCEPT !.calls = c2]
             i0 == c[k].interface
             g == Skip(k, Len(c))
             f == [n \in Nat |-> k]
  <1>1. /\ c \in Seq(Calls) /\ Len(c) \in Nat /\ inbox \in Seq(Messages)
        /\ client \in Clients /\ k \in 1 .. Len(c) /\ k \in Int
        /\ c[k].at = "queued" /\ c[k].op = "connect" /\ i0 \in Interfaces
        /\ \A x \in 1 .. Len(c) : c[x].at = "queued" => k <= x
        /\ \A x \in 1 .. Len(c) : c[x] \in Calls
        /\ Good(m, inbox, client) =>
              \A x \in 1 .. Len(c) : c[x].op = "disconnect" => c[x].at = "queued"
    BY Serving
  <1>2. inbox' = b2 /\ m' = t
    BY DEF Answer, Served
  <1>3. result \in Results
    BY DEF Results
  <1>4. /\ c2 \in Seq(Calls) /\ b2 \in Seq(Messages)
        /\ Len(inbox) \in Nat /\ Len(b2) = Len(inbox) + 1 /\ b2[Len(b2)] = r
        /\ \A n \in 1 .. Len(inbox) : b2[n] = inbox[n]
        /\ r.kind = "answer" /\ r.call.op = c[k].op /\ r.call.interface = c[k].interface
        /\ r.result = result
    <2>1. OneAnswered(c, c, inbox, k, result)
      BY <1>1, <1>3, AnswerTypes
    <2> QED BY <2>1 DEF OneAnswered
  <1>5. /\ t.calls = c2 /\ t.state = m.state /\ t.active = m.active /\ t.dev = m.dev
        /\ t.reconnect = m.reconnect
    BY <1>4, OtherCalls
  <1>6. ASSUME Good(m, inbox, client) PROVE Good(t, b2, client)
    <2>1. Drops(c, c) /\ Len(c2) = Len(c) - 1
          /\ \A a \in 1 .. Len(c2) : c2[a] = c[IF a < k THEN a ELSE a + 1]
      BY <1>1, Dropped, Removed
    <2>2. Moves(c, inbox, c2, b2, g, f) /\ QueueKept(c, c2, g, k)
      BY <1>1, <1>3, <1>6, <2>1, AnswerMoves
    <2> HIDE DEF k, c, r, c2, b2, t, g, f, i0
    <2>3. \A n \in Added(inbox, b2) : n = Len(b2)
      BY <1>4 DEF Added
    <2>4. Deferred(c2, client)
      <3>1. Deferred(c, client)
        BY <1>6 DEF Good, Base, c
      <3> QED BY <1>1, <2>1, <3>1 DEF Deferred
    <2>5. Owned(t, client)
      <3>1. Owned(m, client) /\ \A n \in Added(inbox, b2) : b2[n].call.op # "disconnect"
        BY <1>1, <1>4, <1>6, <2>3 DEF Good, Base
      <3> QED BY <1>5, <2>2, <3>1, MovesOwned DEF c
    <2>6. /\ \A i \in Interfaces : m.dev[i] # "CONNECTED"
          /\ \A i \in Interfaces : m.dev[i] = "CONNECTING" =>
               /\ NoneTold(inbox, i)
               /\ \E n \in 1 .. Len(c) : /\ k <= n /\ Sent(c, n, "connect", i) /\ c[n].current
                                         /\ c[n].at = "queued"
      BY <1>1, <1>6, ServesAlone DEF c
    <2>7. Up(t, b2, client)
      BY <1>5, <2>6 DEF Up, UpWeak, UpStrong
    <2>8. ASSUME result = "right", m.dev[i0] = "CONNECTING" PROVE Linked(client, i0)
      <3>1. client.is_connected /\ client.interface \in Interfaces /\ client.interface # None
        BY <1>1, <2>8, NoneIsNoInterface DEF Clients, NoClient
      <3>2. CASE m.dev[client.interface] \in Going
        BY <1>1, <1>6, <2>8, <3>1, <3>2 DEF Linked, Good, Base, Settled, Going
      <3>3. ASSUME NEW x \in 1 .. Len(c), Sent(c, x, "disconnect", client.interface) PROVE FALSE
        <4>1. c[x].at = "queued" /\ c[x].op = "disconnect" /\ k <= x /\ x # k
          BY <1>1, <1>6, <3>3 DEF Sent
        <4>2. PICK n \in 1 .. Len(c) : /\ x <= n /\ Sent(c, n, "connect", i0)
                                       /\ c[n].current /\ c[n].at = "queued"
          BY <1>1, <1>6, <2>8, <4>1 DEF Good, Base, Ordered, Going, c
        <4>3. Sent(c, k, "connect", i0) /\ c[k].current
          BY <1>1, <1>6 DEF Sent, Good, Base, Safe, Marked, c, i0
        <4>4. n = k
          BY <1>1, <1>6, <4>2, <4>3 DEF Good, Base, Safe, Single, c
        <4> QED BY <1>1, <4>1, <4>2, <4>4
      <3> QED BY <1>6, <3>1, <3>2, <3>3 DEF Good, Base, Owned, c
    <2>9. UpSoon(t, b2, client)
      <3> SUFFICES ASSUME NEW i \in Interfaces, m.dev[i] = "CONNECTING", NEW n \in 1 .. Len(b2),
                          Told(b2, n, "connect", i), b2[n].result # "failed"
                   PROVE  Linked(client, i)
        BY <1>5 DEF UpSoon
      <3>1. n \notin 1 .. Len(inbox)
        BY <1>4, <2>6 DEF NoneTold, Told
      <3>2. n = Len(b2)
        BY <1>4, <3>1
      <3>3. i = i0 /\ result = "right"
        BY <1>4, <3>2 DEF Told, i0
      <3> QED BY <2>8, <3>3
    <2> QED BY <1>1, <1>4, <1>5, <1>6, <2>2, <2>4, <2>5, <2>7, <2>9, MovesGood DEF c
  <1> HIDE DEF k, c, r, c2, b2, i0
  <1> QED BY <1>1, <1>2, <1>4, <1>6, RelayStep

(* urelay serves a connect. *)
LEMMA relay_connectStep == ASSUME Inv, relay_connect PROVE Inv'
  <1> DEFINE k == Min(Queued)
             c == m.calls
             i0 == c[k].interface
             c2 == [c EXCEPT ![k].at = "held"]
             t == [m EXCEPT !.calls = c2]
             g == [a \in 1 .. Len(c) |-> a]
             cl2 == IF client = NoClient THEN [client EXCEPT !.interface = i0] ELSE client
  <1>0. Serves({"connect"}) /\ finds' = finds
    BY DEF relay_connect, world
  <1>1. CASE client.is_connected
    <2>1. Answer(m.calls, "right") /\ client' = client
      BY <1>1 DEF relay_connect
    <2> QED BY <1>0, <1>1, <2>1, ConnectAnswered
  <1>2. CASE ~client.is_connected /\ client = NoClient /\ Answer(m.calls, "failed")
             /\ client' = client
    BY <1>0, <1>2, ConnectAnswered
  <1>3. CASE ~client.is_connected /\ Hold /\ client' = cl2
    <2>1. /\ c \in Seq(Calls) /\ Len(c) \in Nat /\ inbox \in Seq(Messages)
          /\ client \in Clients /\ k \in 1 .. Len(c) /\ k \in Int
          /\ c[k].at = "queued" /\ c[k].op = "connect" /\ i0 \in Interfaces
          /\ \A x \in 1 .. Len(c) : c[x].at = "queued" => k <= x
          /\ \A x \in 1 .. Len(c) : c[x] \in Calls
      BY <1>0, Serving
    <2>2. m' = t /\ inbox' = inbox
      <3>1. m \in Managers
        BY DEF Inv, InTurn
      <3>2. t = [m EXCEPT !.calls[k].at = "held"]
        BY <3>1 DEF Managers
      <3> QED BY <1>3, <3>2 DEF Hold
    <2>3. /\ c2 \in Seq(Calls) /\ Len(c2) = Len(c)
          /\ \A x \in 1 .. Len(c) : c2[x].op = c[x].op /\ c2[x].interface = c[x].interface
                                    /\ c2[x].at = IF x = k THEN "held" ELSE c[x].at
          /\ Moves(c, inbox, c2, inbox, g, g) /\ QueueKept(c, c2, g, k)
          /\ Added(inbox, inbox) = {}
      BY <2>1, HoldMoves
    <2>4. /\ t.calls = c2 /\ t.state = m.state /\ t.active = m.active /\ t.dev = m.dev
          /\ t.reconnect = m.reconnect
      BY <2>3, OtherCalls
    <2>5. /\ cl2 \in Clients /\ cl2 # NoClient /\ ~cl2.is_connected
          /\ client = NoClient => cl2.interface = i0
          /\ client # NoClient => cl2 = client
      <3>1. CASE client # NoClient
        BY <1>3, <2>1, <3>1
      <3>2. CASE client = NoClient
        <4>1. cl2 = [interface |-> i0, is_connected |-> FALSE] /\ i0 # None
          BY <2>1, <3>2, NoneIsNoInterface DEF NoClient
        <4> HIDE DEF cl2, i0
        <4>2. [interface |-> i0, is_connected |-> FALSE] \in
                [interface : Interfaces, is_connected : BOOLEAN]
          BY <2>1
        <4> QED BY <3>2, <4>1, <4>2 DEF Clients, NoClient
      <3> QED BY <3>1, <3>2
    <2> HIDE DEF k, c, i0, c2, t, g, cl2
    <2>6. ASSUME Good(m, inbox, client) PROVE Good(t, inbox, cl2)
      <3>1. Deferred(c2, cl2)
        <4>1. Deferred(c, client)
          BY <2>6 DEF Good, Base, c
        <4> QED BY <2>1, <2>3, <2>5, <4>1 DEF Deferred
      <3>2. /\ \A i \in Interfaces : m.dev[i] # "CONNECTED"
            /\ \A i \in Interfaces : m.dev[i] = "CONNECTING" => NoneTold(inbox, i)
        BY <2>1, <2>6, ServesAlone DEF c
      <3>3. Up(t, inbox, cl2) /\ UpSoon(t, inbox, cl2)
        BY <2>4, <3>2 DEF Up, UpWeak, UpStrong, UpSoon, NoneTold
      <3>4. CASE client # NoClient
        <4>1. Owned(t, cl2)
          BY <2>3, <2>4, <2>5, <2>6, <3>4, MovesOwned DEF Good, Base, c
        <4> QED BY <2>1, <2>3, <2>4, <2>6, <3>1, <3>3, <4>1, MovesGood DEF c
      <3>5. CASE client = NoClient
        <4>1. ASSUME m.dev[i0] \notin Going
              PROVE  \E x \in 1 .. Len(c2) : Sent(c2, x, "disconnect", i0)
          <5>1. ~AllDropped(c, i0)
            BY <2>1 DEF AllDropped, Sent, i0
          <5>2. m.dev[i0] = "DISCONNECTING"
            <6>1. m.dev[i0] \in DeviceStates
              BY <2>1 DEF Inv, InTurn, Managers
            <6>2. m.dev[i0] # "DISCONNECTED"
              BY <2>1, <2>6, <5>1 DEF Good, Base, Safe, ByState, c
            <6> QED BY <4>1, <6>1, <6>2 DEF DeviceStates, Going
          <5>3. UnderWay(c, inbox, "disconnect", i0)
            BY <2>1, <2>6, <5>2 DEF Good, Base, DisWaits, c
          <5>4. \A n \in 1 .. Len(inbox) : ~Told(inbox, n, "disconnect", i0)
            BY <2>1, <2>6, <5>1 DEF Good, Base, Safe, Behind, c
          <5>5. PICK x \in 1 .. Len(c) : Sent(c, x, "disconnect", i0)
            BY <5>3, <5>4 DEF UnderWay
          <5> QED BY <2>3, <5>5 DEF Sent
        <4>2. Owned(t, cl2)
          BY <2>4, <2>5, <3>5, <4>1 DEF Owned
        <4> QED BY <2>1, <2>3, <2>4, <2>6, <3>1, <3>3, <4>2, MovesGood DEF c
      <3> QED BY <3>4, <3>5
    <2>7. m' = [m EXCEPT !.calls = c2] /\ t = [m EXCEPT !.calls = c2]
      BY <2>2 DEF t
    <2> QED BY <1>0, <1>3, <2>1, <2>2, <2>3, <2>5, <2>6, <2>7, RelayStep
  <1> QED BY <1>1, <1>2, <1>3 DEF relay_connect, Served

(* urelay serves a disconnect: the connects before it were answered or are   *)
(* dropped.                                                                  *)
LEMMA relay_disconnectStep == ASSUME Inv, relay_disconnect PROVE Inv'
  <1> DEFINE k == Min(Queued)
             c == m.calls
             i0 == c[k].interface
             d == IF client = NoClient THEN c ELSE del_outgoing_client(c)
             r == Reply(c[k], "right")
             c2 == RemoveAt(d, k)
             b2 == Append(inbox, r)
             t == [m EXCEPT !.calls = c2]
             g == Skip(k, Len(c))
             f == [n \in Nat |-> k]
  <1>0. Serves({"disconnect"}) /\ finds' = finds /\ client' = NoClient
    BY DEF relay_disconnect, world
  <1>1. /\ c \in Seq(Calls) /\ Len(c) \in Nat /\ inbox \in Seq(Messages)
        /\ k \in 1 .. Len(c) /\ k \in Int
        /\ c[k].at = "queued" /\ c[k].op = "disconnect" /\ i0 \in Interfaces
        /\ \A x \in 1 .. Len(c) : c[x].at = "queued" => k <= x
        /\ \A x \in 1 .. Len(c) : c[x] \in Calls
        /\ Good(m, inbox, client) =>
              \A x \in 1 .. Len(c) : c[x].op = "disconnect" => c[x].at = "queued"
    BY <1>0, Serving
  <1>2. inbox' = b2 /\ m' = t
    BY DEF relay_disconnect, Answer, Served
  <1>3. Drops(c, d) /\ d \in Seq(Calls) /\ Len(d) = Len(c)
        /\ (client # NoClient => \A x \in 1 .. Len(c) : d[x].at # "held")
    BY <1>1, Dropped DEF Drops
  <1>4. client = NoClient => d = c
    OBVIOUS
  <1> HIDE DEF d
  <1>5. "right" \in Results
    BY DEF Results
  <1>6. /\ c2 \in Seq(Calls) /\ b2 \in Seq(Messages)
        /\ Len(inbox) \in Nat /\ Len(b2) = Len(inbox) + 1 /\ b2[Len(b2)] = r
        /\ \A n \in 1 .. Len(inbox) : b2[n] = inbox[n]
        /\ r.call.op = c[k].op
    <2>1. OneAnswered(c, d, inbox, k, "right")
      BY <1>1, <1>3, <1>5, AnswerTypes
    <2> QED BY <2>1 DEF OneAnswered
  <1> HIDE DEF k, c, i0
  <1>7. /\ t.calls = c2 /\ t.state = m.state /\ t.active = m.active /\ t.dev = m.dev
        /\ t.reconnect = m.reconnect
    BY <1>6, OtherCalls
  <1>8. ASSUME Good(m, inbox, client) PROVE Good(t, b2, NoClient)
    <2>1. /\ Len(c2) = Len(c) - 1
          /\ \A a \in 1 .. Len(c2) : c2[a] = d[IF a < k THEN a ELSE a + 1]
      BY <1>1, <1>3, Removed
    <2>2. \A x \in 1 .. Len(c) : d[x].at # "held"
      <3>1. CASE client = NoClient
        <4>1. Deferred(c, NoClient)
          BY <1>8, <3>1 DEF Good, Base, c
        <4> QED BY <1>4, <3>1, <4>1 DEF Deferred
      <3> QED BY <1>3, <3>1
    <2>3. AllDropped(c2, i0)
      <3> SUFFICES ASSUME NEW a \in 1 .. Len(c2), Sent(c2, a, "connect", i0)
                   PROVE  c2[a].at = "dropped"
        BY DEF AllDropped
      <3> DEFINE x == IF a < k THEN a ELSE a + 1
      <3>1. x \in 1 .. Len(c) /\ c2[a] = d[x]
        BY <1>1, <2>1
      <3> HIDE DEF x
      <3>2. Sent(c, x, "connect", i0)
        BY <1>3, <3>1 DEF Drops, Sent
      <3>3. x < k
        BY <1>1, <1>8, <3>1, <3>2 DEF Good, Base, Safe, Behind, Sent, c, i0
      <3>4. c[x].at # "queued" /\ c[x] \in Calls
        BY <1>1, <3>1, <3>3
      <3>5. c[x].at \in {"held", "dropped"}
        BY <3>4 DEF Calls
      <3> QED BY <1>3, <2>2, <3>1, <3>5 DEF Drops
    <2>4. Moves(c, inbox, c2, b2, g, f) /\ QueueKept(c, c2, g, k)
      BY <1>1, <1>3, <1>5, <1>8, <2>3, AnswerMoves DEF i0
    <2> HIDE DEF r, c2, b2, t, g, f
    <2>5. Deferred(c2, NoClient)
      BY <1>1, <2>1, <2>2 DEF Deferred
    <2>6. Owned(t, NoClient)
      BY DEF Owned, NoClient
    <2>7. /\ \A i \in Interfaces : m.dev[i] # "CONNECTED"
          /\ \A i \in Interfaces : m.dev[i] = "CONNECTING" => NoneTold(inbox, i)
      BY <1>1, <1>8, ServesAlone DEF c
    <2>8. Up(t, b2, NoClient)
      BY <1>7, <2>7 DEF Up, UpWeak, UpStrong
    <2>9. ASSUME NEW i \in Interfaces, m.dev[i] = "CONNECTING", NEW n \in 1 .. Len(b2),
                 Told(b2, n, "connect", i)
          PROVE  FALSE
      <3>1. n \notin 1 .. Len(inbox)
        BY <1>6, <2>7, <2>9 DEF NoneTold, Told
      <3>2. n = Len(b2)
        BY <1>6, <3>1
      <3> QED BY <1>1, <1>6, <2>9, <3>2 DEF Told
    <2>10. UpSoon(t, b2, NoClient)
      BY <1>7, <2>9 DEF UpSoon
    <2> QED BY <1>1, <1>6, <1>7, <1>8, <2>4, <2>5, <2>6, <2>8, <2>10, MovesGood DEF c
  <1>9. NoClient \in Clients
    BY DEF Clients
  <1> HIDE DEF r, c2, b2
  <1> QED BY <1>0, <1>2, <1>6, <1>8, <1>9, RelayStep

(* A message that is not a success of a get_state is added. *)
LEMMA AppendKeepsUp ==
  ASSUME NEW b \in Seq(Messages), NEW b2 \in Seq(Messages), NEW cl, Len(b2) = Len(b) + 1,
         \A n \in 1 .. Len(b) : b2[n] = b[n], ~Confirms(b2, Len(b2))
  PROVE  /\ NoConfirm(b) => NoConfirm(b2)
         /\ \A i, f : Broke(b, cl, i, f) => Broke(b2, cl, i, f)
  <1>1. Len(b) \in Nat
    BY LenProperties
  <1>2. \A n \in 1 .. Len(b2) : Confirms(b2, n) => n \in 1 .. Len(b) /\ Confirms(b, n)
    BY <1>1 DEF Confirms
  <1>3. NoConfirm(b) => NoConfirm(b2)
    BY <1>2 DEF NoConfirm
  <1>4. ASSUME NEW i, NEW f, Broke(b, cl, i, f) PROVE Broke(b2, cl, i, f)
    <2>1. PICK k \in 1 .. Len(b) :
            f < k /\ b[k] = Error(i) /\ \A n \in 1 .. Len(b) : Confirms(b, n) => n < k
      BY <1>4 DEF Broke
    <2>2. k \in 1 .. Len(b2) /\ b2[k] = Error(i)
      BY <1>1, <2>1
    <2>3. \A n \in 1 .. Len(b2) : Confirms(b2, n) => n < k
      BY <1>2, <2>1
    <2> QED BY <1>4, <2>1, <2>2, <2>3 DEF Broke
  <1> QED BY <1>3, <1>4

(* urelay serves an invoke, or the device answers one: an answer that is not *)
(* the failure comes over a connection.                                      *)
LEMMA InvokeAnswered ==
  ASSUME Inv, NEW k \in 1 .. Len(m.calls), NEW q \in Int,
         m.calls[k].op \in {"confirm", "subscribe"}, m.calls[k].at # "dropped",
         \A x \in 1 .. Len(m.calls) : m.calls[x].at = "queued" => q <= x,
         q = k \/ (q = 0 /\ m.calls[k].at # "queued"),
         NEW result \in Results,
         Good(m, inbox, client) => result = "failed" \/ client.is_connected,
         inbox' = Append(inbox, Reply(m.calls[k], result)),
         m' = [m EXCEPT !.calls = RemoveAt(m.calls, k)], client' = client, finds' = finds
  PROVE  Inv'
  <1> DEFINE c == m.calls
             r == Reply(c[k], result)
             c2 == RemoveAt(c, k)
             b2 == Append(inbox, r)
             t == [m EXCEPT !.calls = c2]
             g == Skip(k, Len(c))
             f == [n \in Nat |-> k]
  <1>1. /\ c \in Seq(Calls) /\ inbox \in Seq(Messages) /\ client \in Clients
    BY DEF Inv, InTurn, Managers
  <1>2. Len(c) \in Nat
    BY <1>1, LenProperties
  <1>4. /\ c2 \in Seq(Calls) /\ b2 \in Seq(Messages)
        /\ Len(inbox) \in Nat /\ Len(b2) = Len(inbox) + 1 /\ b2[Len(b2)] = r
        /\ \A n \in 1 .. Len(inbox) : b2[n] = inbox[n]
        /\ r.kind = "answer" /\ r.call.op = c[k].op /\ r.call.interface = c[k].interface
        /\ r.result = result
    <2>1. OneAnswered(c, c, inbox, k, result)
      BY <1>1, AnswerTypes
    <2> QED BY <2>1 DEF OneAnswered
  <1>5. /\ t.calls = c2 /\ t.state = m.state /\ t.active = m.active /\ t.dev = m.dev
        /\ t.reconnect = m.reconnect
    BY <1>4, OtherCalls
  <1>6. ASSUME Good(m, inbox, client) PROVE Good(t, b2, client)
    <2>1. Drops(c, c) /\ Len(c2) = Len(c) - 1
          /\ \A a \in 1 .. Len(c2) : c2[a] = c[IF a < k THEN a ELSE a + 1]
      BY <1>1, Dropped, Removed
    <2>2. /\ \A x \in 1 .. Len(c) : c[x].op = "disconnect" => c[x].at = "queued"
          /\ c[k].op # "disconnect"
      BY <1>6 DEF Good, Base, Safe, Marked
    <2>3. Moves(c, inbox, c2, b2, g, f) /\ QueueKept(c, c2, g, q)
      BY <1>1, <2>1, <2>2, AnswerMoves
    <2> HIDE DEF r, c2, b2, t, g, f
    <2>4. Deferred(c2, client)
      <3>1. Deferred(c, client)
        BY <1>6 DEF Good, Base
      <3>2. \A a \in 1 .. Len(c2) : \E x \in 1 .. Len(c) : c2[a] = c[x]
        BY <1>2, <2>1
      <3> QED BY <3>1, <3>2 DEF Deferred
    <2>5. \A n \in Added(inbox, b2) : b2[n].call.op # "disconnect"
      BY <1>4, <2>2 DEF Added
    <2>6. Owned(t, client)
      BY <1>5, <1>6, <2>3, <2>5, MovesOwned DEF Good, Base
    <2>7. \A i, n : n \in 1 .. Len(b2) /\ Told(b2, n, "connect", i) =>
                      n \in 1 .. Len(inbox) /\ Told(inbox, n, "connect", i) /\ b2[n] = inbox[n]
      BY <1>4 DEF Told
    <2>8. CASE client.is_connected
      <3>1. \A b, i, n : ~Broke(b, client, i, n) /\ client # NoClient
        BY <2>8 DEF Broke, NoClient
      <3>2. \A i \in Interfaces : m.dev[i] = "CONNECTED" => Linked(client, i)
        BY <1>6, <3>1 DEF Good, Up, UpWeak
      <3>3. Up(t, b2, client)
        BY <1>5, <3>2 DEF Up, UpWeak, UpStrong
      <3>4. UpSoon(t, b2, client)
        BY <1>5, <1>6, <2>7, <3>1 DEF Good, UpSoon
      <3> QED BY <1>1, <1>4, <1>5, <1>6, <2>3, <2>4, <2>6, <3>3, <3>4, MovesGood
    <2>9. CASE result = "failed"
      <3>1. ~Confirms(b2, Len(b2))
        BY <1>4, <2>9 DEF Confirms
      <3>2. /\ NoConfirm(inbox) => NoConfirm(b2)
            /\ \A i, n : Broke(inbox, client, i, n) => Broke(b2, client, i, n)
        BY <1>1, <1>4, <3>1, AppendKeepsUp
      <3>3. UpWeak(t, b2, client) /\ (m.state # "CONFIRMING" => UpStrong(t, b2, client))
        BY <1>5, <1>6, <3>2 DEF Good, Up, UpWeak, UpStrong
      <3>4. Up(t, b2, client)
        BY <1>5, <3>3 DEF Up
      <3>5. UpSoon(t, b2, client)
        BY <1>5, <1>6, <2>7, <3>2 DEF Good, UpSoon
      <3> QED BY <1>1, <1>4, <1>5, <1>6, <2>3, <2>4, <2>6, <3>4, <3>5, MovesGood
    <2> QED BY <1>6, <2>8, <2>9
  <1>7. m' = t /\ inbox' = b2
    OBVIOUS
  <1> HIDE DEF c, r, c2, b2
  <1> QED BY <1>1, <1>4, <1>6, <1>7, RelayStep

(* urelay serves an invoke. *)
LEMMA relay_invokeStep == ASSUME Inv, relay_invoke PROVE Inv'
  <1> DEFINE k == Min(Queued)
             c == m.calls
             c2 == [c EXCEPT ![k].at = "held"]
             t == [m EXCEPT !.calls = c2]
             g == [a \in 1 .. Len(c) |-> a]
  <1>0. Serves({"confirm", "subscribe"}) /\ finds' = finds /\ client' = client
    BY DEF relay_invoke, world
  <1>1. /\ c \in Seq(Calls) /\ Len(c) \in Nat /\ inbox \in Seq(Messages)
        /\ client \in Clients /\ k \in 1 .. Len(c) /\ k \in Int
        /\ c[k].at = "queued" /\ c[k].op \in {"confirm", "subscribe"}
        /\ \A x \in 1 .. Len(c) : c[x].at = "queued" => k <= x
    BY <1>0, Serving
  <1>2. CASE Answer(m.calls, "failed")
    <2>1. inbox' = Append(inbox, Reply(c[k], "failed")) /\ m' = [m EXCEPT !.calls = RemoveAt(c, k)]
      BY <1>2 DEF Answer, Served
    <2>2. c[k].at # "dropped" /\ "failed" \in Results
      BY <1>1 DEF Results
    <2> HIDE DEF k
    <2> QED BY <1>0, <1>1, <2>1, <2>2, InvokeAnswered
  <1>3. CASE client.is_connected /\ Hold
    <2>1. m' = t /\ inbox' = inbox
      <3>1. m \in Managers
        BY DEF Inv, InTurn
      <3>2. t = [m EXCEPT !.calls[k].at = "held"]
        BY <3>1 DEF Managers
      <3> QED BY <1>3, <3>2 DEF Hold
    <2>2. c[k].op # "disconnect"
      BY <1>1
    <2>3. /\ c2 \in Seq(Calls) /\ Len(c2) = Len(c)
          /\ \A x \in 1 .. Len(c) : c2[x].op = c[x].op /\ c2[x].interface = c[x].interface
                                    /\ c2[x].at = IF x = k THEN "held" ELSE c[x].at
          /\ Moves(c, inbox, c2, inbox, g, g) /\ QueueKept(c, c2, g, k)
          /\ Added(inbox, inbox) = {}
      BY <1>1, <2>2, HoldMoves
    <2>4. /\ t.calls = c2 /\ t.state = m.state /\ t.active = m.active /\ t.dev = m.dev
          /\ t.reconnect = m.reconnect
      BY <2>3, OtherCalls
    <2> HIDE DEF k, c, c2, t, g
    <2>5. ASSUME Good(m, inbox, client) PROVE Good(t, inbox, client)
      <3>1. Deferred(c2, client)
        <4>1. Deferred(c, client) /\ client # NoClient
          BY <1>3, <2>5 DEF Good, Base, NoClient, c
        <4> QED BY <1>1, <1>3, <2>3, <4>1 DEF Deferred
      <3>2. Owned(t, client)
        BY <2>3, <2>4, <2>5, MovesOwned DEF Good, Base, c
      <3>3. UpWeak(t, inbox, client) /\ (m.state # "CONFIRMING" => UpStrong(t, inbox, client))
        BY <2>4, <2>5 DEF Good, Up, UpWeak, UpStrong
      <3>4. Up(t, inbox, client) /\ UpSoon(t, inbox, client)
        BY <2>4, <2>5, <3>3 DEF Good, Up, UpSoon
      <3> QED BY <1>1, <2>3, <2>4, <2>5, <3>1, <3>2, <3>4, MovesGood DEF c
    <2>6. m' = [m EXCEPT !.calls = c2] /\ t = [m EXCEPT !.calls = c2]
      BY <2>1 DEF t
    <2> QED BY <1>0, <1>1, <2>1, <2>3, <2>5, <2>6, RelayStep
  <1> QED BY <1>2, <1>3 DEF relay_invoke

(* The device answers, or the invoke fails. *)
LEMMA handle_responseStep == ASSUME Inv, NEW n, handle_response(n) PROVE Inv'
  <1>1. m.calls \in Seq(Calls)
    BY DEF Inv, InTurn, Managers
  <1>2. n \in 1 .. Len(m.calls)
    BY <1>1, LenProperties DEF handle_response
  <1>3. m.calls[n] \in Calls /\ Len(m.calls) \in Nat
    BY <1>1, <1>2, ElementOfSeq, LenProperties
  <1>4. m.calls[n].at = "held" /\ m.calls[n].op # "connect"
    BY DEF handle_response, Held, HeldConnect
  <1>5. PICK result \in Results : inbox' = Append(inbox, Reply(m.calls[n], result))
    BY DEF handle_response, Results
  <1>6. m' = [m EXCEPT !.calls = RemoveAt(m.calls, n)] /\ client' = client /\ finds' = finds
    BY DEF handle_response, world
  <1>7. \A x \in 1 .. Len(m.calls) : 0 <= x
    BY <1>3
  <1>8. CASE m.calls[n].op \in {"confirm", "subscribe"}
    <2>1. Good(m, inbox, client) => client.is_connected
      <3>1. client \in Clients
        BY DEF Inv
      <3> QED BY <1>2, <1>4, <3>1 DEF Good, Base, Deferred
    <2>2. m.calls[n].at # "dropped" /\ m.calls[n].at # "queued" /\ 0 \in Int
      BY <1>4
    <2>3. \A x \in 1 .. Len(m.calls) : m.calls[x].at = "queued" => 0 <= x
      BY <1>7
    <2> QED BY <1>2, <1>5, <1>6, <1>8, <2>1, <2>2, <2>3, InvokeAnswered
  <1>9. CASE m.calls[n].op = "disconnect"
    <2> DEFINE r == Reply(m.calls[n], result)
               b2 == Append(inbox, r)
               c2 == RemoveAt(m.calls, n)
    <2>1. inbox \in Seq(Messages) /\ client \in Clients
      BY DEF Inv
    <2>2. c2 \in Seq(Calls) /\ b2 \in Seq(Messages)
      <3>1. OneAnswered(m.calls, m.calls, inbox, n, result)
        BY <1>1, <1>2, <2>1, AnswerTypes
      <3> QED BY <3>1 DEF OneAnswered
    <2>3. ~Good(m, inbox, client)
      BY <1>2, <1>4, <1>9 DEF Good, Base, Safe, Marked
    <2>4. m' = [m EXCEPT !.calls = c2] /\ inbox' = b2
      BY <1>5, <1>6
    <2> HIDE DEF r, b2, c2
    <2> QED BY <1>6, <2>1, <2>2, <2>3, <2>4, RelayStep
  <1> QED BY <1>3, <1>4, <1>8, <1>9 DEF Calls, Ops

(* The connection breaks: the manager will read so, after every answer that  *)
(* came over it.                                                             *)
LEMMA out_client_state_cbStep == ASSUME Inv, out_client_state_cb PROVE Inv'
  <1> DEFINE c == m.calls
             i0 == client.interface
             c2 == del_outgoing_client(c)
             b2 == Append(inbox, Error(i0))
             t == [m EXCEPT !.calls = c2]
             g == [a \in 1 .. Len(c) |-> a]
  <1>0. /\ client.is_connected /\ client' = NoClient /\ m' = t /\ inbox' = b2 /\ finds' = finds
    BY DEF out_client_state_cb, world
  <1>1. /\ c \in Seq(Calls) /\ inbox \in Seq(Messages) /\ client \in Clients
    BY DEF Inv, InTurn, Managers
  <1>2. Len(c) \in Nat /\ Len(inbox) \in Nat
    BY <1>1, LenProperties
  <1>3. Error(i0) \in Messages /\ Error(i0).kind = "error"
    BY <1>0, <1>1 DEF Clients, NoClient, Messages, Error
  <1>4. /\ b2 \in Seq(Messages) /\ Len(b2) = Len(inbox) + 1 /\ b2[Len(inbox) + 1] = Error(i0)
        /\ \A n \in 1 .. Len(inbox) : b2[n] = inbox[n]
    BY <1>1, <1>3, AppendProperties
  <1>5. Drops(c, c2) /\ c2 \in Seq(Calls) /\ \A x \in 1 .. Len(c) : c2[x].at # "held"
    BY <1>1, Dropped DEF Drops
  <1>6. /\ t.calls = c2 /\ t.state = m.state /\ t.active = m.active /\ t.dev = m.dev
        /\ t.reconnect = m.reconnect
    BY <1>5, OtherCalls
  <1>7. ASSUME Good(m, inbox, client) PROVE Good(t, b2, NoClient)
    <2> HIDE DEF c2, b2, t, i0, c
    <2>1. \A n \in 1 .. Len(b2) : n > Len(inbox) => b2[n].kind # "answer"
      BY <1>2, <1>3, <1>4
    <2>2. \A x \in 1 .. Len(c) : c[x].op = "disconnect" => c[x].at = "queued"
      BY <1>7 DEF Good, Base, Safe, Marked, c
    <2>3. \A x \in 1 .. Len(c) :
            /\ c2[x].op = c[x].op /\ c2[x].interface = c[x].interface
            /\ c2[x].current <=> c[x].current
            /\ c[x].at = "dropped" => c2[x].at = "dropped"
            /\ c[x].op = "disconnect" => c2[x].at = c[x].at
            /\ c2[x].at = "queued" <=> c[x].at = "queued" /\ x # 0
      BY <1>2, <1>5, <2>2 DEF Drops
    <2>4. /\ 0 \in Int /\ Len(c2) = Len(c) /\ Len(inbox) <= Len(b2)
          /\ \A x \in 1 .. Len(c) : c[x].at = "queued" => 0 <= x
      BY <1>2, <1>4, <1>5 DEF Drops
    <2>5. Moves(c, inbox, c2, b2, g, g) /\ QueueKept(c, c2, g, 0)
      BY <1>1, <1>4, <1>5, <2>1, <2>3, <2>4, InPlaceMoves
    <2>6. Deferred(c2, NoClient)
      BY <1>5, <2>4 DEF Deferred
    <2>7. Owned(t, NoClient)
      BY DEF Owned, NoClient
    <2>8. \A n \in 1 .. Len(b2) : Confirms(b2, n) => n < Len(b2)
      BY <1>2, <1>4, <2>1 DEF Confirms
    <2>9. ASSUME NEW k \in Int, k <= Len(inbox) PROVE Broke(b2, NoClient, i0, k)
      <3>1. Len(b2) \in 1 .. Len(b2) /\ k < Len(b2) /\ b2[Len(b2)] = Error(i0)
        BY <1>2, <1>4, <2>9
      <3> QED BY <2>8, <3>1 DEF Broke
    <2>10. \A b, i, k : ~Broke(b, client, i, k) /\ client # NoClient
      BY <1>0 DEF Broke, NoClient
    <2>11. \A i \in Interfaces : m.dev[i] = "CONNECTED" => i = i0
      BY <1>7, <2>10 DEF Good, Up, UpWeak, Linked, i0
    <2>12. Up(t, b2, NoClient)
      <3>1. Broke(b2, NoClient, i0, 0)
        BY <1>2, <2>9
      <3> QED BY <1>6, <2>11, <3>1 DEF Up, UpWeak, UpStrong
    <2>13. UpSoon(t, b2, NoClient)
      <3> SUFFICES ASSUME NEW i \in Interfaces, m.dev[i] = "CONNECTING", NEW n \in 1 .. Len(b2),
                          Told(b2, n, "connect", i), b2[n].result # "failed"
                   PROVE  Broke(b2, NoClient, i, n)
        BY <1>6 DEF UpSoon
      <3>1. n \in 1 .. Len(inbox)
        BY <1>2, <1>4, <2>1 DEF Told
      <3>2. i = i0
        BY <1>4, <1>7, <2>10, <3>1 DEF Good, UpSoon, Told, Linked, i0
      <3> QED BY <1>2, <2>9, <3>1, <3>2
    <2> HIDE DEF g
    <2> QED BY <1>1, <1>4, <1>5, <1>6, <1>7, <2>4, <2>5, <2>6, <2>7, <2>12, <2>13, MovesGood DEF c
  <1>8. NoClient \in Clients
    BY DEF Clients
  <1> HIDE DEF c2, b2
  <1> QED BY <1>0, <1>4, <1>5, <1>7, <1>8, RelayStep

\* f has the k positions ns, out of 1 .. N, in their order.
Enumerates(f, ns, k, N) ==
  /\ N \in Nat /\ ns \in SUBSET (1 .. N) /\ k = Cardinality(ns)
  /\ f \in [1 .. k -> ns] /\ \A a, d \in 1 .. k : a < d => f[a] < f[d]

(* A set of positions in their order has each of them once. *)
LEMMA InOrderFacts ==
  ASSUME NEW f, NEW ns, NEW k, NEW N, Enumerates(f, ns, k, N)
  PROVE  /\ k \in Nat /\ Len(f) = k
         /\ \A a, d \in 1 .. k : f[a] = f[d] => a = d
         /\ \A x \in ns : \E a \in 1 .. k : f[a] = x
  <1> USE DEF Enumerates
  <1>1. IsFiniteSet(ns) /\ k \in Nat
    <2>1. IsFiniteSet(1 .. N)
      BY FS_Interval
    <2>2. IsFiniteSet(ns)
      BY <2>1, FS_Subset
    <2> QED BY <2>2, FS_CardinalityType
  <1>2. f \in [1 .. k -> ns] /\ \A a, d \in 1 .. k : a < d => f[a] < f[d]
    OBVIOUS
  <1>3. ASSUME NEW a \in 1 .. k, NEW d \in 1 .. k, f[a] = f[d] PROVE a = d
    <2>1. f[a] \in Int /\ f[d] \in Int /\ ~(a < d) /\ ~(d < a)
      <3>1. \A x \in ns : x \in Int
        OBVIOUS
      <3>2. f[a] \in Int /\ f[d] \in Int
        BY <1>2, <3>1
      <3>3. ~(f[a] < f[d]) /\ ~(f[d] < f[a])
        BY <1>3, <3>2
      <3> QED BY <1>2, <3>2, <3>3
    <2> QED BY <1>1, <2>1
  <1>4. f \in Injection(1 .. k, ns)
    BY <1>2, <1>3 DEF Injection, IsInjective
  <1>5. Cardinality(1 .. k) = k
    BY <1>1, FS_Interval
  <1>6. f \in Surjection(1 .. k, ns)
    BY <1>1, <1>4, <1>5, FS_Injection
  <1>7. \A x \in ns : \E a \in 1 .. k : f[a] = x
    BY <1>6 DEF Surjection
  <1>8. f \in Seq(ns) /\ Len(f) = k
    BY <1>1, <1>2, LenProperties, IsASeq
  <1> QED BY <1>1, <1>2, <1>3, <1>7, <1>8

\* The deferred connects f of the calls c are answered in b, the others g remain.
Answers(c, b, result, f, g) ==
  LET c2 == [n \in DOMAIN g |-> c[g[n]]]
      b2 == b \o [n \in DOMAIN f |-> Reply(c[Reverse(f)[n]], result)]
      h == [n \in Nat |-> f[Len(f) - (n - Len(b)) + 1]]
  IN  /\ c2 \in Seq(Calls) /\ b2 \in Seq(Messages)
      /\ Moves(c, b, c2, b2, g, h) /\ QueueKept(c, c2, g, 0)
      /\ \A n \in 1 .. Len(b) : b2[n] = b[n]
      /\ \A n \in Added(b, b2) :
           /\ h[n] \in 1 .. Len(c) /\ c[h[n]].op = "connect" /\ c[h[n]].at = "held"
           /\ b2[n].call.op = "connect" /\ b2[n].call.interface = c[h[n]].interface
           /\ b2[n].result = result
      /\ \A a \in 1 .. Len(c2) : ~HeldConnect(c2[a]) /\ \E x \in 1 .. Len(c) : c2[a] = c[x]

(* The deferred connects are answered. *)
LEMMA ConnectsMove ==
  ASSUME NEW c \in Seq(Calls), NEW b \in Seq(Messages), NEW result \in Results,
         NEW f \in InOrder({n \in DOMAIN c : HeldConnect(c[n])}),
         NEW g \in InOrder(DOMAIN c \ {n \in DOMAIN c : HeldConnect(c[n])})
  PROVE  Answers(c, b, result, f, g)
  <1> DEFINE these == {n \in DOMAIN c : HeldConnect(c[n])}
             rest == DOMAIN c \ these
             kf == Cardinality(these)
             kg == Cardinality(rest)
             c2 == [n \in DOMAIN g |-> c[g[n]]]
             rs == [n \in DOMAIN f |-> Reply(c[Reverse(f)[n]], result)]
             b2 == b \o rs
             h == [n \in Nat |-> f[Len(f) - (n - Len(b)) + 1]]
  <1>1. /\ Len(c) \in Nat /\ DOMAIN c = 1 .. Len(c) /\ Len(b) \in Nat
        /\ \A x \in 1 .. Len(c) : c[x] \in Calls
    BY LenProperties, ElementOfSeq
  <1>2. these \in SUBSET (1 .. Len(c)) /\ rest \in SUBSET (1 .. Len(c))
    BY <1>1
  <1>3. \A x \in 1 .. Len(c) : x \in these <=> c[x].at = "held" /\ c[x].op = "connect"
    BY <1>1 DEF HeldConnect, Held
  <1>4. \A x \in 1 .. Len(c) : x \in rest <=> x \notin these
    BY <1>1
  <1>5. f \in InOrder(these) /\ g \in InOrder(rest)
    OBVIOUS
  <1> HIDE DEF these, rest
  <1>6. /\ kf \in Nat /\ f \in [1 .. kf -> these] /\ Len(f) = kf
        /\ \A a, d \in 1 .. kf : f[a] = f[d] => a = d
        /\ \A x \in these : \E a \in 1 .. kf : f[a] = x
    <2>1. f \in [1 .. kf -> these] /\ \A a, d \in 1 .. kf : a < d => f[a] < f[d]
      BY <1>5 DEF InOrder
    <2>2. kf = Cardinality(these)
      OBVIOUS
    <2> HIDE DEF kf
    <2>3. Enumerates(f, these, kf, Len(c))
      BY <1>1, <1>2, <2>1, <2>2 DEF Enumerates
    <2> QED BY <2>1, <2>3, InOrderFacts
  <1>7. /\ kg \in Nat /\ g \in [1 .. kg -> rest]
        /\ \A a, d \in 1 .. kg : a < d => g[a] < g[d]
        /\ \A x \in rest : \E a \in 1 .. kg : g[a] = x
    <2>1. g \in [1 .. kg -> rest] /\ \A a, d \in 1 .. kg : a < d => g[a] < g[d]
      BY <1>5 DEF InOrder
    <2>2. kg = Cardinality(rest)
      OBVIOUS
    <2> HIDE DEF kg
    <2>3. Enumerates(g, rest, kg, Len(c))
      BY <1>1, <1>2, <2>1, <2>2 DEF Enumerates
    <2> QED BY <2>1, <2>3, InOrderFacts
  <1> HIDE DEF kf, kg
  <1>8. /\ c2 \in Seq(Calls) /\ Len(c2) = kg
        /\ \A a \in 1 .. kg : c2[a] = c[g[a]] /\ g[a] \in 1 .. Len(c) /\ g[a] \in rest
    <2>1. c2 = [n \in 1 .. kg |-> c[g[n]]]
      BY <1>7
    <2>2. \A n \in 1 .. kg : c[g[n]] \in Calls /\ g[n] \in 1 .. Len(c) /\ g[n] \in rest
      BY <1>1, <1>2, <1>7
    <2>3. c2 \in Seq(Calls)
      BY <1>7, <2>1, <2>2, IsASeq
    <2>4. Len(c2) = kg
      BY <1>7, <2>1, <2>3, LenProperties
    <2> QED BY <2>1, <2>2, <2>3, <2>4
  <1>9. \A n \in 1 .. kf : /\ kf - n + 1 \in 1 .. kf /\ f[kf - n + 1] \in these
                           /\ rs[n] = Reply(c[f[kf - n + 1]], result)
    <2>1. \A n \in 1 .. kf : kf - n + 1 \in 1 .. kf
      BY <1>6
    <2>2. \A n \in 1 .. kf : Reverse(f)[n] = f[(kf - n) + 1]
      BY <1>6 DEF Reverse
    <2> QED BY <1>6, <2>1, <2>2
  <1>10. ASSUME NEW x \in these
         PROVE  LET r == Reply(c[x], result) IN
                /\ r \in Messages /\ r.kind = "answer" /\ r.call.op = "connect"
                /\ r.call.interface = c[x].interface /\ (r.call.current <=> c[x].current)
                /\ r.result = result
    <2> DEFINE y == [c[x] EXCEPT !.at = "answered"]
               r == Reply(c[x], result)
    <2>1. c[x] \in Calls /\ c[x].op = "connect"
      BY <1>1, <1>2, <1>3
    <2>2. /\ y \in Answered /\ y.op = "connect" /\ y.interface = c[x].interface
          /\ (y.current <=> c[x].current)
      BY <2>1 DEF Calls, Answered
    <2>3. r = [kind |-> "answer", call |-> y, result |-> result]
      BY DEF Reply
    <2> HIDE DEF y, r
    <2>4. /\ r \in Messages /\ r.kind = "answer" /\ r.call.op = "connect"
          /\ r.call.interface = c[x].interface /\ (r.call.current <=> c[x].current)
          /\ r.result = result
      BY <2>2, <2>3 DEF Messages
    <2> QED BY <2>4 DEF r
  <1>11. rs \in Seq(Messages) /\ Len(rs) = kf
    <2> DEFINE W(n) == Reply(c[Reverse(f)[n]], result)
    <2>1. rs = [n \in 1 .. kf |-> W(n)]
      BY <1>6
    <2>2. \A n \in 1 .. kf : W(n) \in Messages
      <3> TAKE n \in 1 .. kf
      <3>1. rs[n] \in Messages
        BY <1>9, <1>10
      <3>2. rs[n] = W(n)
        BY <2>1
      <3> QED BY <3>1, <3>2
    <2> HIDE DEF W
    <2>3. rs \in Seq(Messages)
      BY <1>6, <2>1, <2>2, IsASeq
    <2> QED BY <1>6, <2>1, <2>3, LenProperties
  <1> HIDE DEF rs, c2
  <1>12. /\ b2 \in Seq(Messages) /\ Len(b2) = Len(b) + kf
         /\ \A n \in 1 .. Len(b) : b2[n] = b[n]
         /\ \A n \in 1 .. Len(b2) : n > Len(b) => b2[n] = rs[n - Len(b)]
    <2>1. /\ b2 \in Seq(Messages) /\ Len(b2) = Len(b) + Len(rs)
          /\ \A n \in 1 .. Len(b) + Len(rs) :
               b2[n] = IF n <= Len(b) THEN b[n] ELSE rs[n - Len(b)]
      BY <1>11, ConcatProperties
    <2> HIDE DEF b2
    <2> QED BY <1>1, <1>6, <1>11, <2>1
  <1>13. \A n \in 1 .. Len(b2) : h[n] = f[kf - (n - Len(b)) + 1]
    BY <1>1, <1>6, <1>12
  <1> HIDE DEF b2, h
  <1>14. ASSUME NEW n \in Added(b, b2)
         PROVE  /\ n \in 1 .. Len(b2) /\ n > Len(b) /\ h[n] \in these
                /\ n - Len(b) \in 1 .. kf /\ kf - (n - Len(b)) + 1 \in 1 .. kf
                /\ b2[n] = Reply(c[h[n]], result)
    <2>1. n \in 1 .. Len(b2) /\ n > Len(b) /\ n - Len(b) \in 1 .. kf
      BY <1>1, <1>6, <1>12 DEF Added
    <2> DEFINE e == n - Len(b)
    <2>2. e \in 1 .. kf /\ b2[n] = rs[e] /\ h[n] = f[kf - e + 1]
      BY <1>12, <1>13, <2>1
    <2> HIDE DEF e
    <2>3. h[n] \in these /\ b2[n] = Reply(c[h[n]], result) /\ kf - e + 1 \in 1 .. kf
      BY <1>9, <2>2
    <2> QED BY <2>1, <2>3 DEF e
  <1>15. ASSUME NEW n \in Added(b, b2), NEW d \in Added(b, b2), h[d] = h[n] PROVE d = n
    <2>1. f[kf - (d - Len(b)) + 1] = f[kf - (n - Len(b)) + 1]
      BY <1>13, <1>14, <1>15
    <2>2. kf - (d - Len(b)) + 1 = kf - (n - Len(b)) + 1
      BY <1>6, <1>14, <2>1
    <2> QED BY <1>1, <1>6, <1>12, <1>14, <2>2
  <1>16. ASSUME NEW x \in these PROVE \E n \in Added(b, b2) : h[n] = x
    <2>1. PICK a \in 1 .. kf : f[a] = x
      BY <1>6
    <2> DEFINE e == kf - a + 1
               n == Len(b) + e
    <2>2. /\ e \in 1 .. kf /\ n \in 1 .. Len(b2) /\ n > Len(b) /\ n - Len(b) = e
          /\ kf - e + 1 = a
      BY <1>1, <1>6, <1>12, <2>1
    <2> HIDE DEF e, n
    <2>3. b2[n] = rs[e] /\ rs[e] = Reply(c[f[kf - e + 1]], result)
      BY <1>9, <1>12, <2>2
    <2>4. b2[n].kind = "answer"
      BY <1>10, <2>1, <2>2, <2>3
    <2>5. h[n] = x
      BY <1>13, <2>1, <2>2
    <2> QED BY <2>2, <2>4, <2>5 DEF Added
  <1>17. \A n \in Added(b, b2) :
           /\ h[n] \in 1 .. Len(c) /\ c[h[n]].op = "connect" /\ c[h[n]].at = "held"
           /\ b2[n].call.op = "connect" /\ b2[n].call.interface = c[h[n]].interface
           /\ b2[n].call.current <=> c[h[n]].current
           /\ b2[n].result = result
    <2> TAKE n \in Added(b, b2)
    <2> DEFINE x == h[n]
               r == Reply(c[x], result)
    <2>1. x \in these /\ b2[n] = r /\ x \in 1 .. Len(c)
      BY <1>2, <1>14
    <2>2. /\ r.call.op = "connect" /\ r.call.interface = c[x].interface
          /\ (r.call.current <=> c[x].current) /\ r.result = result
      BY <1>10, <2>1
    <2> HIDE DEF r
    <2> QED BY <1>3, <2>1, <2>2
  <1>18. Moves(c, b, c2, b2, g, h)
    <2>1. Len(b) <= Len(b2)
      BY <1>1, <1>6, <1>12
    <2>2. \A n \in Added(b, b2), a \in 1 .. Len(c2) : g[a] # h[n]
      BY <1>4, <1>8, <1>14
    <2>3. \A x \in 1 .. Len(c) : \/ \E a \in 1 .. Len(c2) : g[a] = x
                                 \/ \E n \in Added(b, b2) : h[n] = x
      BY <1>4, <1>7, <1>8, <1>16
    <2>4. \A n \in Added(b, b2) : c[h[n]].at # "dropped" /\ b2[n].call.op # "disconnect"
      BY <1>17
    <2>5. \A n \in Added(b, b2) : b2[n].call.op = c[h[n]].op
      BY <1>17
    <2> QED BY <1>7, <1>8, <1>12, <1>15, <1>17, <2>1, <2>2, <2>3, <2>4, <2>5 DEF Moves
  <1>19. QueueKept(c, c2, g, 0)
    <2>1. \A x \in 1 .. Len(c) : c[x].at = "queued" =>
            0 <= x /\ \E a \in 1 .. Len(c2) : g[a] = x /\ c2[a].at = "queued"
      BY <1>1, <1>3, <1>4, <1>7, <1>8
    <2>2. \A a \in 1 .. Len(c2) : g[a] # 0 /\ (c2[a].at = "queued" => c[g[a]].at = "queued")
      BY <1>1, <1>8
    <2> QED BY <2>1, <2>2 DEF QueueKept
  <1>20. \A a \in 1 .. Len(c2) : ~HeldConnect(c2[a]) /\ \E x \in 1 .. Len(c) : c2[a] = c[x]
    BY <1>3, <1>4, <1>8 DEF HeldConnect, Held
  <1> QED BY <1>8, <1>12, <1>17, <1>18, <1>19, <1>20 DEF Answers, c2, b2, rs, h

(* The attempt to connect ends: the deferred connects are answered, and a    *)
(* success is that of the interface that connects.                           *)
LEMMA ConnectsAnswered ==
  ASSUME Inv, NEW result \in {"right", "failed"}, client # NoClient, ~client.is_connected,
         AnswerConnects(result), finds' = finds,
         result = "right" => client' = [client EXCEPT !.is_connected = TRUE],
         result = "failed" => client' = NoClient
  PROVE  Inv'
  <1> DEFINE c == m.calls
             these == {n \in DOMAIN c : HeldConnect(c[n])}
  <1>1. /\ c \in Seq(Calls) /\ inbox \in Seq(Messages) /\ client \in Clients
        /\ result \in Results
    BY DEF Inv, InTurn, Managers, Results
  <1>2. PICK f \in InOrder(these), g \in InOrder(DOMAIN c \ these) :
          /\ inbox' = inbox \o [n \in DOMAIN f |-> Reply(c[Reverse(f)[n]], result)]
          /\ m' = [m EXCEPT !.calls = [n \in DOMAIN g |-> c[g[n]]]]
    BY DEF AnswerConnects
  <1> DEFINE c2 == [n \in DOMAIN g |-> c[g[n]]]
             b2 == inbox \o [n \in DOMAIN f |-> Reply(c[Reverse(f)[n]], result)]
             h == [n \in Nat |-> f[Len(f) - (n - Len(inbox)) + 1]]
             t == [m EXCEPT !.calls = c2]
             cl2 == client'
  <1>2a. Answers(c, inbox, result, f, g)
    BY <1>1, <1>2, ConnectsMove
  <1>3. /\ c2 \in Seq(Calls) /\ b2 \in Seq(Messages)
        /\ Moves(c, inbox, c2, b2, g, h) /\ QueueKept(c, c2, g, 0)
        /\ \A n \in 1 .. Len(inbox) : b2[n] = inbox[n]
        /\ \A n \in Added(inbox, b2) :
             /\ h[n] \in 1 .. Len(c) /\ c[h[n]].op = "connect" /\ c[h[n]].at = "held"
             /\ b2[n].call.op = "connect" /\ b2[n].call.interface = c[h[n]].interface
             /\ b2[n].result = result
        /\ \A a \in 1 .. Len(c2) : ~HeldConnect(c2[a]) /\ \E x \in 1 .. Len(c) : c2[a] = c[x]
    BY <1>2a DEF Answers
  <1>4. m' = t /\ inbox' = b2
    BY <1>2
  <1>5. /\ t.calls = c2 /\ t.state = m.state /\ t.active = m.active /\ t.dev = m.dev
        /\ t.reconnect = m.reconnect
    BY <1>3, OtherCalls
  <1>6. /\ cl2 \in Clients /\ cl2.interface \in {client.interface, None}
        /\ result = "right" => cl2.is_connected /\ cl2.interface = client.interface
    <2>1. /\ client.interface \in Interfaces
          /\ client = [interface |-> client.interface, is_connected |-> FALSE]
      BY <1>1 DEF Clients
    <2>2. CASE result = "right"
      <3>1. cl2 = [interface |-> client.interface, is_connected |-> TRUE]
        BY <2>1, <2>2
      <3> HIDE DEF cl2
      <3> QED BY <2>1, <3>1 DEF Clients
    <2>3. CASE result = "failed"
      <3>1. cl2 = NoClient
        BY <2>3
      <3> HIDE DEF cl2
      <3> QED BY <2>3, <3>1 DEF Clients, NoClient
    <2> QED BY <2>2, <2>3
  <1> HIDE DEF these, c2, b2, h, cl2, c
  <1>7. ASSUME Good(m, inbox, client) PROVE Good(t, b2, cl2)
    <2> HIDE DEF t
    <2>0. /\ Deferred(c, client) /\ Safe(m.dev, c, inbox) /\ Owned(m, client)
          /\ Ordered(m.dev, c) /\ Settled(m)
      BY <1>7 DEF Good, Base, c
    <2>1. Deferred(c2, cl2)
      <3>1. \A x \in 1 .. Len(c) : c[x].at = "held" => c[x].op = "connect"
        BY <2>0 DEF Deferred
      <3>2. \A a \in 1 .. Len(c2) : c2[a].at # "held"
        BY <1>3, <3>1 DEF HeldConnect, Held
      <3> QED BY <3>2 DEF Deferred
    <2>2. Owned(t, cl2)
      <3>1. \A n \in Added(inbox, b2) : b2[n].call.op # "disconnect"
        BY <1>3
      <3> QED BY <1>3, <1>5, <1>6, <2>0, <3>1, MovesOwned DEF c
    <2>3. \A b, i, k : ~Broke(b, client, i, k) /\ client # NoClient /\ ~Linked(client, i)
      BY DEF Broke, Linked
    <2>4. \A i \in Interfaces : m.dev[i] # "CONNECTED"
      BY <1>7, <2>3 DEF Good, Up, UpWeak
    <2>5. Up(t, b2, cl2)
      BY <1>5, <2>4 DEF Up, UpWeak, UpStrong
    <2>6. ASSUME NEW i \in Interfaces, m.dev[i] = "CONNECTING", result = "right",
                 NEW x \in 1 .. Len(c), Sent(c, x, "connect", i), c[x].at = "held"
          PROVE  Linked(cl2, i)
      <3>1. client.interface \in Interfaces /\ client.interface # None
        BY <1>1, NoneIsNoInterface DEF Clients
      <3>2. CASE m.dev[client.interface] \in Going
        BY <1>6, <2>0, <2>6, <3>1, <3>2 DEF Settled, Going, Linked
      <3>3. ASSUME NEW k \in 1 .. Len(c), Sent(c, k, "disconnect", client.interface) PROVE FALSE
        <4>1. c[k].at = "queued" /\ c[k].op = "disconnect"
          BY <2>0, <3>3 DEF Safe, Marked, Sent
        <4>2. PICK n \in 1 .. Len(c) : Sent(c, n, "connect", i) /\ c[n].current /\ c[n].at = "queued"
          BY <2>0, <2>6, <4>1 DEF Ordered, Going
        <4>3. c[x].current
          BY <2>0, <2>6 DEF Safe, Marked
        <4>4. n = x
          BY <2>0, <2>6, <4>2, <4>3 DEF Safe, Single
        <4> QED BY <2>6, <4>2, <4>4
      <3> QED BY <2>0, <3>1, <3>2, <3>3 DEF Owned, c
    <2>7. UpSoon(t, b2, cl2)
      <3> SUFFICES ASSUME NEW i \in Interfaces, m.dev[i] = "CONNECTING", NEW n \in 1 .. Len(b2),
                          Told(b2, n, "connect", i), b2[n].result # "failed"
                   PROVE  Linked(cl2, i)
        BY <1>5 DEF UpSoon
      <3>1. CASE n \in 1 .. Len(inbox)
        BY <1>3, <1>7, <2>3, <3>1 DEF Good, UpSoon, Told
      <3>2. CASE n \notin 1 .. Len(inbox)
        <4>1. Len(inbox) \in Nat /\ Len(b2) \in Nat
          BY <1>1, <1>3, LenProperties
        <4>2. n \in Added(inbox, b2)
          BY <3>2, <4>1 DEF Added, Told
        <4> DEFINE x == h[n]
        <4>3. /\ x \in 1 .. Len(c) /\ c[x].at = "held" /\ Sent(c, x, "connect", i)
              /\ result = "right"
          BY <1>3, <4>2 DEF Told, Sent
        <4> HIDE DEF x
        <4> QED BY <2>6, <4>3
      <3> QED BY <3>1, <3>2
    <2>8. 0 \in Int
      OBVIOUS
    <2> QED BY <1>1, <1>3, <1>5, <1>7, <2>1, <2>2, <2>5, <2>7, <2>8, MovesGood DEF c
  <1>8. client' \in Clients /\ (Good(m, inbox, client) => Good(t, inbox', client'))
    BY <1>4, <1>6, <1>7 DEF cl2
  <1> QED BY <1>3, <1>4, <1>8, RelayStep
-----------------------------------------------------------------------------
(* Every step keeps the invariant. *)
LEMMA Invariance == ASSUME Inv, [Next]_vars PROVE Inv'
  <1>1. CASE HandleMessage
    BY <1>1, HandleMessageStep
  <1>2. CASE CallTimesOut
    BY <1>2, CallTimesOutStep
  <1>3. CASE RetryTimer
    BY <1>3, RetryTimerStep
  <1>4. ASSUME NEW i \in Interfaces, NotifyDiscoveryRemoval(i) PROVE Inv'
    BY <1>4, NotifyDiscoveryRemovalStep
  <1>5. ASSUME NEW i \in Interfaces, NotifyDeviceError(i) PROVE Inv'
    BY <1>5, NotifyDeviceErrorStep
  <1>6. ASSUME NEW address, AddInterface(address) PROVE Inv'
    BY <1>6, AddInterfaceStep, BoundsAssumption
  <1>7. CASE relay_connect
    BY <1>7, relay_connectStep
  <1>8. CASE relay_disconnect
    BY <1>8, relay_disconnectStep
  <1>9. CASE relay_invoke
    BY <1>9, relay_invokeStep
  <1>10. CASE connect_ready
    <2>1. /\ client # NoClient /\ ~client.is_connected /\ AnswerConnects("right")
          /\ client' = [client EXCEPT !.is_connected = TRUE] /\ finds' = finds
      BY <1>10 DEF connect_ready, world
    <2> QED BY <2>1, ConnectsAnswered
  <1>11. CASE connect_failed
    <2>1. /\ client # NoClient /\ ~client.is_connected /\ AnswerConnects("failed")
          /\ client' = NoClient /\ finds' = finds
      BY <1>11 DEF connect_failed, world
    <2> QED BY <2>1, ConnectsAnswered
  <1>12. CASE out_client_state_cb
    BY <1>12, out_client_state_cbStep
  <1>13. ASSUME NEW n, handle_response(n) PROVE Inv'
    BY <1>13, handle_responseStep
  <1>14. CASE UNCHANGED vars
    BY <1>14 DEF vars, relay, world, Inv
  <1> QED BY <1>1, <1>2, <1>3, <1>4, <1>5, <1>6, <1>7, <1>8, <1>9, <1>10, <1>11, <1>12, <1>13,
             <1>14 DEF Next, Manager, Events, Relay, Network

(* At the start nothing is under way. *)
LEMMA Initially == Init => Inv
  <1> SUFFICES ASSUME Init PROVE Inv
    OBVIOUS
  <1>1. /\ m.state = "INIT" /\ m.interfaces = << >> /\ m.active = None /\ m.timers = 0
        /\ m.told = "dead" /\ m.calls = << >> /\ m.strayed = FALSE
        /\ m.dev = [i \in Interfaces |-> "DISCONNECTED"]
        /\ m.reconnect = [i \in Interfaces |-> FALSE]
        /\ client = NoClient /\ inbox = << >> /\ finds = 0
    BY DEF Init
  <1>2. m \in Managers
    BY DEF Init, Managers, States, DeviceStates
  <1>3. Len(<< >>) = 0 /\ << >> \in Seq(Messages)
    OBVIOUS
  <1>4. InTurn(m) /\ Timed(m) /\ Owed(m) = 0
    BY <1>1, <1>2 DEF InTurn, Distinct, Timed, Owed
  <1>5. \A i \in Interfaces : m.dev[i] = "DISCONNECTED" /\ m.reconnect[i] = FALSE
    BY <1>1
  <1>6. Safe(m.dev, m.calls, inbox)
    <2>1. Marked(m.calls, inbox) /\ Single(m.calls, inbox) /\ Behind(m.calls, inbox)
      BY <1>1, <1>3 DEF Marked, Single, Behind
    <2>2. ByState(m.dev, m.calls, inbox)
      BY <1>1, <1>3, <1>5 DEF ByState, UnderWay, AllDropped, NoneTold
    <2> QED BY <2>1, <2>2 DEF Safe
  <1>7. Good(m, inbox, client)
    <2>1. DisWaits(m, inbox) /\ Owned(m, client) /\ Deferred(m.calls, client)
      BY <1>1, <1>3, <1>5 DEF DisWaits, Owned, Deferred, NoClient
    <2>2. /\ \A i \in Interfaces : m.dev[i] \notin Going
          /\ \A i \in Interfaces : m.reconnect[i] => m.dev[i] = "DISCONNECTING"
          /\ m.state \in {"INIT", "DEAD"}
      BY <1>1, <1>5 DEF Going
    <2> QED BY <1>2, <1>6, <2>1, <2>2, IdleGood
  <1>8. client \in Clients /\ finds \in Nat /\ finds <= MaxFinds
    BY <1>1, BoundsAssumption DEF Clients
  <1> QED BY <1>1, <1>3, <1>4, <1>7, <1>8 DEF Inv

(* The calls of a Good state that are under way are so for the run's         *)
(* property too.                                                             *)
LEMMA UnderWayInProgress ==
  ASSUME Inv, NEW op, NEW i, UnderWay(m.calls, inbox, op, i)
  PROVE  InProgress(op, i)
  <1>1. DOMAIN m.calls = 1 .. Len(m.calls) /\ DOMAIN inbox = 1 .. Len(inbox)
    BY LenProperties DEF Inv, InTurn, Managers
  <1> QED BY <1>1 DEF UnderWay, InProgress, Sent, Told

(* The fields of the manager, urelay's client and the calls under way have   *)
(* their types; no interface is listed twice; and there are never more retry *)
(* timers than announcements, although each dead interface starts one.       *)
THEOREM TypeCorrect == Spec => []TypeOK
  <1>1. Inv => TypeOK
    <2> SUFFICES ASSUME Inv PROVE TypeOK
      OBVIOUS
    <2>1. InTurn(m) /\ m \in Managers /\ client \in Clients
      BY DEF Inv, InTurn
    <2>2. DOMAIN m.interfaces = 1 .. Len(m.interfaces)
      BY <2>1, LenProperties DEF Managers
    <2>3. m.timers \in 0 .. MaxFinds + 1
      BY <2>1, BoundsAssumption DEF Inv, Owed, Managers
    <2>4. client.interface \in Interfaces \cup {None}
      BY <2>1 DEF Clients, NoClient
    <2> QED BY <2>1, <2>2, <2>3, <2>4 DEF TypeOK, InTurn, Distinct, Managers, Calls
  <1> QED BY <1>1, Initially, Invariance, PTL DEF Spec

(* The owner of a device hears on_ready and on_dead in turn, and the active  *)
(* interface is the first of the list, in whatever state a late callback     *)
(* finds the manager.                                                        *)
THEOREM OwnerHearsInTurnAlways == Spec => []OwnerHearsInTurn
  <1>1. Inv => OwnerHearsInTurn
    BY DEF Inv, InTurn, OwnerHearsInTurn
  <1> QED BY <1>1, Initially, Invariance, PTL DEF Spec

(* As long as there was no stray, the manager never waits for something that *)
(* will not come: the get_state, the connect or the disconnect it waits for  *)
(* is under way, and a dead device has a retry timer.                        *)
THEOREM NeverStuckAlways == Spec => []NeverStuck
  <1>1. Inv => NeverStuck
    <2> SUFFICES ASSUME Inv, ~m.strayed PROVE NeverStuck
      BY DEF NeverStuck
    <2>1. InTurn(m) /\ m \in Managers /\ Timed(m) /\ Good(m, inbox, client)
      BY DEF Inv, InTurn
    <2>2. ConfirmIsUnderWay
      BY <2>1, UnderWayInProgress DEF Good, Confirming, ConfirmIsUnderWay
    <2>3. ASSUME m.state = "CONNECTING"
          PROVE  \/ m.dev[m.active] = "CONNECTING" /\ InProgress("connect", m.active)
                 \/ /\ m.dev[m.active] = "DISCONNECTING" /\ m.reconnect[m.active]
                    /\ InProgress("disconnect", m.active)
      <3>1. m.active \in Interfaces
        BY <2>1, <2>3 DEF InTurn, Managers
      <3>2. CASE m.dev[m.active] = "CONNECTING"
        BY <2>1, <3>1, <3>2, UnderWayInProgress DEF Good, ConWaits
      <3>3. CASE m.dev[m.active] = "DISCONNECTING" /\ m.reconnect[m.active]
        BY <2>1, <3>1, <3>3, UnderWayInProgress DEF Good, Base, DisWaits
      <3> QED BY <2>1, <2>3, <3>2, <3>3 DEF Good, Base, Settled
    <2> QED BY <2>1, <2>2, <2>3 DEF NeverStuck, Timed
  <1> QED BY <1>1, Initially, Invariance, PTL DEF Spec

(* As long as there was no stray, a device that the owner takes for ready is *)
(* connected by the interface that the owner was given, or the manager has   *)
(* yet to read that the connection broke.                                    *)
THEOREM ReadyIsConnectedAlways == Spec => []ReadyIsConnected
  <1>1. Inv => ReadyIsConnected
    <2> SUFFICES ASSUME Inv, m.told = "ready", ~m.strayed
                 PROVE  \/ client.is_connected /\ client.interface = m.active
                        \/ \E n \in DOMAIN inbox : inbox[n] = Error(m.active)
      BY DEF ReadyIsConnected
    <2>1. InTurn(m) /\ m \in Managers /\ Good(m, inbox, client)
      BY DEF Inv, InTurn
    <2>2. m.state \in {"READY", "CONFIRMING_TRANSIENT"} /\ m.active \in Interfaces
      BY <2>1 DEF InTurn, Managers
    <2>3. m.dev[m.active] = "CONNECTED" /\ UpStrong(m, inbox, client)
      BY <2>1, <2>2 DEF Good, Base, Settled, Up
    <2>4. DOMAIN inbox = 1 .. Len(inbox)
      BY LenProperties DEF Inv
    <2> QED BY <2>2, <2>3, <2>4 DEF UpStrong, Linked, Broke
  <1> QED BY <1>1, Initially, Invariance, PTL DEF Spec
=============================================================================
