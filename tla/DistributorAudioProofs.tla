------------------------ MODULE DistributorAudioProofs ------------------------
(* That the audio stays in place and that none of it is lost, for any         *)
(* players, apps, capacities and bounds.  Whatever joins, leaves, flushes,    *)
(* acquires and rebuffers interleave, a player gets a track's audio in order, *)
(* of the session it began the track in, unless a rebuffer has dropped it or  *)
(* a request for a rebuffer has overtaken the events that say what is to be   *)
(* sent again.  And the history that buffer_thread keeps has what some player *)
(* has yet to play, as long as neither has happened and no player has left.   *)
EXTENDS DistributorProofs

\* The app that owns the stream is the only one with its token, and what it
\* asks for is what its track allows.
TokensOK ==
    /\ \A a \in Apps : app[a].token <= str.owner /\ app[a].next # 0
    /\ \A a, b \in Apps :
         app[a].token = str.owner /\ app[b].token = str.owner => a = b \/ str.owner = 0
    /\ str.pc \in {"loop", "wait", "rebuffer"} => str.owner # 0
    /\ str.pc = "wait" => app[str.cmd].token = str.owner
    /\ \A a \in Apps : /\ app[a].req = "track_begin" => app[a].at = "begin"
                       /\ app[a].req = "buffer" => app[a].at \in {"track", "sent"}
                       /\ app[a].req = "track_end" => app[a].at = "sent"

\* stream_thread waits in its rebuffer while do_rebuffer is asked for, runs or
\* is done, one at a time.
HandshakeOK ==
    /\ ch.rebufferRequest => str.pc = "rebuffer" /\ buf.pc = "loop" /\ ~ch.rebufferDone
    /\ ch.rebufferDone => str.pc = "rebuffer" /\ buf.pc = "loop" /\ ~ch.rebufferRequest
    /\ buf.pc # "loop" => /\ str.pc = "rebuffer" /\ ~ch.rebufferDone /\ ~ch.rebufferRequest
                          /\ buf.players \subseteq str.players

\* A player is told to stop once, by the thread that waits for it.
CallsOK == calls \in [Players -> Seq({"state", "late", "stop", "pause", "resume"})]
StopsOK ==
    /\ \A p \in Players : \A i \in DOMAIN calls[p] : calls[p][i] = "stop" => stops[p] = "called"
    /\ \A p \in Players : \A i, j \in DOMAIN calls[p] :
         calls[p][i] = "stop" /\ calls[p][j] = "stop" => i = j
    /\ \A p \in Players : stops[p] = "error" => ~Healthy(p)
    /\ str.pc # "stopping" /\ buf.pc # "stopping" => \A p \in Players : stops[p] = "none"

-----------------------------------------------------------------------------
\* What the events say of the owner's audio: whether a track began, whether it
\* ended, and its last chunk, 0 when there is none since it began or a flush.
Marks == [track : BOOLEAN, end : BOOLEAN, last : Nat]

After(m, e) ==
    CASE e.event = "ACQUIRE_STARTED" -> [track |-> FALSE, end |-> FALSE, last |-> 0]
      [] e.event = "TRACK_BEGIN"     -> [track |-> TRUE, end |-> FALSE, last |-> 0]
      [] e.event = "BUFFER"          -> [m EXCEPT !.last = e.n]
      [] e.event = "FLUSH"           -> [m EXCEPT !.last = 0]
      [] e.event = "TRACK_END"       -> [m EXCEPT !.end = TRUE]
      [] OTHER                       -> m

\* A chunk comes in a track, after the one before it.
MayFollow(m, e) == e.event = "BUFFER" => m.track /\ e.n # 0 /\ (m.last = 0 \/ e.n = m.last + 1)

\* The two agree but for an end of the track in between.
Like(m, n) == m.track = n.track /\ m.last = n.last /\ (m.end => n.end)

Plain(q, i) == \A j \in (i + 1) .. Len(q) : ~OfHistory(q[j])

\* The events of q lead from mark m to mark n, by way of the marks h.
Leads(h, q, m, n) ==
    /\ h \in [0 .. Len(q) -> Marks] /\ h[0] = m /\ h[Len(q)] = n
    /\ \A i \in 0 .. (Len(q) - 1) : MayFollow(h[i], q[i + 1]) /\ h[i + 1] = After(h[i], q[i + 1])
    /\ \A i \in 0 .. Len(q) : Plain(q, i) => Like(h[i], n)
Path(q, m, n) == \E h : Leads(h, q, m, n)

\* The history is in order and agrees with the mark, as far as it is kept.
InOrder(q) == \A i \in DOMAIN q : \A j \in DOMAIN q : j = i + 1 => q[j] = q[i] + 1
Remembers(b, m) ==
    /\ b.track = m.track /\ b.trackEnd = m.end /\ InOrder(b.buffers)
    /\ b.buffers # << >> => m.track /\ m.last # 0 /\ m.last = b.buffers[Len(b.buffers)]

\* The event that buffer_thread has at hand.
AtHand(m, n) == IF ch.bufEvent = None THEN n = m
                                      ELSE MayFollow(m, ch.bufEvent) /\ n = After(m, ch.bufEvent)

\* What stream_thread and the owner of the stream expect of the last mark.
InTrack(a) == app[a].token = str.owner /\ app[a].at \in {"track", "sent"}
Expects(m) ==
    /\ str.pc = "stopping" => ~m.track
    /\ str.pc \in {"loop", "wait", "rebuffer"} =>
         /\ str.beginNow => ~m.track
         /\ \A a \in Apps : InTrack(a) =>
              /\ m.track /\ ~m.end /\ (m.last = 0 \/ m.last + 1 = app[a].next)
              /\ ~str.beginNow /\ ~str.afterTrackEnd
    /\ str.pc = "wait" =>
         /\ ~str.beginNow /\ ~str.afterTrackEnd
         /\ app[str.cmd].req = "track_begin" => m.track /\ ~m.end /\ m.last = 0

\* The history, with the events that are on their way, is what was sent.
Reaches(q, y) == \E w, x \in Marks : Remembers(buf, w) /\ AtHand(w, x) /\ Path(q, x, y)
HistoryFollows == \E y \in Marks : Reaches(ch.events, y) /\ Expects(y)

\* What do_rebuffer sends is what was sent.
RefillFollows ==
    buf.pc # "loop" /\ ~buf.overtook => \E w \in Marks : Remembers(buf, w) /\ Expects(w)

-----------------------------------------------------------------------------
\* A player whose connection is up and that no rebuffer has dropped.
Fine(p) == Healthy(p) /\ p \notin buf.dropped

\* Its device is where the owner's next command expects it.
InStep(p) ==
    /\ dev[p].st # "stopped"
    /\ str.beginNow => dev[p].st = "started"
    /\ \A a \in Apps : InTrack(a) =>
         /\ dev[p].st = "streaming" /\ dev[p].token = str.owner
         /\ dev[p].last = 0 \/ dev[p].last + 1 = app[a].next

\* Its device is where do_rebuffer's next command expects it.
Refilled(p) ==
    /\ p \in buf.players
    /\ buf.pc = "stopping" /\ stops[p] = "none" => dev[p].st = "started"
    /\ buf.pc \in {"match", "begin"} => dev[p].st = "started"
    /\ buf.pc = "buffer" =>
         /\ dev[p].st = "streaming" /\ dev[p].token = str.owner
         /\ dev[p].last = IF buf.next = 1 THEN 0 ELSE buf.buffers[buf.next - 1]

BeginsKnown == \A p \in Players : view[p].canBegin /\ ~dev[p].bad => CanBegin(dev[p])
StartsKnown ==
    str.pc = "stopping" =>
      \A p \in str.players : Healthy(p) /\ stops[p] = "none" => dev[p].st = "started"
StreamKnown ==
    ~buf.overtook /\ (str.pc \in {"loop", "wait"} \/ ch.rebufferDone) =>
      \A p \in str.players : Fine(p) => InStep(p)
RefillKnown ==
    /\ ~buf.overtook /\ buf.pc # "loop" => \A p \in str.players : Fine(p) => Refilled(p)
    /\ buf.pc \in {"begin", "buffer"} => buf.track
    /\ buf.pc = "buffer" => buf.next <= Len(buf.buffers) + 1
InPlace == buf.overtook \/ AudioIsInPlace

AudioOK == BeginsKnown /\ StartsKnown /\ StreamKnown /\ RefillKnown /\ InPlace

AudioInv == /\ IndInv /\ TokensOK /\ HandshakeOK /\ CallsOK /\ StopsOK
            /\ HistoryFollows /\ RefillFollows /\ AudioOK
-----------------------------------------------------------------------------
(* The mark after an event, and events that leave it alone. *)
LEMMA AfterEvent ==
  ASSUME NEW m \in Marks, NEW e \in Events
  PROVE  /\ After(m, e) \in Marks
         /\ ~OfHistory(e) => Like(m, After(m, e))
         /\ e.event = "ACQUIRE_STARTED" => After(m, e) = [track |-> FALSE, end |-> FALSE, last |-> 0]
         /\ e.event = "TRACK_BEGIN" => After(m, e) = [track |-> TRUE, end |-> FALSE, last |-> 0]
         /\ e.event = "BUFFER" => After(m, e) = [m EXCEPT !.last = e.n]
         /\ e.event = "FLUSH" => After(m, e) = [m EXCEPT !.last = 0]
         /\ e.event = "TRACK_END" => After(m, e) = [m EXCEPT !.end = TRUE]
         /\ e.event \in {"WAITING", "ACQUIRE_DONE", "REBUFFER"} => After(m, e) = m
  <1>1. e.n \in Nat /\ e.event \in EventNames
    BY ConstantsAssumption DEF Events, EventNames
  <1>2. CASE e.event = "ACQUIRE_STARTED"
    BY <1>2 DEF After, Marks, OfHistory
  <1>3. CASE e.event = "TRACK_BEGIN"
    BY <1>3 DEF After, Marks, OfHistory
  <1>4. CASE e.event = "BUFFER"
    BY <1>1, <1>4 DEF After, Marks, OfHistory
  <1>5. CASE e.event = "FLUSH"
    BY <1>5 DEF After, Marks, OfHistory
  <1>6. CASE e.event = "TRACK_END"
    BY <1>6 DEF After, Marks, OfHistory, Like
  <1>7. CASE e.event \in {"WAITING", "ACQUIRE_DONE", "REBUFFER"}
    BY <1>7 DEF After, OfHistory, Like
  <1> QED BY <1>1, <1>2, <1>3, <1>4, <1>5, <1>6, <1>7 DEF EventNames

(* No event leads from a mark to itself. *)
LEMMA PathStays ==
  ASSUME NEW m \in Marks
  PROVE  Path(<< >>, m, m)
  <1> DEFINE h == [i \in 0 .. 0 |-> m]
  <1>1. Len(<< >>) = 0
    OBVIOUS
  <1>2. h \in [0 .. 0 -> Marks] /\ h[0] = m
    OBVIOUS
  <1> HIDE DEF h
  <1>3. Leads(h, << >>, m, m)
    BY <1>1, <1>2 DEF Leads, Like
  <1> QED BY <1>3 DEF Path

(* One more event leads one mark further. *)
LEMMA PathGrows ==
  ASSUME NEW q \in Seq(Events), NEW m, NEW n, Path(q, m, n), NEW e \in Events, MayFollow(n, e)
  PROVE  Path(Append(q, e), m, After(n, e)) /\ n \in Marks /\ After(n, e) \in Marks
  <1>1. PICK h : Leads(h, q, m, n)
    BY DEF Path
  <1> DEFINE k == Len(q)
             r == Append(q, e)
             n2 == After(n, e)
             g == [i \in 0 .. (k + 1) |-> IF i <= k THEN h[i] ELSE n2]
  <1>2. /\ k \in Nat /\ Len(r) = k + 1 /\ r[k + 1] = e
        /\ \A i \in 1 .. k : r[i] = q[i]
    BY AppendProperties, LenProperties
  <1>3. /\ h \in [0 .. k -> Marks] /\ h[0] = m /\ h[k] = n
        /\ \A i \in 0 .. (k - 1) : MayFollow(h[i], q[i + 1]) /\ h[i + 1] = After(h[i], q[i + 1])
        /\ \A i \in 0 .. k : Plain(q, i) => Like(h[i], n)
    BY <1>1 DEF Leads
  <1>4. n \in Marks /\ n2 \in Marks /\ (~OfHistory(e) => Like(n, n2))
    <2>1. n \in Marks
      BY <1>2, <1>3
    <2> QED BY <2>1, AfterEvent
  <1> HIDE DEF k, r, n2
  <1>5. /\ g \in [0 .. (k + 1) -> Marks] /\ g[0] = m /\ g[k + 1] = n2
        /\ \A i \in 0 .. k : g[i] = h[i]
    BY <1>2, <1>3, <1>4
  <1> HIDE DEF g
  <1>6. ASSUME NEW i \in 0 .. k
        PROVE  MayFollow(g[i], r[i + 1]) /\ g[i + 1] = After(g[i], r[i + 1])
    <2>1. CASE i = k
      BY <1>2, <1>3, <1>5, <2>1 DEF n2
    <2>2. CASE i # k
      <3>1. i \in 0 .. (k - 1) /\ i + 1 \in 1 .. k /\ i + 1 \in 0 .. k
        BY <1>2, <2>2
      <3> QED BY <1>2, <1>3, <1>5, <3>1
    <2> QED BY <2>1, <2>2
  <1>7. ASSUME NEW i \in 0 .. (k + 1), Plain(r, i)
        PROVE  Like(g[i], n2)
    <2>1. CASE i = k + 1
      BY <1>5, <2>1 DEF Like
    <2>2. CASE i # k + 1
      <3>1. i \in 0 .. k /\ k + 1 \in (i + 1) .. (k + 1)
        BY <1>2, <2>2
      <3>2. ~OfHistory(e)
        BY <1>2, <1>7, <3>1 DEF Plain
      <3>3. Plain(q, i)
        BY <1>2, <1>7, <3>1 DEF Plain, k
      <3>4. Like(h[i], n) /\ Like(n, n2)
        BY <1>3, <1>4, <3>1, <3>2, <3>3
      <3> QED BY <1>5, <3>1, <3>4 DEF Like
    <2> QED BY <2>1, <2>2
  <1>8. Leads(g, r, m, n2)
    BY <1>2, <1>5, <1>6, <1>7 DEF Leads
  <1> QED BY <1>4, <1>8 DEF Path, r, n2

(* The first event is taken. *)
LEMMA PathTaken ==
  ASSUME NEW q \in Seq(Events), q # << >>, NEW m, NEW n, Path(q, m, n)
  PROVE  /\ m \in Marks /\ MayFollow(m, Head(q)) /\ After(m, Head(q)) \in Marks
         /\ Path(Tail(q), After(m, Head(q)), n)
  <1>1. PICK h : Leads(h, q, m, n)
    BY DEF Path
  <1> DEFINE k == Len(q) - 1
             r == Tail(q)
             e == Head(q)
             g == [i \in 0 .. k |-> h[i + 1]]
  <1>2. /\ k \in Nat /\ Len(q) = k + 1 /\ Len(r) = k /\ q[1] = e /\ e \in Events
        /\ \A i \in 1 .. k : r[i] = q[i + 1]
    BY HeadTailProperties, LenProperties, EmptySeq
  <1>3. /\ h \in [0 .. (k + 1) -> Marks] /\ h[0] = m /\ h[k + 1] = n
        /\ \A i \in 0 .. k : MayFollow(h[i], q[i + 1]) /\ h[i + 1] = After(h[i], q[i + 1])
        /\ \A i \in 0 .. (k + 1) : Plain(q, i) => Like(h[i], n)
    BY <1>1, <1>2 DEF Leads
  <1> HIDE DEF k, r, e
  <1>4. m \in Marks /\ MayFollow(m, e) /\ h[1] = After(m, e) /\ h[1] \in Marks
    <2>1. 0 \in 0 .. k /\ 0 \in 0 .. (k + 1) /\ 1 \in 0 .. (k + 1)
      BY <1>2
    <2> QED BY <1>2, <1>3, <2>1
  <1>5. g \in [0 .. k -> Marks] /\ \A i \in 0 .. k : g[i] = h[i + 1]
    BY <1>2, <1>3
  <1> HIDE DEF g
  <1>6. g[0] = h[1] /\ g[k] = n
    BY <1>2, <1>3, <1>5
  <1>7. ASSUME NEW i \in 0 .. (k - 1)
        PROVE  MayFollow(g[i], r[i + 1]) /\ g[i + 1] = After(g[i], r[i + 1])
    <2>1. i \in 0 .. k /\ i + 1 \in 0 .. k /\ i + 1 \in 1 .. k
      BY <1>2
    <2> QED BY <1>2, <1>3, <1>5, <2>1
  <1>8. ASSUME NEW i \in 0 .. k, Plain(r, i)
        PROVE  Like(g[i], n)
    <2>1. i + 1 \in 0 .. (k + 1)
      BY <1>2
    <2>2. Plain(q, i + 1)
      <3> SUFFICES ASSUME NEW j \in ((i + 1) + 1) .. (k + 1) PROVE ~OfHistory(q[j])
        BY <1>2 DEF Plain
      <3>1. j - 1 \in (i + 1) .. k /\ j - 1 \in 1 .. k /\ (j - 1) + 1 = j
        BY <1>2
      <3> QED BY <1>2, <1>8, <3>1 DEF Plain
    <2> QED BY <1>3, <1>5, <2>1, <2>2
  <1>9. Leads(g, r, h[1], n)
    BY <1>2, <1>5, <1>6, <1>7, <1>8 DEF Leads
  <1> QED BY <1>4, <1>9 DEF Path, r, e

(* Events that are not of the history lead to a mark like the first. *)
LEMMA PathPlain ==
  ASSUME NEW q \in Seq(Events), NEW m, NEW n, Path(q, m, n),
         \A i \in DOMAIN q : ~OfHistory(q[i])
  PROVE  Like(m, n)
  <1>1. PICK h : Leads(h, q, m, n)
    BY DEF Path
  <1>2. Len(q) \in Nat /\ DOMAIN q = 1 .. Len(q)
    BY LenProperties
  <1>3. Plain(q, 0) /\ 0 \in 0 .. Len(q)
    BY <1>2 DEF Plain
  <1> QED BY <1>1, <1>3 DEF Leads
-----------------------------------------------------------------------------
(* What each layer of the invariant needs of a step that does not concern it. *)

\* No app has come to be in a track, or has sent more of it.
NoNewTrack == \A a \in Apps : InTrack(a)' => InTrack(a) /\ app'[a].next = app[a].next

\* The apps' sessions keep their tokens and ask for what their track allows.
AppsKept ==
    \A a \in Apps : /\ app'[a].token = app[a].token /\ app'[a].next # 0
                    /\ app'[a].req = "track_begin" => app'[a].at = "begin"
                    /\ app'[a].req = "buffer" => app'[a].at \in {"track", "sent"}
                    /\ app'[a].req = "track_end" => app'[a].at = "sent"

SameStream ==
    /\ str'.pc = str.pc /\ str'.players = str.players /\ str'.owner = str.owner
    /\ str'.beginNow = str.beginNow /\ str'.afterTrackEnd = str.afterTrackEnd
    /\ str'.cmd = str.cmd
SameHistory ==
    /\ buf'.track = buf.track /\ buf'.trackEnd = buf.trackEnd /\ buf'.buffers = buf.buffers
    /\ ch'.bufEvent = ch.bufEvent
SameSignals == ch'.rebufferRequest = ch.rebufferRequest /\ ch'.rebufferDone = ch.rebufferDone

(* Tokens. *)
LEMMA TokensKept ==
  ASSUME TokensOK, AppsKept, str'.owner = str.owner,
         str'.pc \in {"loop", "wait", "rebuffer"} => str.pc \in {"loop", "wait", "rebuffer"},
         str'.pc = "wait" => app'[str'.cmd].token = str'.owner
  PROVE  TokensOK'
  BY DEF TokensOK, AppsKept

(* An app that nobody answers. *)
LEMMA AppsSame ==
  ASSUME TokensOK, app' = app
  PROVE  AppsKept /\ (str'.owner = str.owner => NoNewTrack)
  BY DEF TokensOK, AppsKept, NoNewTrack, InTrack

(* The handshake. *)
LEMMA HandshakeKept ==
  ASSUME HandshakeOK, SameSignals, str'.pc = str.pc, buf'.pc = buf.pc,
         buf.pc # "loop" => str'.players = str.players /\ buf'.players \subseteq buf.players
  PROVE  HandshakeOK'
  BY DEF HandshakeOK, SameSignals

(* Stops. *)
LEMMA StopsKept ==
  ASSUME CallsOK, StopsOK, UNCHANGED <<calls, stops>>, lost \subseteq lost', failed \subseteq failed',
         (str'.pc # "stopping" /\ buf'.pc # "stopping") => (str.pc # "stopping" /\ buf.pc # "stopping")
  PROVE  CallsOK' /\ StopsOK'
  BY DEF CallsOK, StopsOK, Healthy

(* The history when no event is put or taken. *)
LEMMA HistoryKept ==
  ASSUME HistoryFollows, SameHistory, ch'.events = ch.events,
         \A m \in Marks : Expects(m) => Expects(m)'
  PROVE  HistoryFollows'
  <1>1. PICK y \in Marks : Reaches(ch.events, y) /\ Expects(y)
    BY DEF HistoryFollows
  <1>2. PICK w \in Marks, x \in Marks : Remembers(buf, w) /\ AtHand(w, x) /\ Path(ch.events, x, y)
    BY <1>1 DEF Reaches
  <1>3. Remembers(buf, w)' /\ AtHand(w, x)'
    BY <1>2 DEF SameHistory, Remembers, AtHand
  <1>4. Path(ch.events, x, y)'
    BY <1>2
  <1>5. Expects(y)'
    BY <1>1
  <1> QED BY <1>3, <1>4, <1>5 DEF HistoryFollows, Reaches

(* The history when an event is put. *)
LEMMA HistoryGrown ==
  ASSUME HistoryFollows, SameHistory, ch.events \in Seq(Events), NEW e \in Events,
         ch'.events = Append(ch.events, e),
         \A m \in Marks : Expects(m) => MayFollow(m, e) /\ Expects(After(m, e))'
  PROVE  HistoryFollows'
  <1>1. PICK y \in Marks : Reaches(ch.events, y) /\ Expects(y)
    BY DEF HistoryFollows
  <1>2. PICK w \in Marks, x \in Marks : Remembers(buf, w) /\ AtHand(w, x) /\ Path(ch.events, x, y)
    BY <1>1 DEF Reaches
  <1>3. Remembers(buf, w)' /\ AtHand(w, x)'
    BY <1>2 DEF SameHistory, Remembers, AtHand
  <1>4. MayFollow(y, e) /\ Expects(After(y, e))'
    BY <1>1
  <1>5. PICK z \in Marks : z = After(y, e)
    BY AfterEvent
  <1>6. Path(ch.events, x, z)'
    BY <1>2, <1>4, <1>5, PathGrows
  <1>7. Expects(z)'
    BY <1>4, <1>5
  <1> QED BY <1>3, <1>6, <1>7 DEF HistoryFollows, Reaches

(* What is expected when the apps and stream_thread stay as they are. *)
LEMMA ExpectsKept ==
  ASSUME SameStream, NoNewTrack, NEW m, Expects(m),
         str.pc = "wait" => app'[str.cmd].req = app[str.cmd].req
  PROVE  Expects(m)'
  BY DEF Expects, SameStream, NoNewTrack

(* What do_rebuffer has to send. *)
LEMMA RefillKept ==
  ASSUME RefillFollows, SameStream, NoNewTrack,
         str.pc = "wait" => app'[str.cmd].req = app[str.cmd].req,
         buf'.track = buf.track, buf'.trackEnd = buf.trackEnd, buf'.buffers = buf.buffers,
         buf'.pc # "loop" /\ ~buf'.overtook => buf.pc # "loop" /\ ~buf.overtook
  PROVE  RefillFollows'
  <1> SUFFICES ASSUME (buf.pc # "loop" /\ ~buf.overtook)'
               PROVE  (\E w \in Marks : Remembers(buf, w) /\ Expects(w))'
    BY DEF RefillFollows
  <1>1. PICK w \in Marks : Remembers(buf, w) /\ Expects(w)
    BY DEF RefillFollows
  <1>2. Remembers(buf, w)'
    BY <1>1 DEF Remembers
  <1>3. Expects(w)'
    BY <1>1, ExpectsKept
  <1> QED BY <1>2, <1>3

\* A device is as it was, but for how much it has to play and whether it does.
SameSound(p) == /\ dev'[p].st = dev[p].st /\ dev'[p].token = dev[p].token
                /\ dev'[p].last = dev[p].last /\ dev'[p].bad = dev[p].bad

(* The devices when they get no command and no table of players grows. *)
LEMMA AudioKept ==
  ASSUME IndInv, AudioOK, BeginsKnown', \A p \in Players : SameSound(p),
         \A p \in Players : stops'[p] = "none" => stops[p] = "none",
         lost \subseteq lost', failed \subseteq failed',
         buf'.pc = buf.pc, buf'.overtook = buf.overtook, buf'.dropped = buf.dropped,
         buf.pc = "loop" \/ buf' = buf, ch'.rebufferDone = ch.rebufferDone,
         str'.pc = str.pc, str'.owner = str.owner, str'.beginNow = str.beginNow,
         str'.players \subseteq str.players, NoNewTrack
  PROVE  AudioOK'
  <1>0. str.players \subseteq Players
    BY DEF IndInv, ThreadsOK, Streams, Tables
  <1>1. \A p : Healthy(p)' => Healthy(p)
    BY DEF Healthy
  <1>2. \A p : Fine(p)' => Fine(p)
    BY <1>1 DEF Fine
  <1>4. StartsKnown'
    BY <1>0, <1>1 DEF AudioOK, StartsKnown, SameSound
  <1>5. \A p \in str.players : InStep(p) => InStep(p)'
    BY <1>0 DEF InStep, NoNewTrack, SameSound
  <1>6. StreamKnown'
    BY <1>2, <1>5 DEF AudioOK, StreamKnown
  <1>7. RefillKnown'
    <2>1. CASE buf.pc = "loop"
      BY <2>1 DEF RefillKnown
    <2>2. CASE buf' = buf
      <3>1. \A p \in str.players : Refilled(p) => Refilled(p)'
        BY <1>0, <2>2 DEF Refilled, SameSound
      <3> QED BY <1>2, <2>2, <3>1 DEF AudioOK, RefillKnown
    <2> QED BY <2>1, <2>2
  <1>8. InPlace'
    BY DEF AudioOK, InPlace, AudioIsInPlace, SameSound
  <1> QED BY <1>4, <1>6, <1>7, <1>8 DEF AudioOK

(* Devices and reports that do not change. *)
LEMMA SoundSame ==
  ASSUME AudioOK, UNCHANGED <<dev, view>>
  PROVE  BeginsKnown' /\ \A p \in Players : SameSound(p)
  BY DEF AudioOK, BeginsKnown, SameSound

(* A step that concerns none of the layers. *)
LEMMA QuietStep ==
  ASSUME AudioInv, IndInv', UNCHANGED <<dev, view, calls, stops>>, lost \subseteq lost',
         failed \subseteq failed', app' = app, str' = str, buf' = buf, SameSignals,
         ch'.events = ch.events, ch'.bufEvent = ch.bufEvent
  PROVE  AudioInv'
  <1>1. AppsKept /\ NoNewTrack /\ SameStream /\ SameHistory
    BY AppsSame DEF AudioInv, SameStream, SameHistory
  <1>2. TokensOK'
    BY <1>1, TokensKept DEF AudioInv, TokensOK
  <1>3. HandshakeOK'
    BY HandshakeKept DEF AudioInv
  <1>4. CallsOK' /\ StopsOK'
    BY StopsKept DEF AudioInv
  <1>5. \A m \in Marks : Expects(m) => Expects(m)'
    BY <1>1, ExpectsKept
  <1>6. HistoryFollows'
    BY <1>1, <1>5, HistoryKept DEF AudioInv
  <1>7. RefillFollows'
    BY <1>1, RefillKept DEF AudioInv
  <1>8. AudioOK'
    BY <1>1, AudioKept, SoundSame DEF AudioInv, SameSignals
  <1> QED BY <1>2, <1>3, <1>4, <1>6, <1>7, <1>8 DEF AudioInv
-----------------------------------------------------------------------------
(* The calls under way. *)
CallNames == {"state", "late", "stop", "pause", "resume"}

\* Whether a stop is under way, and the only one.
OneStop(q, s) ==
    /\ \A i \in DOMAIN q : q[i] = "stop" => s = "called"
    /\ \A i, j \in DOMAIN q : q[i] = "stop" /\ q[j] = "stop" => i = j

(* A call more. *)
LEMMA CallMade ==
  ASSUME NEW q \in Seq(CallNames), NEW s, OneStop(q, s), NEW method \in CallNames \ {"stop"}
  PROVE  Append(q, method) \in Seq(CallNames) /\ OneStop(Append(q, method), s)
  <1> DEFINE r == Append(q, method)
  <1>1. /\ r \in Seq(CallNames) /\ Len(q) \in Nat /\ Len(r) = Len(q) + 1
        /\ DOMAIN q = 1 .. Len(q) /\ DOMAIN r = 1 .. (Len(q) + 1)
        /\ r[Len(q) + 1] = method /\ \A i \in 1 .. Len(q) : r[i] = q[i]
    BY AppendProperties, LenProperties
  <1> HIDE DEF r
  <1>2. \A i \in DOMAIN r : r[i] = "stop" => i \in DOMAIN q /\ q[i] = "stop"
    BY <1>1
  <1> QED BY <1>1, <1>2 DEF OneStop, r

(* The stop: none was under way. *)
LEMMA StopMade ==
  ASSUME NEW q \in Seq(CallNames), OneStop(q, "wanted")
  PROVE  Append(q, "stop") \in Seq(CallNames) /\ OneStop(Append(q, "stop"), "called")
  <1> DEFINE r == Append(q, "stop")
  <1>1. /\ r \in Seq(CallNames) /\ Len(q) \in Nat /\ Len(r) = Len(q) + 1
        /\ DOMAIN q = 1 .. Len(q) /\ DOMAIN r = 1 .. (Len(q) + 1)
        /\ r[Len(q) + 1] = "stop" /\ \A i \in 1 .. Len(q) : r[i] = q[i]
    BY AppendProperties, LenProperties DEF CallNames
  <1> HIDE DEF r
  <1>2. \A i \in DOMAIN r : r[i] = "stop" => i = Len(q) + 1
    BY <1>1 DEF OneStop
  <1> QED BY <1>1, <1>2 DEF OneStop, r

(* The oldest call ends. *)
LEMMA CallEnds ==
  ASSUME NEW q \in Seq(CallNames), q # << >>, NEW s, OneStop(q, s)
  PROVE  /\ Head(q) \in CallNames /\ Tail(q) \in Seq(CallNames)
         /\ Head(q) = "stop" => s = "called" /\ \A t : OneStop(Tail(q), t)
         /\ OneStop(Tail(q), s)
  <1> DEFINE r == Tail(q)
             k == Len(q) - 1
  <1>1. /\ r \in Seq(CallNames) /\ k \in Nat /\ Len(q) = k + 1 /\ Head(q) \in CallNames
        /\ DOMAIN q = 1 .. (k + 1) /\ DOMAIN r = 1 .. k /\ Head(q) = q[1]
        /\ \A i \in 1 .. k : r[i] = q[i + 1]
    BY HeadTailProperties, LenProperties, EmptySeq
  <1> HIDE DEF r, k
  <1>2. OneStop(r, s)
    <2>1. \A i \in DOMAIN r : i \in Nat /\ i + 1 \in DOMAIN q /\ r[i] = q[i + 1]
      BY <1>1
    <2>2. \A i \in DOMAIN r : r[i] = "stop" => s = "called"
      BY <2>1 DEF OneStop
    <2>3. ASSUME NEW i \in DOMAIN r, NEW j \in DOMAIN r, r[i] = "stop", r[j] = "stop"
          PROVE  i = j
      <3>1. i + 1 = j + 1
        BY <2>1, <2>3 DEF OneStop
      <3> QED BY <2>1, <3>1
    <2> QED BY <2>2, <2>3 DEF OneStop
  <1>3. Head(q) = "stop" => s = "called" /\ \A i \in DOMAIN r : r[i] # "stop"
    BY <1>1 DEF OneStop
  <1> QED BY <1>1, <1>2, <1>3 DEF OneStop, r

(* The layer of the stops, player by player. *)
LEMMA StopsByPlayer ==
  /\ CallsOK /\ StopsOK <=>
       /\ calls \in [Players -> Seq(CallNames)]
       /\ \A p \in Players : OneStop(calls[p], stops[p])
       /\ \A p \in Players : stops[p] = "error" => ~Healthy(p)
       /\ str.pc # "stopping" /\ buf.pc # "stopping" => \A p \in Players : stops[p] = "none"
  BY DEF CallsOK, StopsOK, CallNames, OneStop

(* Calls to some players, other than stops. *)
LEMMA CallsMade ==
  ASSUME CallsOK, StopsOK, NEW ps, NEW method \in CallNames \ {"stop"}, calls' = Call(ps, method),
         stops' = stops, UNCHANGED <<lost, failed>>, str'.pc = str.pc, buf'.pc = buf.pc
  PROVE  CallsOK' /\ StopsOK'
  <1>1. \A p \in Players : /\ calls[p] \in Seq(CallNames) /\ OneStop(calls[p], stops[p])
                           /\ calls'[p] = IF p \in ps \ failed THEN Append(calls[p], method)
                                                               ELSE calls[p]
    BY StopsByPlayer DEF Call
  <1>2. \A p \in Players : calls'[p] \in Seq(CallNames) /\ OneStop(calls'[p], stops[p])
    BY <1>1, CallMade
  <1>3. calls' \in [Players -> Seq(CallNames)]
    <2>1. calls' = [p \in Players |-> calls'[p]]
      BY DEF Call
    <2> QED BY <1>2, <2>1
  <1>4. CallsOK'
    BY <1>3 DEF CallsOK, CallNames
  <1>5. StopsOK'
    BY <1>2 DEF StopsOK, OneStop, Healthy
  <1> QED BY <1>4, <1>5
-----------------------------------------------------------------------------
(* What the commands do to a device. *)
LEMMA CommandEffects ==
  ASSUME NEW d \in Devices, NEW c \in Nat, NEW n \in Nat
  PROVE  /\ GetStop(d, c).st = "stopped" /\ GetStop(d, c).bad = d.bad
         /\ GetStart(d).st = "started" /\ GetStart(d).bad = d.bad
         /\ GetFlush(d, c).st = d.st /\ GetFlush(d, c).bad = d.bad
         /\ GetFlush(d, c).token = d.token /\ GetFlush(d, c).last = 0 /\ GetFlush(d, c).fill = 0
         /\ GetBegin(d, c).st = "streaming" /\ GetBegin(d, c).token = c /\ GetBegin(d, c).last = 0
         /\ GetChunk(d, c, n).st = d.st /\ GetChunk(d, c, n).token = d.token
         /\ GetChunk(d, c, n).last = n
         /\ GetEnd(d).st = "ended"
  BY DEF GetStop, GetStart, GetFlush, GetBegin, GetChunk, GetEnd, Devices

(* When a command finds a device out of place. *)
LEMMA CommandFaults ==
  ASSUME NEW d \in Devices, NEW c \in Nat, NEW n \in Nat
  PROVE  /\ GetBegin(d, c).bad => d.bad \/ d.st = "stopped" \/ ~CanBegin(d)
         /\ GetChunk(d, c, n).bad => \/ d.bad \/ d.st # "streaming" \/ d.token # c
                                     \/ d.fill = Capacity \/ (d.last # 0 /\ n # d.last + 1)
         /\ ~GetChunk(d, c, n).bad => ~d.bad /\ d.st = "streaming"
         /\ GetEnd(d).bad => d.bad \/ d.st # "streaming"
         /\ ~GetEnd(d).bad => ~d.bad /\ d.st = "streaming"
  <1> DEFINE b1 == d.bad \/ d.st = "stopped" \/ ~CanBegin(d)
             b2 == \/ d.bad
                   \/ d.st # "streaming" \/ d.token # c \/ d.fill = Capacity
                   \/ d.last # 0 /\ n # d.last + 1
             b3 == d.bad \/ d.st # "streaming"
  <1>1. b1 \in BOOLEAN /\ b2 \in BOOLEAN /\ b3 \in BOOLEAN
    BY Zenon
  <1>2. /\ GetBegin(d, c) = [d EXCEPT !.st = "streaming", !.token = c, !.last = 0, !.bad = b1]
        /\ GetChunk(d, c, n) = [d EXCEPT !.last = n, !.fill = @ + 1,
                                         !.first = IF d.last = 0 THEN n ELSE @, !.bad = b2]
        /\ GetEnd(d) = [d EXCEPT !.st = "ended", !.bad = b3]
    BY DEF GetBegin, GetChunk, GetEnd
  <1>3. (b1 => d.bad \/ d.st = "stopped" \/ ~CanBegin(d)) /\ (b3 <=> d.bad \/ d.st # "streaming")
    OBVIOUS
  <1>4. b2 => \/ d.bad \/ d.st # "streaming" \/ d.token # c
              \/ d.fill = Capacity \/ (d.last # 0 /\ n # d.last + 1)
    OBVIOUS
  <1>5. ~b2 => ~d.bad /\ d.st = "streaming"
    OBVIOUS
  <1> HIDE DEF b1, b2, b3
  <1>6. ASSUME NEW b
        PROVE  /\ [d EXCEPT !.st = "streaming", !.token = c, !.last = 0, !.bad = b].bad = b
               /\ [d EXCEPT !.last = n, !.fill = @ + 1,
                            !.first = IF d.last = 0 THEN n ELSE @, !.bad = b].bad = b
               /\ [d EXCEPT !.st = "ended", !.bad = b].bad = b
    BY DEF Devices
  <1>7. GetBegin(d, c).bad = b1 /\ GetChunk(d, c, n).bad = b2 /\ GetEnd(d).bad = b3
    BY <1>2, <1>6, Zenon
  <1> QED BY <1>1, <1>3, <1>4, <1>5, <1>7

\* A report that a player can begin a track is right, as long as its audio is.
Sure(v, d) == v /\ ~d.bad => CanBegin(d)

(* No command makes such a report wrong. *)
LEMMA SureAfter ==
  ASSUME NEW d \in Devices, NEW c \in Nat, NEW n \in Nat, NEW v, Sure(v, d)
  PROVE  /\ Sure(v, GetStop(d, c)) /\ Sure(v, GetStart(d)) /\ Sure(v, GetFlush(d, c))
         /\ Sure(v, GetChunk(d, c, n)) /\ Sure(v, GetEnd(d))
  <1>1. CanBegin(GetStop(d, c)) /\ CanBegin(GetStart(d))
    BY CommandEffects DEF CanBegin
  <1>2. Sure(v, GetFlush(d, c))
    <2>1. OutputSize \in Nat
      BY ConstantsAssumption
    <2>2. CanBegin(d) => CanBegin(GetFlush(d, c))
      BY <2>1, CommandEffects DEF CanBegin
    <2> QED BY <2>2, CommandEffects DEF Sure
  <1>3. d.st = "streaming" => ~CanBegin(d)
    BY DEF CanBegin
  <1>4. Sure(v, GetChunk(d, c, n))
    BY <1>3, CommandFaults DEF Sure
  <1>5. Sure(v, GetEnd(d))
    BY <1>3, CommandFaults DEF Sure
  <1> QED BY <1>1, <1>2, <1>4, <1>5 DEF Sure
-----------------------------------------------------------------------------
(* An app's request. *)
LEMMA AskQuiet ==
  ASSUME AudioInv, IndInv', NEW a \in Apps, NEW method \in Methods, Ask(a, method)
  PROVE  AudioInv'
  <1>1. /\ app[a].req = None /\ MayAsk(a, method)
        /\ app' = [app EXCEPT ![a].req = method]
        /\ ch' = IF method = "acquire" THEN [ch EXCEPT !.acquire = Append(@, a)]
                                       ELSE [ch EXCEPT !.command = Append(@, a)]
        /\ UNCHANGED <<group, lost, failed, dev, view, calls, stops, poll, str, buf, ply>>
    BY DEF Ask
  <1>2. app \in [Apps -> Sessions] /\ ch \in Channels
    BY DEF AudioInv, IndInv, SessionsOK, ThreadsOK
  <1>3. ch'.events = ch.events /\ ch'.bufEvent = ch.bufEvent /\ SameSignals
    BY <1>1, <1>2 DEF Channels, SameSignals
  <1>4. /\ app'[a].token = app[a].token /\ app'[a].next = app[a].next /\ app'[a].at = app[a].at
        /\ app'[a].req = method /\ \A b \in Apps : b # a => app'[b] = app[b]
    BY <1>1, <1>2 DEF Sessions
  <1>5. AppsKept
    <2>1. /\ method = "track_begin" => app[a].at = "begin"
          /\ method = "buffer" => app[a].at \in {"track", "sent"}
          /\ method = "track_end" => app[a].at = "sent"
      BY <1>1 DEF MayAsk
    <2> QED BY <1>4, <2>1 DEF AppsKept, AudioInv, TokensOK
  <1>6. NoNewTrack
    BY <1>1, <1>4 DEF NoNewTrack, InTrack
  <1>7. str.pc = "wait" => str.cmd \in Apps /\ str.cmd # a
    <2>1. None \notin {"track_begin", "buffer"}
      BY ConstantsAssumption DEF Requests
    <2> QED BY <1>1, <2>1 DEF AudioInv, IndInv, CommandWaits
  <1>8. SameStream /\ SameHistory
    BY <1>1, <1>3 DEF SameStream, SameHistory
  <1>9. TokensOK'
    BY <1>1, <1>4, <1>5, <1>7, TokensKept DEF AudioInv, TokensOK
  <1>10. HandshakeOK' /\ CallsOK' /\ StopsOK'
    BY <1>1, <1>3, HandshakeKept, StopsKept DEF AudioInv
  <1>11. HistoryFollows' /\ RefillFollows'
    <2>1. \A m \in Marks : Expects(m) => Expects(m)'
      BY <1>4, <1>6, <1>7, <1>8, ExpectsKept
    <2>2. HistoryFollows'
      BY <1>3, <1>8, <2>1, HistoryKept DEF AudioInv
    <2>3. RefillFollows'
      BY <1>1, <1>4, <1>6, <1>7, <1>8, RefillKept DEF AudioInv
    <2> QED BY <2>2, <2>3
  <1>12. AudioOK'
    <2>1. BeginsKnown' /\ \A p \in Players : SameSound(p)
      BY <1>1, SoundSame DEF AudioInv
    <2> QED BY <1>1, <1>3, <1>6, <2>1, AudioKept DEF AudioInv, SameSignals
  <1> QED BY <1>9, <1>10, <1>11, <1>12 DEF AudioInv

(* Steps that change a device's output, its report or its calls only. *)
LEMMA DeviceStep ==
  ASSUME AudioInv, IndInv', UNCHANGED <<lost, app, ch, str, buf>>, failed \subseteq failed',
         CallsOK', StopsOK', BeginsKnown', \A p \in Players : SameSound(p),
         \A p \in Players : stops'[p] = "none" => stops[p] = "none"
  PROVE  AudioInv'
  <1>1. AppsKept /\ NoNewTrack /\ SameStream /\ SameHistory /\ SameSignals
    BY AppsSame DEF AudioInv, SameStream, SameHistory, SameSignals
  <1>2. TokensOK'
    BY <1>1, TokensKept DEF AudioInv, TokensOK
  <1>3. HandshakeOK'
    BY <1>1, HandshakeKept DEF AudioInv
  <1>4. \A m \in Marks : Expects(m) => Expects(m)'
    BY <1>1, ExpectsKept
  <1>5. HistoryFollows'
    BY <1>1, <1>4, HistoryKept DEF AudioInv
  <1>6. RefillFollows'
    BY <1>1, RefillKept DEF AudioInv
  <1>7. AudioOK'
    BY <1>1, AudioKept DEF AudioInv
  <1> QED BY <1>2, <1>3, <1>5, <1>6, <1>7 DEF AudioInv

(* A device serves a call: a stop only comes while someone waits for it. *)
LEMMA ServeAudio ==
  ASSUME AudioInv, IndInv', NEW p \in Players, Serve(p)
  PROVE  AudioInv'
  <1> DEFINE method == Head(calls[p])
             Get(d) == CASE method = "stop"   -> GetStop(d, str.cookie)
                         [] method = "pause"  -> [d EXCEPT !.run = FALSE]
                         [] method = "resume" -> [d EXCEPT !.run = TRUE]
                         [] OTHER             -> d
  <1>1. /\ UNCHANGED <<group, lost, failed, app, ch, str, buf, ply>>
        /\ calls[p] # << >> /\ calls' = [calls EXCEPT ![p] = Tail(@)]
        /\ dev' = [dev EXCEPT ![p] = Get(@)]
        /\ stops' = IF method = "stop" THEN [stops EXCEPT ![p] = "ok"] ELSE stops
        /\ view' = IF method \in {"state", "late"}
                     THEN [view EXCEPT ![p] = Snapshot(dev[p])] ELSE view
    BY DEF Serve
  <1>2. /\ dev \in [Players -> Devices] /\ view \in [Players -> Views] /\ str.cookie \in Nat
        /\ stops \in [Players -> StopStates] /\ calls \in [Players -> Seq(CallNames)]
        /\ str.players \subseteq Players
    BY DEF AudioInv, IndInv, DevicesOK, ThreadsOK, Streams, GroupOK, CallsOK, CallNames, Tables
  <1>3. /\ \A q \in Players : OneStop(calls[q], stops[q])
        /\ \A q \in Players : stops[q] = "error" => ~Healthy(q)
        /\ str.pc # "stopping" /\ buf.pc # "stopping" => \A q \in Players : stops[q] = "none"
    BY StopsByPlayer DEF AudioInv
  <1>4. /\ Tail(calls[p]) \in Seq(CallNames) /\ OneStop(Tail(calls[p]), stops[p])
        /\ method = "stop" => stops[p] = "called" /\ \A t : OneStop(Tail(calls[p]), t)
    BY <1>1, <1>2, <1>3, CallEnds
  <1>5. calls' \in [Players -> Seq(CallNames)] /\ calls'[p] = Tail(calls[p])
        /\ \A q \in Players : q # p => calls'[q] = calls[q]
    BY <1>1, <1>2, <1>4
  <1>6. stops'[p] = (IF method = "stop" THEN "ok" ELSE stops[p])
        /\ \A q \in Players : q # p => stops'[q] = stops[q]
    BY <1>1, <1>2
  <1>7. CallsOK' /\ StopsOK'
    <2>1. \A q \in Players : OneStop(calls'[q], stops'[q])
      BY <1>3, <1>4, <1>5, <1>6
    <2>2. \A q \in Players : stops'[q] = "error" => ~Healthy(q)'
      BY <1>1, <1>3, <1>6 DEF Healthy
    <2>3. (str.pc # "stopping" /\ buf.pc # "stopping")' => \A q \in Players : stops'[q] = "none"
      BY <1>1, <1>3, <1>4, <1>6
    <2> QED BY <1>5, <2>1, <2>2, <2>3 DEF CallsOK, CallNames, StopsOK, OneStop
  <1>8. \A q \in Players : stops'[q] = "none" => stops[q] = "none"
    BY <1>6
  <1>9. /\ dev'[p] = Get(dev[p]) /\ \A q \in Players : q # p => dev'[q] = dev[q]
        /\ \A q \in Players : q # p => view'[q] = view[q]
    BY <1>1, <1>2
  <1>10. \A q \in Players : Sure(view[q].canBegin, dev[q])
    BY DEF AudioInv, AudioOK, BeginsKnown, Sure
  <1>11. CASE method # "stop"
    <2>1. /\ dev'[p].st = dev[p].st /\ dev'[p].token = dev[p].token /\ dev'[p].fill = dev[p].fill
          /\ dev'[p].last = dev[p].last /\ dev'[p].bad = dev[p].bad
      <3> DEFINE d == dev[p]
      <3>1. d \in Devices
        BY <1>2
      <3>2. dev'[p] = [d EXCEPT !.run = FALSE] \/ dev'[p] = [d EXCEPT !.run = TRUE] \/ dev'[p] = d
        BY <1>9, <1>11
      <3> HIDE DEF d
      <3>3. /\ dev'[p].st = d.st /\ dev'[p].token = d.token /\ dev'[p].fill = d.fill
            /\ dev'[p].last = d.last /\ dev'[p].bad = d.bad
        BY <3>1, <3>2 DEF Devices
      <3> QED BY <3>3 DEF d
    <2> HIDE DEF Get
    <2>2. \A q \in Players : SameSound(q) /\ dev'[q].fill = dev[q].fill
      BY <1>9, <2>1 DEF SameSound
    <2>3. ASSUME NEW q \in Players, view'[q].canBegin, ~dev'[q].bad PROVE CanBegin(dev'[q])
      <3>1. CanBegin(dev[q]) => CanBegin(dev'[q])
        BY <2>2 DEF CanBegin, SameSound
      <3>2. CASE view'[q] = view[q]
        BY <1>10, <2>2, <2>3, <3>1, <3>2 DEF Sure, SameSound
      <3>3. CASE view'[q] # view[q]
        <4>1. q = p /\ view'[p] = Snapshot(dev[p])
          BY <1>1, <1>2, <1>9, <3>3
        <4>2. Snapshot(dev[p]).canBegin = CanBegin(dev[p])
          BY Zenon DEF Snapshot
        <4> QED BY <2>3, <3>1, <4>1, <4>2
      <3> QED BY <3>2, <3>3
    <2>4. BeginsKnown'
      BY <2>3 DEF BeginsKnown, CanBegin
    <2> QED BY <1>1, <1>7, <1>8, <2>2, <2>4, DeviceStep
  <1>12. CASE method = "stop"
    <2>1. dev'[p] = GetStop(dev[p], str.cookie) /\ view' = view
      BY <1>1, <1>9, <1>12
    <2> HIDE DEF Get
    <2>2. dev[p] \in Devices /\ 0 \in Nat
      BY <1>2
    <2>3. /\ dev'[p].bad = dev[p].bad /\ Sure(view[p].canBegin, dev'[p])
      BY <1>2, <1>10, <2>1, <2>2, CommandEffects, SureAfter
    <2>4. stops[p] = "called" /\ stops'[p] = "ok" /\ (str.pc = "stopping" \/ buf.pc = "stopping")
      BY <1>3, <1>4, <1>6, <1>12
    <2>5. BeginsKnown'
      <3>1. \A q \in Players : Sure(view[q].canBegin, dev'[q])
        BY <1>9, <1>10, <2>3
      <3> QED BY <2>1, <3>1 DEF BeginsKnown, Sure, CanBegin
    <2>6. StartsKnown'
      BY <1>1, <1>2, <1>6, <1>9, <2>4 DEF AudioInv, AudioOK, StartsKnown, Healthy
    <2>7. ~(str.pc \in {"loop", "wait"} \/ ch.rebufferDone)
      BY <2>4 DEF AudioInv, HandshakeOK
    <2>8. StreamKnown'
      BY <1>1, <2>7 DEF StreamKnown
    <2>9. RefillKnown'
      <3>1. buf.pc \in {"loop", "stopping"}
        BY <2>4 DEF AudioInv, HandshakeOK
      <3>2. \A q \in str.players : Fine(q)' => Fine(q)
        BY <1>1 DEF Fine, Healthy
      <3>3. \A q \in str.players : Refilled(q) => Refilled(q)'
        BY <1>1, <1>2, <1>6, <1>9, <2>4, <3>1 DEF Refilled
      <3> QED BY <1>1, <3>1, <3>2, <3>3 DEF AudioInv, AudioOK, RefillKnown
    <2>10. InPlace'
      BY <1>1, <1>9, <2>3 DEF AudioInv, AudioOK, InPlace, AudioIsInPlace
    <2>11. AudioOK'
      BY <2>5, <2>6, <2>8, <2>9, <2>10 DEF AudioOK
    <2>12. AppsKept /\ NoNewTrack /\ SameStream /\ SameHistory /\ SameSignals
      BY <1>1, AppsSame DEF AudioInv, SameStream, SameHistory, SameSignals
    <2>13. TokensOK' /\ HandshakeOK'
      BY <1>1, <2>12, TokensKept, HandshakeKept DEF AudioInv, TokensOK
    <2>14. \A m \in Marks : Expects(m) => Expects(m)'
      BY <1>1, <2>12, ExpectsKept
    <2>15. HistoryFollows' /\ RefillFollows'
      BY <1>1, <2>12, <2>14, HistoryKept, RefillKept DEF AudioInv
    <2> QED BY <1>7, <2>11, <2>13, <2>15 DEF AudioInv
  <1> QED BY <1>11, <1>12

(* A call ends in an error. *)
LEMMA CallFailsAudio ==
  ASSUME AudioInv, IndInv', NEW p \in Players, CallFails(p)
  PROVE  AudioInv'
  <1> DEFINE method == Head(calls[p])
  <1>1. /\ UNCHANGED <<group, lost, dev, view, app, ch, str, buf, ply>>
        /\ calls[p] # << >> /\ calls' = [calls EXCEPT ![p] = Tail(@)]
        /\ failed' = failed \cup {p}
        /\ stops' = IF method = "stop" THEN [stops EXCEPT ![p] = "error"] ELSE stops
    BY DEF CallFails
  <1>2. stops \in [Players -> StopStates] /\ calls \in [Players -> Seq(CallNames)]
    BY DEF AudioInv, IndInv, GroupOK, CallsOK, CallNames
  <1>3. /\ \A q \in Players : OneStop(calls[q], stops[q])
        /\ \A q \in Players : stops[q] = "error" => ~Healthy(q)
        /\ str.pc # "stopping" /\ buf.pc # "stopping" => \A q \in Players : stops[q] = "none"
    BY StopsByPlayer DEF AudioInv
  <1>4. /\ Tail(calls[p]) \in Seq(CallNames) /\ OneStop(Tail(calls[p]), stops[p])
        /\ method = "stop" => stops[p] = "called" /\ \A t : OneStop(Tail(calls[p]), t)
    BY <1>1, <1>2, <1>3, CallEnds
  <1>5. calls' \in [Players -> Seq(CallNames)] /\ calls'[p] = Tail(calls[p])
        /\ \A q \in Players : q # p => calls'[q] = calls[q]
    BY <1>1, <1>2, <1>4
  <1>6. stops'[p] = (IF method = "stop" THEN "error" ELSE stops[p])
        /\ \A q \in Players : q # p => stops'[q] = stops[q]
    BY <1>1, <1>2
  <1> HIDE DEF method
  <1>7. CallsOK' /\ StopsOK'
    <2>1. \A q \in Players : OneStop(calls'[q], stops'[q])
      BY <1>3, <1>4, <1>5, <1>6
    <2>2. \A q \in Players : stops'[q] = "error" => ~Healthy(q)'
      BY <1>1, <1>3, <1>6 DEF Healthy
    <2>3. (str.pc # "stopping" /\ buf.pc # "stopping")' => \A q \in Players : stops'[q] = "none"
      BY <1>1, <1>3, <1>4, <1>6
    <2> QED BY <1>5, <2>1, <2>2, <2>3 DEF CallsOK, CallNames, StopsOK, OneStop
  <1>8. \A q \in Players : stops'[q] = "none" => stops[q] = "none"
    BY <1>6
  <1>9. BeginsKnown' /\ \A q \in Players : SameSound(q)
    BY <1>1, SoundSame DEF AudioInv
  <1> QED BY <1>1, <1>7, <1>8, <1>9, DeviceStep

(* What comes from outside. *)
LEMMA EnvironmentAudio ==
  ASSUME AudioInv, IndInv', Environment
  PROVE  AudioInv'
  <1>0. ch \in Channels /\ dev \in [Players -> Devices]
    BY DEF AudioInv, IndInv, ThreadsOK, DevicesOK
  <1>1. ASSUME NEW ps, Publish(ps) PROVE AudioInv'
    <2>1. /\ ch' = [ch EXCEPT !.pollPlayers = ps, !.streamPlayers = ps]
          /\ UNCHANGED <<lost, failed, dev, view, calls, stops, app, used, poll, str, buf, ply>>
      BY <1>1 DEF Publish
    <2>2. ch'.events = ch.events /\ ch'.bufEvent = ch.bufEvent /\ SameSignals
      BY <1>0, <2>1 DEF Channels, SameSignals
    <2> QED BY <2>1, <2>2, QuietStep
  <1>2. ASSUME NEW p \in Players, AddPlayer(p) \/ RemovePlayer(p) \/ DropFailed PROVE AudioInv'
    BY <1>1, <1>2 DEF AddPlayer, RemovePlayer, DropFailed
  <1>3. ASSUME NEW p \in Players, ConnectionLost(p) PROVE AudioInv'
    <2>1. /\ lost \subseteq lost'
          /\ UNCHANGED <<failed, dev, view, calls, stops, app, ch, poll, str, buf, ply>>
      BY <1>3 DEF ConnectionLost
    <2> QED BY <2>1, QuietStep DEF SameSignals
  <1>4. ASSUME NEW p \in Players, DevicePlays(p) PROVE AudioInv'
    <2> DEFINE d == dev[p]
               k == dev[p].fill - 1
    <2>1. /\ dev' = [dev EXCEPT ![p] = [d EXCEPT !.fill = k]]
          /\ UNCHANGED <<lost, failed, view, calls, stops, app, ch, poll, str, buf, ply>>
      BY <1>0, <1>4 DEF DevicePlays
    <2>2. d \in Devices /\ k <= d.fill /\ k \in Int /\ OutputSize \in Nat /\ d.fill \in Nat
      BY <1>0, ConstantsAssumption DEF Devices
    <2> DEFINE d2 == [d EXCEPT !.fill = k]
    <2>3. dev'[p] = d2 /\ \A q \in Players : q # p => dev'[q] = dev[q]
      BY <1>0, <2>1
    <2> HIDE DEF d, k
    <2>4. d2.st = d.st /\ d2.token = d.token /\ d2.last = d.last /\ d2.bad = d.bad /\ d2.fill = k
      BY <2>2 DEF Devices
    <2> HIDE DEF d2
    <2>5. CanBegin(d) => CanBegin(d2)
      BY <2>2, <2>4 DEF CanBegin
    <2>6. \A q \in Players : SameSound(q)
      BY <2>3, <2>4 DEF SameSound, d
    <2>7. \A q \in Players : CanBegin(dev[q]) => CanBegin(dev'[q])
      BY <2>3, <2>5 DEF d
    <2>8. BeginsKnown'
      <3>1. \A q \in Players : view'[q].canBegin /\ ~dev'[q].bad => CanBegin(dev'[q])
        BY <2>1, <2>6, <2>7 DEF SameSound, AudioInv, AudioOK, BeginsKnown
      <3> QED BY <3>1 DEF BeginsKnown, CanBegin
    <2>9. CallsOK' /\ StopsOK'
      BY <2>1, StopsKept DEF AudioInv
    <2> QED BY <2>1, <2>6, <2>8, <2>9, DeviceStep
  <1>5. CASE PollTimer \/ TrackEndTimer
    <2>1. UNCHANGED <<lost, failed, dev, view, calls, stops, app, ch, str, buf>>
      BY <1>5 DEF PollTimer, TrackEndTimer
    <2> QED BY <2>1, QuietStep DEF SameSignals
  <1>6. ASSUME NEW method, Control(method) PROVE AudioInv'
    <2>1. /\ ch' = [ch EXCEPT !.play = method]
          /\ UNCHANGED <<lost, failed, dev, view, calls, stops, app, poll, str, buf, ply>>
      BY <1>6 DEF Control
    <2>2. ch'.events = ch.events /\ ch'.bufEvent = ch.bufEvent /\ SameSignals
      BY <1>0, <2>1 DEF Channels, SameSignals
    <2> QED BY <2>1, <2>2, QuietStep
  <1>7. CASE DropFailed
    BY <1>1, <1>7 DEF DropFailed
  <1> QED BY <1>2, <1>3, <1>4, <1>5, <1>6, <1>7, ServeAudio, CallFailsAudio, AskQuiet
          DEF Environment
-----------------------------------------------------------------------------
(* The mults: an event goes from the queue to buffer_thread's hand. *)
LEMMA MultsAudio ==
  ASSUME AudioInv, IndInv', StatesMultStep \/ StreamingMultStep \/ EventMultStep
  PROVE  AudioInv'
  <1>0. ch \in Channels
    BY DEF AudioInv, IndInv, ThreadsOK
  <1>1. UNCHANGED <<lost, failed, dev, view, calls, stops, app, str, buf>>
    BY DEF StatesMultStep, StreamingMultStep, EventMultStep
  <1>2. CASE StatesMultStep \/ StreamingMultStep
    <2>1. ch'.events = ch.events /\ ch'.bufEvent = ch.bufEvent /\ SameSignals
      <3>1. CASE StreamingMultStep
        BY <1>0, <3>1 DEF StreamingMultStep, Channels, SameSignals
      <3>2. CASE StatesMultStep
        <4>1. \E b, q, y, h : ch' = [ch EXCEPT !.bufStates = b, !.plyStates = q, !.strStates = y,
                                               !.statesHand = h, !.states = None]
          BY <3>2, Zenon DEF StatesMultStep
        <4> QED BY <1>0, <4>1 DEF Channels, SameSignals
      <3> QED BY <1>2, <3>1, <3>2
    <2> QED BY <1>1, <2>1, QuietStep
  <1>3. CASE EventMultStep
    <2>1. ch.events # << >> /\ ch.bufEvent = None /\ ch.events \in Seq(Events)
      <3>1. Ready(3)
        BY <1>3 DEF EventMultStep, Runs, EventMult
      <3> QED BY <1>0, <3>1 DEF Channels, Ready, EventMult, StatesMult, StreamingMult, PollThread,
                                StreamThread, BufferThread, PlayThread, StopThreads
    <2>2. PICK e \in Events, q \in Seq(Events) : e = Head(ch.events) /\ q = Tail(ch.events)
      BY <2>1, HeadTailProperties
    <2>3. ch'.events = q /\ ch'.bufEvent = e /\ SameSignals
      BY <1>0, <1>3, <2>2 DEF EventMultStep, Channels, SameSignals
    <2>4. AppsKept /\ NoNewTrack /\ SameStream
      BY <1>1, AppsSame DEF AudioInv, SameStream
    <2>5. TokensOK' /\ HandshakeOK' /\ CallsOK' /\ StopsOK'
      BY <1>1, <2>3, <2>4, TokensKept, HandshakeKept, StopsKept DEF AudioInv, TokensOK
    <2>6. RefillFollows'
      BY <1>1, <2>4, RefillKept DEF AudioInv
    <2>7. AudioOK'
      BY <1>1, <2>3, <2>4, AudioKept, SoundSame DEF AudioInv, SameSignals
    <2>8. HistoryFollows'
      <3>1. PICK y \in Marks : Reaches(ch.events, y) /\ Expects(y)
        BY DEF AudioInv, HistoryFollows
      <3>2. PICK w \in Marks, x \in Marks :
              Remembers(buf, w) /\ AtHand(w, x) /\ Path(ch.events, x, y)
        BY <3>1 DEF Reaches
      <3>3. PICK z \in Marks : z = After(x, e) /\ MayFollow(x, e) /\ Path(q, z, y) /\ x = w
        BY <2>1, <2>2, <3>2, PathTaken DEF AtHand
      <3>4. Remembers(buf, w)' /\ Path(ch.events, z, y)'
        BY <1>1, <2>3, <3>2, <3>3 DEF Remembers
      <3>5. AtHand(w, z)'
        <4>1. e # None
          BY MessagesAssumption
        <4> QED BY <2>3, <3>3, <4>1 DEF AtHand
      <3>6. Expects(y)'
        BY <1>1, <2>4, <3>1, ExpectsKept
      <3> QED BY <3>4, <3>5, <3>6 DEF HistoryFollows, Reaches
    <2> QED BY <2>5, <2>6, <2>7, <2>8 DEF AudioInv
  <1> QED BY <1>2, <1>3

(* A step of a thread that calls players, and says nothing of the stream. *)
LEMMA CallingStep ==
  ASSUME AudioInv, IndInv', UNCHANGED <<lost, failed, dev, view, app, str, buf>>,
         ch'.events = ch.events, ch'.bufEvent = ch.bufEvent, SameSignals, CallsOK', StopsOK',
         \A p \in Players : stops'[p] = "none" => stops[p] = "none"
  PROVE  AudioInv'
  <1>1. AppsKept /\ NoNewTrack /\ SameStream /\ SameHistory
    BY AppsSame DEF AudioInv, SameStream, SameHistory
  <1>2. TokensOK' /\ HandshakeOK'
    BY <1>1, TokensKept, HandshakeKept DEF AudioInv, TokensOK
  <1>3. \A m \in Marks : Expects(m) => Expects(m)'
    BY <1>1, ExpectsKept
  <1>4. HistoryFollows' /\ RefillFollows'
    BY <1>1, <1>3, HistoryKept, RefillKept DEF AudioInv
  <1>5. AudioOK'
    BY <1>1, AudioKept, SoundSame DEF AudioInv, SameSignals
  <1> QED BY <1>2, <1>4, <1>5 DEF AudioInv

(* player_states_thread: an aborted cycle leaves stops as they are. *)
LEMMA PollAudio ==
  ASSUME AudioInv, IndInv', PollStep
  PROVE  AudioInv'
  <1>0. ch \in Channels
    BY DEF AudioInv, IndInv, ThreadsOK
  <1>1. UNCHANGED <<lost, failed, dev, view, stops, app, str, buf>>
    BY DEF PollStep, PollTakes, PollAsks, PollCounts
  <1>2. CASE PollTakes
    <2>1. ch'.events = ch.events /\ ch'.bufEvent = ch.bufEvent /\ SameSignals /\ calls' = calls
      BY <1>0, <1>2 DEF PollTakes, Channels, SameSignals
    <2> QED BY <1>1, <2>1, QuietStep
  <1>3. CASE PollAsks
    <2>1. calls' = Call(poll.players, "state") /\ ch' = ch
      BY <1>3 DEF PollAsks
    <2>2. CallsOK' /\ StopsOK'
      BY <1>1, <2>1, CallsMade DEF AudioInv, CallNames
    <2> QED BY <1>1, <2>1, <2>2, CallingStep DEF SameSignals
  <1>4. CASE PollCounts
    <2>1. \E s, ps : ch' = [ch EXCEPT !.states = s, !.pollPlayers = ps]
      BY <1>4, Zenon DEF PollCounts
    <2>2. ch'.events = ch.events /\ ch'.bufEvent = ch.bufEvent /\ SameSignals
      BY <1>0, <2>1 DEF Channels, SameSignals
    <2>3. CASE calls' = calls
      BY <1>1, <2>2, <2>3, QuietStep
    <2>4. CASE calls' # calls
      <3> DEFINE Late(q) == [i \in DOMAIN q |-> IF q[i] = "state" THEN "late" ELSE q[i]]
      <3>1. calls' = [p \in Players |-> Late(calls[p])]
        BY <1>4, <2>4 DEF PollCounts
      <3>2. /\ \A p \in Players : calls[p] \in Seq(CallNames) /\ OneStop(calls[p], stops[p])
            /\ \A p \in Players : stops[p] = "error" => ~Healthy(p)
            /\ str.pc # "stopping" /\ buf.pc # "stopping" => \A p \in Players : stops[p] = "none"
        BY StopsByPlayer DEF AudioInv
      <3>3. ASSUME NEW p \in Players
            PROVE  Late(calls[p]) \in Seq(CallNames) /\ OneStop(Late(calls[p]), stops[p])
        <4>1. PICK q \in Seq(CallNames) : q = calls[p] /\ OneStop(q, stops[p])
          BY <3>2
        <4>2. PICK k \in Nat : DOMAIN q = 1 .. k
          BY <4>1, LenProperties
        <4>3. \A i \in DOMAIN q : q[i] \in CallNames
          BY <4>1, ElementOfSeq, LenProperties
        <4>4. Late(q) \in [1 .. k -> CallNames] /\ DOMAIN Late(q) = DOMAIN q
              /\ \A i \in DOMAIN q : Late(q)[i] = IF q[i] = "state" THEN "late" ELSE q[i]
          BY <4>2, <4>3 DEF CallNames
        <4>5. Late(q) \in Seq(CallNames)
          BY <4>2, <4>4, SeqDef
        <4> HIDE DEF Late
        <4>6. OneStop(Late(q), stops[p])
          BY <4>1, <4>4 DEF OneStop
        <4> QED BY <4>1, <4>5, <4>6
      <3> HIDE DEF Late
      <3>4. calls' \in [Players -> Seq(CallNames)] /\ \A p \in Players : calls'[p] = Late(calls[p])
        BY <3>1, <3>3
      <3>5. CallsOK'
        BY <3>4 DEF CallsOK, CallNames
      <3>6. StopsOK'
        BY <1>1, <3>2, <3>3, <3>4, ZenonT(60) DEF StopsOK, OneStop, Healthy
      <3> QED BY <1>1, <2>2, <3>5, <3>6, CallingStep
    <2> QED BY <2>3, <2>4
  <1> QED BY <1>2, <1>3, <1>4 DEF PollStep

(* The threads of player_stop. *)
LEMMA StopCallsAudio ==
  ASSUME AudioInv, IndInv', StopCalls
  PROVE  AudioInv'
  <1> DEFINE wanted == {p \in Players : stops[p] = "wanted"}
  <1>1. /\ calls' = Call(wanted, "stop")
        /\ stops' = [p \in Players |-> CASE p \in wanted \cap failed -> "error"
                                         [] p \in wanted \ failed   -> "called"
                                         [] OTHER                   -> stops[p]]
        /\ UNCHANGED <<lost, failed, dev, view, app, ch, str, buf>>
    BY DEF StopCalls
  <1>2. /\ \A p \in Players : calls[p] \in Seq(CallNames) /\ OneStop(calls[p], stops[p])
        /\ \A p \in Players : stops[p] = "error" => ~Healthy(p)
        /\ str.pc # "stopping" /\ buf.pc # "stopping" => \A p \in Players : stops[p] = "none"
    BY StopsByPlayer DEF AudioInv
  <1>3. /\ \A p \in Players : calls'[p] = IF p \in wanted \ failed THEN Append(calls[p], "stop")
                                                                  ELSE calls[p]
        /\ \A p \in Players : p \in wanted <=> stops[p] = "wanted"
    BY <1>1 DEF Call
  <1>4. \A p \in Players : /\ p \in wanted /\ p \in failed => stops'[p] = "error"
                           /\ p \in wanted /\ p \notin failed => stops'[p] = "called"
                           /\ p \notin wanted => stops'[p] = stops[p]
    BY <1>1
  <1> HIDE DEF wanted
  <1>5. ASSUME NEW p \in Players
        PROVE  calls'[p] \in Seq(CallNames) /\ OneStop(calls'[p], stops'[p])
    <2>1. CASE p \in wanted /\ p \notin failed
      <3>1. OneStop(calls[p], "wanted") /\ calls[p] \in Seq(CallNames)
        BY <1>2, <1>3, <2>1
      <3> QED BY <1>3, <1>4, <2>1, <3>1, StopMade
    <2>2. CASE p \in wanted /\ p \in failed
      <3>1. OneStop(calls[p], "wanted")
        BY <1>2, <1>3, <2>2
      <3> QED BY <1>2, <1>3, <1>4, <2>2, <3>1 DEF OneStop
    <2>3. CASE p \notin wanted
      BY <1>2, <1>3, <1>4, <2>3
    <2> QED BY <2>1, <2>2, <2>3
  <1>6. calls' \in [Players -> Seq(CallNames)]
    <2>1. calls' = [p \in Players |-> calls'[p]]
      BY <1>1 DEF Call
    <2> QED BY <1>5, <2>1
  <1>7. CallsOK'
    BY <1>6 DEF CallsOK, CallNames
  <1>8. StopsOK'
    <2>1. \A p \in Players : stops'[p] = "error" => ~Healthy(p)'
      BY <1>1, <1>2, <1>4 DEF Healthy
    <2>2. (str.pc # "stopping" /\ buf.pc # "stopping")' => \A p \in Players : stops'[p] = "none"
      BY <1>1, <1>2, <1>3, <1>4
    <2> QED BY <1>5, <2>1, <2>2 DEF StopsOK, OneStop
  <1>9. \A p \in Players : stops'[p] = "none" => stops[p] = "none"
    BY <1>4
  <1> QED BY <1>1, <1>7, <1>8, <1>9, CallingStep DEF SameSignals

(* play_thread pauses and resumes. *)
LEMMA PlayAudio ==
  ASSUME AudioInv, IndInv', PlayStep
  PROVE  AudioInv'
  <1>0. ch \in Channels
    BY DEF AudioInv, IndInv, ThreadsOK
  <1>1. UNCHANGED <<lost, failed, dev, view, stops, app, str, buf>>
    BY DEF PlayStep, PlayPlayers, PlayStates, PlayCommand, PlayEvent
  <1>2. ch'.events = ch.events /\ ch'.bufEvent = ch.bufEvent /\ SameSignals
    BY <1>0 DEF PlayStep, PlayPlayers, PlayStates, PlayCommand, PlayEvent, Channels, SameSignals
  <1>3. \/ calls' = calls
        \/ \E method \in {"pause", "resume"} : calls' = Call(PlayTable, method)
    <2>1. CASE PlayPlayers \/ PlayCommand
      BY <2>1 DEF PlayPlayers, PlayCommand
    <2>2. CASE PlayStates
      BY <2>2 DEF PlayStates
    <2>3. CASE PlayEvent
      BY <2>3 DEF PlayEvent
    <2> QED BY <2>1, <2>2, <2>3 DEF PlayStep
  <1>4. CASE calls' = calls
    BY <1>1, <1>2, <1>4, QuietStep
  <1>5. ASSUME NEW method \in {"pause", "resume"}, calls' = Call(PlayTable, method)
        PROVE  AudioInv'
    <2>1. CallsOK' /\ StopsOK'
      BY <1>1, <1>5, CallsMade DEF AudioInv, CallNames
    <2> QED BY <1>1, <1>2, <2>1, CallingStep
  <1> QED BY <1>3, <1>4, <1>5
-----------------------------------------------------------------------------
(* What a reply makes of a session. *)
LEMMA RepliedSays ==
  ASSUME NEW s \in Sessions, NEW result \in {"ok", "block", "error"}, str.owner \in Nat
  PROVE  /\ Replied(s, result).req = None
         /\ result = "ok" /\ s.req = "acquire" =>
              /\ Replied(s, result).token = str.owner + 1 /\ Replied(s, result).at = "begin"
              /\ Replied(s, result).next = 1
         /\ ~(result = "ok" /\ s.req = "acquire") => Replied(s, result).token = s.token
         /\ result = "error" => Replied(s, result).at = "out" /\ Replied(s, result).next = s.next
         /\ result = "block" => Replied(s, result).at = s.at /\ Replied(s, result).next = s.next
         /\ result = "ok" =>
              /\ s.req = "track_begin" =>
                   Replied(s, result).at = "track" /\ Replied(s, result).next = s.next
              /\ s.req = "buffer" =>
                   Replied(s, result).at = "sent" /\ Replied(s, result).next = s.next + 1
              /\ s.req = "track_end" =>
                   Replied(s, result).at = "begin" /\ Replied(s, result).next = s.next
              /\ s.req \notin {"acquire", "track_begin", "buffer", "track_end"} =>
                   Replied(s, result).at = s.at /\ Replied(s, result).next = s.next
  <1>0. Replied(s, result).req = None
    BY RepliedType
  <1>1. CASE result = "error"
    <2>1. Replied(s, result) = [s EXCEPT !.req = None, !.at = "out"]
      BY <1>1 DEF Replied
    <2> QED BY <1>0, <1>1, <2>1 DEF Sessions
  <1>2. CASE result = "block"
    <2>1. Replied(s, result) = [s EXCEPT !.req = None]
      BY <1>2 DEF Replied
    <2> QED BY <1>0, <1>2, <2>1 DEF Sessions
  <1>3. CASE result = "ok"
    <2>1. CASE s.req = "acquire"
      <3>1. Replied(s, result) = [token |-> str.owner + 1, next |-> 1, at |-> "begin", req |-> None]
        BY <1>3, <2>1 DEF Replied
      <3> QED BY <1>0, <1>3, <2>1, <3>1
    <2>2. CASE s.req = "track_begin"
      <3>1. Replied(s, result) = [s EXCEPT !.req = None, !.at = "track"]
        BY <1>3, <2>2 DEF Replied
      <3> QED BY <1>0, <1>3, <2>2, <3>1 DEF Sessions
    <2>3. CASE s.req = "buffer"
      <3> DEFINE k == s.next + 1
                 r == Replied(s, result)
      <3>1. r = [s EXCEPT !.req = None, !.at = "sent", !.next = k]
        BY <1>3, <2>3 DEF Replied
      <3> HIDE DEF k, r
      <3>2. r.token = s.token /\ r.at = "sent" /\ r.next = k
        BY <3>1 DEF Sessions
      <3> QED BY <1>0, <1>3, <2>3, <3>2 DEF k, r
    <2>4. CASE s.req = "track_end"
      <3>1. Replied(s, result) = [s EXCEPT !.req = None, !.at = "begin"]
        BY <1>3, <2>4 DEF Replied
      <3> QED BY <1>0, <1>3, <2>4, <3>1 DEF Sessions
    <2>5. CASE s.req \notin {"acquire", "track_begin", "buffer", "track_end"}
      <3>1. Replied(s, result) = [s EXCEPT !.req = None]
        BY <1>3, <2>5 DEF Replied
      <3> QED BY <1>0, <1>3, <2>5, <3>1 DEF Sessions
    <2> QED BY <2>1, <2>2, <2>3, <2>4, <2>5
  <1> QED BY <1>1, <1>2, <1>3

(* A reply that is not an acquire's leaves the tokens alone, and lets an app  *)
(* go on in its track only when it says that a track_begin or buffer is done. *)
LEMMA ReplyKeeps ==
  ASSUME AudioInv, NEW a, NEW result \in {"ok", "block", "error"}, app' = Reply(a, result),
         str'.owner = str.owner, a \in Apps /\ result = "ok" => app[a].req # "acquire"
  PROVE  /\ AppsKept /\ \A b \in Apps : b # a => app'[b] = app[b]
         /\ (a \in Apps /\ result = "ok" => app[a].req \notin {"track_begin", "buffer"}) => NoNewTrack
  <1>1. app \in [Apps -> Sessions] /\ str.owner \in Nat
    BY DEF AudioInv, IndInv, SessionsOK, ThreadsOK, Streams
  <1>2. \A b \in Apps : app'[b] = IF b = a THEN Replied(app[b], result) ELSE app[b]
    BY <1>1 DEF Reply
  <1>3. None \notin {"track_begin", "buffer", "track_end"}
    BY ConstantsAssumption DEF Requests
  <1>4. ASSUME a \in Apps
        PROVE  /\ app'[a].req = None /\ app'[a].token = app[a].token
               /\ app'[a].next \in {app[a].next, app[a].next + 1}
               /\ (result = "ok" => app[a].req \notin {"track_begin", "buffer"}) =>
                    app'[a].at \in {app[a].at, "out", "begin"} /\ app'[a].next = app[a].next
    BY <1>1, <1>2, <1>4, RepliedSays
  <1>5. \A b \in Apps : app[b].next \in Nat /\ app[b].next # 0
    BY <1>1 DEF AudioInv, TokensOK, Sessions
  <1>6. AppsKept
    BY <1>2, <1>3, <1>4, <1>5 DEF AppsKept, AudioInv, TokensOK
  <1>7. (a \in Apps /\ result = "ok" => app[a].req \notin {"track_begin", "buffer"}) => NoNewTrack
    BY <1>2, <1>4 DEF NoNewTrack, InTrack
  <1> QED BY <1>2, <1>6, <1>7
-----------------------------------------------------------------------------
(* What stream_thread does to the channels that the history depends on. *)
Passes(c) == /\ c \in Channels /\ c.bufEvent = ch.bufEvent
             /\ c.rebufferRequest = ch.rebufferRequest /\ c.rebufferDone = ch.rebufferDone

(* What it takes from a channel. *)
LEMMA TakingPasses ==
  ASSUME IndInv
  PROVE  /\ Passes(ch)
         /\ Passes([ch EXCEPT !.streamPlayers = None])
         /\ [ch EXCEPT !.streamPlayers = None].events = ch.events
         /\ Passes([ch EXCEPT !.strStates = FALSE])
         /\ [ch EXCEPT !.strStates = FALSE].events = ch.events
         /\ ch.acquire # << >> => /\ Head(ch.acquire) \in Apps
                                  /\ Passes([ch EXCEPT !.acquire = Tail(@)])
                                  /\ [ch EXCEPT !.acquire = Tail(@)].events = ch.events
         /\ ch.command # << >> =>
              /\ Asker \in Apps /\ Passes(AfterTake) /\ AfterTake.events = ch.events
              /\ Passes([ch EXCEPT !.command = Append(Tail(@), Asker)])
              /\ [ch EXCEPT !.command = Append(Tail(@), Asker)].events = ch.events
         /\ ch.streamPlayers # None => ch.streamPlayers \in Tables
  <1>1. ch \in Channels
    BY DEF IndInv, ThreadsOK
  <1>2. /\ Calm(ch) /\ Calm([ch EXCEPT !.streamPlayers = None])
        /\ Calm([ch EXCEPT !.strStates = FALSE])
        /\ ch.acquire # << >> => Head(ch.acquire) \in Apps /\ Calm([ch EXCEPT !.acquire = Tail(@)])
        /\ ch.command # << >> => /\ Asker \in Apps /\ Calm(AfterTake)
                                 /\ Calm([ch EXCEPT !.command = Append(Tail(@), Asker)])
        /\ ch.streamPlayers # None => ch.streamPlayers \in Tables
    BY TakesFromChannels
  <1>3. ASSUME NEW x
        PROVE  /\ [ch EXCEPT !.streamPlayers = x].bufEvent = ch.bufEvent
               /\ [ch EXCEPT !.streamPlayers = x].rebufferRequest = ch.rebufferRequest
               /\ [ch EXCEPT !.streamPlayers = x].rebufferDone = ch.rebufferDone
               /\ [ch EXCEPT !.streamPlayers = x].events = ch.events
    BY <1>1 DEF Channels
  <1>4. ASSUME NEW x
        PROVE  /\ [ch EXCEPT !.strStates = x].bufEvent = ch.bufEvent
               /\ [ch EXCEPT !.strStates = x].rebufferRequest = ch.rebufferRequest
               /\ [ch EXCEPT !.strStates = x].rebufferDone = ch.rebufferDone
               /\ [ch EXCEPT !.strStates = x].events = ch.events
    BY <1>1 DEF Channels
  <1>5. ASSUME NEW x
        PROVE  /\ [ch EXCEPT !.acquire = x].bufEvent = ch.bufEvent
               /\ [ch EXCEPT !.acquire = x].rebufferRequest = ch.rebufferRequest
               /\ [ch EXCEPT !.acquire = x].rebufferDone = ch.rebufferDone
               /\ [ch EXCEPT !.acquire = x].events = ch.events
    BY <1>1 DEF Channels
  <1>6. ASSUME NEW x
        PROVE  /\ [ch EXCEPT !.command = x].bufEvent = ch.bufEvent
               /\ [ch EXCEPT !.command = x].rebufferRequest = ch.rebufferRequest
               /\ [ch EXCEPT !.command = x].rebufferDone = ch.rebufferDone
               /\ [ch EXCEPT !.command = x].events = ch.events
    BY <1>1 DEF Channels
  <1>7. /\ Passes(ch) /\ Passes([ch EXCEPT !.streamPlayers = None])
        /\ Passes([ch EXCEPT !.strStates = FALSE])
    BY <1>2, <1>3, <1>4 DEF Passes, Calm
  <1>8. ch.acquire # << >> => Passes([ch EXCEPT !.acquire = Tail(@)])
    BY <1>2, <1>5 DEF Passes, Calm
  <1>9. ch.command # << >> => /\ Passes(AfterTake) /\ AfterTake.events = ch.events
                              /\ Passes([ch EXCEPT !.command = Append(Tail(@), Asker)])
    BY <1>2, <1>6 DEF Passes, Calm, AfterTake
  <1> QED BY <1>2, <1>3, <1>4, <1>5, <1>6, <1>7, <1>8, <1>9

(* Its events. *)
LEMMA EmitPasses ==
  ASSUME NEW c, Passes(c), NEW e \in EventNames, NEW n \in 0 .. MaxChunks
  PROVE  /\ Passes(Emit(c, e, n)) /\ Event(e, n) \in Events
         /\ Emit(c, e, n).events = Append(c.events, Event(e, n))
  <1> DEFINE q == Append(c.events, Event(e, n))
  <1>1. Event(e, n) \in Events
    BY DEF Event, Events, EventNames
  <1>2. q \in Seq(Events)
    BY <1>1, AppendProperties DEF Passes, Channels
  <1>3. Emit(c, e, n) = [c EXCEPT !.events = q]
    BY DEF Emit
  <1> HIDE DEF q
  <1>4. Passes(Emit(c, e, n)) /\ Emit(c, e, n).events = q
    BY <1>2, <1>3 DEF Passes, Channels
  <1> QED BY <1>1, <1>4 DEF q

(* Its tables. *)
LEMMA TablePasses ==
  ASSUME NEW c, Passes(c), NEW ps \in Tables
  PROVE  Passes([c EXCEPT !.streaming = ps]) /\ [c EXCEPT !.streaming = ps].events = c.events
  <1>1. ps \in Maybe(Tables \cup {Live})
    BY DEF Maybe
  <1> QED BY <1>1 DEF Passes, Channels
-----------------------------------------------------------------------------
(* What is left to show of a step of stream_thread while do_rebuffer is not   *)
(* running.                                                                   *)
LEMMA StreamEnds ==
  ASSUME AudioInv, IndInv', buf.pc = "loop", UNCHANGED <<lost, buf>>, ~ch'.rebufferDone,
         ch'.rebufferRequest => str'.pc = "rebuffer",
         TokensOK', CallsOK', StopsOK', HistoryFollows', BeginsKnown', StartsKnown', InPlace',
         ~buf.overtook /\ str'.pc \in {"loop", "wait"} =>
           \A p \in str'.players : Fine(p)' => InStep(p)'
  PROVE  AudioInv'
  <1>1. HandshakeOK'
    BY DEF HandshakeOK
  <1>2. RefillFollows'
    BY DEF RefillFollows
  <1>3. StreamKnown'
    BY DEF StreamKnown
  <1>4. RefillKnown'
    BY DEF RefillKnown
  <1> QED BY <1>1, <1>2, <1>3, <1>4 DEF AudioInv, AudioOK

(* Such a step that sends the players nothing. *)
LEMMA StreamSaysNothing ==
  ASSUME AudioInv, IndInv', buf.pc = "loop", UNCHANGED <<lost, failed, dev, view, calls, stops, buf>>,
         ~ch'.rebufferDone, ch'.rebufferRequest => str'.pc = "rebuffer",
         TokensOK', HistoryFollows', str.pc # "stopping", str'.pc # "stopping",
         str'.pc \in {"loop", "wait"} =>
           /\ str.pc \in {"loop", "wait"} \/ ch.rebufferDone
           /\ str'.players \subseteq str.players /\ str'.owner = str.owner
           /\ str'.beginNow => str.beginNow
           /\ NoNewTrack
  PROVE  AudioInv'
  <1>1. CallsOK' /\ StopsOK'
    BY StopsKept DEF AudioInv
  <1>2. BeginsKnown' /\ \A p \in Players : SameSound(p)
    BY SoundSame DEF AudioInv
  <1>3. StartsKnown'
    BY DEF StartsKnown
  <1>4. InPlace'
    BY DEF AudioInv, AudioOK, InPlace, AudioIsInPlace
  <1>5. ASSUME ~buf.overtook, str'.pc \in {"loop", "wait"}, NEW p \in str'.players, Fine(p)'
        PROVE  InStep(p)'
    <2>1. p \in str.players /\ Fine(p)
      BY <1>5 DEF Fine, Healthy
    <2>2. InStep(p)
      BY <1>5, <2>1 DEF AudioInv, AudioOK, StreamKnown
    <2> QED BY <1>5, <2>2 DEF InStep, NoNewTrack
  <1> QED BY <1>1, <1>2, <1>3, <1>4, <1>5, StreamEnds

(* Where the buffer thread is while stream_thread is not in a rebuffer. *)
LEMMA StreamAlone ==
  ASSUME AudioInv
  PROVE  /\ str.pc # "rebuffer" => buf.pc = "loop" /\ ~ch.rebufferRequest /\ ~ch.rebufferDone
         /\ ch.rebufferDone => buf.pc = "loop" /\ ~ch.rebufferRequest
  BY DEF AudioInv, HandshakeOK, IndInv, ThreadsOK, Histories

(* The stream loop with no players. *)
LEMMA WaitForAcquireAudio ==
  ASSUME AudioInv, IndInv', NEW s \in Streams, NEW c, Passes(c), WaitForAcquire(s, c),
         str.pc \in {"loop", "wait"}, s.owner = str.owner, c.events = ch.events,
         UNCHANGED <<lost, failed, dev, view, calls, buf>>, AppsKept
  PROVE  AudioInv'
  <1>1. /\ str' = [s EXCEPT !.pc = "waiting", !.players = {}, !.cmd = None, !.new = None]
        /\ ch' = Emit(c, "WAITING", 0) /\ stops' = stops
    BY DEF WaitForAcquire
  <1>2. str'.pc = "waiting" /\ str'.owner = str.owner
    BY <1>1 DEF Streams
  <1>3. 0 \in 0 .. MaxChunks /\ "WAITING" \in EventNames
    BY ConstantsAssumption DEF EventNames
  <1>4. PICK e \in Events : e = Event("WAITING", 0)
    BY <1>3, EmitPasses
  <1>5. Passes(ch') /\ ch'.events = Append(ch.events, e)
    BY <1>1, <1>3, <1>4, EmitPasses
  <1>6. buf.pc = "loop" /\ ~ch'.rebufferDone /\ ~ch'.rebufferRequest
    BY <1>5, StreamAlone DEF Passes
  <1>7. TokensOK'
    BY <1>2, TokensKept DEF AudioInv
  <1>8. HistoryFollows'
    <2>1. \A m \in Marks : Expects(m) => MayFollow(m, e) /\ Expects(After(m, e))'
      BY <1>2, <1>4 DEF MayFollow, Expects, Event
    <2> QED BY <1>5, <2>1, HistoryGrown DEF AudioInv, IndInv, ThreadsOK, Channels, Passes, SameHistory
  <1> QED BY <1>1, <1>2, <1>6, <1>7, <1>8, StreamSaysNothing

(* An acquire begins: the players are to stop. *)
LEMMA BeginAcquireAudio ==
  ASSUME AudioInv, IndInv', NEW a, NEW s \in Streams, NEW c, Passes(c), BeginAcquire(a, s, c),
         str.pc \in {"waiting", "loop", "wait"}, s.owner = str.owner, c.events = ch.events,
         UNCHANGED <<lost, failed, dev, view, calls, buf>>, AppsKept
  PROVE  AudioInv'
  <1> DEFINE k == s.cookie + 1
             ps == s.players
             d == [c EXCEPT !.streaming = ps, !.cookie = k]
  <1>1. /\ str' = [s EXCEPT !.pc = "stopping", !.cmd = a, !.new = None, !.cookie = k]
        /\ ch' = Emit(d, "ACQUIRE_STARTED", 0) /\ stops' = WantStops(ps)
    BY DEF BeginAcquire
  <1>2. k \in Nat /\ ps \in Tables
    BY DEF Streams
  <1> HIDE DEF k
  <1>3. str'.pc = "stopping" /\ str'.owner = str.owner /\ str'.players = ps
    BY <1>1 DEF Streams
  <1> HIDE DEF ps
  <1>4. Passes(d) /\ d.events = ch.events
    <2> DEFINE b == [c EXCEPT !.streaming = ps]
    <2>1. Passes(b) /\ b.events = c.events
      BY <1>2, TablePasses
    <2>2. d = [b EXCEPT !.cookie = k]
      BY DEF Passes, Channels
    <2> HIDE DEF b, d
    <2> QED BY <1>2, <2>1, <2>2, ZenonT(60) DEF Passes, Channels, Maybe
  <1> HIDE DEF d
  <1>5. 0 \in 0 .. MaxChunks /\ "ACQUIRE_STARTED" \in EventNames
    BY ConstantsAssumption DEF EventNames
  <1>6. PICK e \in Events : e = Event("ACQUIRE_STARTED", 0)
    BY <1>4, <1>5, EmitPasses
  <1>7. Passes(ch') /\ ch'.events = Append(ch.events, e)
    BY <1>1, <1>4, <1>5, <1>6, EmitPasses
  <1>8. buf.pc = "loop" /\ ~ch'.rebufferDone /\ ~ch'.rebufferRequest
    BY <1>7, StreamAlone DEF Passes
  <1>9. TokensOK'
    BY <1>3, TokensKept DEF AudioInv
  <1>10. HistoryFollows'
    <2>1. ASSUME NEW m \in Marks PROVE MayFollow(m, e) /\ Expects(After(m, e))'
      <3>1. e.event = "ACQUIRE_STARTED"
        BY <1>6 DEF Event
      <3>2. ~After(m, e).track
        BY <3>1, AfterEvent
      <3>3. MayFollow(m, e)
        BY <3>1 DEF MayFollow
      <3> QED BY <1>3, <3>2, <3>3 DEF Expects
    <2> QED BY <1>7, <2>1, HistoryGrown DEF AudioInv, IndInv, ThreadsOK, Channels, Passes, SameHistory
  <1>11. CallsOK' /\ StopsOK'
    <2>1. /\ \A p \in Players : OneStop(calls[p], "none")
          /\ calls \in [Players -> Seq(CallNames)]
      BY <1>8, StopsByPlayer DEF AudioInv
    <2>2. \A p \in Players : stops'[p] \in {"wanted", "none"}
      BY <1>1 DEF WantStops
    <2>3. CallsOK'
      BY DEF AudioInv, CallsOK
    <2>4. \A p \in Players : OneStop(calls'[p], stops'[p])
      BY <2>1 DEF OneStop
    <2> QED BY <1>3, <2>2, <2>3, <2>4 DEF StopsOK, OneStop
  <1>12. StartsKnown'
    BY <1>1, <1>2, <1>3 DEF StartsKnown, WantStops, Tables
  <1>13. BeginsKnown' /\ InPlace'
    BY SoundSame DEF AudioInv, AudioOK, InPlace, AudioIsInPlace
  <1> QED BY <1>3, <1>8, <1>9, <1>10, <1>11, <1>12, <1>13, StreamEnds
-----------------------------------------------------------------------------
(* The marks that are reached, event by event. *)
LEMMA ReachGrows ==
  ASSUME NEW q \in Seq(Events), NEW y \in Marks, Reaches(q, y), NEW e \in Events, MayFollow(y, e)
  PROVE  /\ After(y, e) \in Marks /\ Append(q, e) \in Seq(Events)
         /\ Reaches(Append(q, e), After(y, e))
  <1>1. PICK w \in Marks, x \in Marks : Remembers(buf, w) /\ AtHand(w, x) /\ Path(q, x, y)
    BY DEF Reaches
  <1>2. Path(Append(q, e), x, After(y, e)) /\ After(y, e) \in Marks
    BY <1>1, PathGrows
  <1>3. Append(q, e) \in Seq(Events)
    BY AppendProperties
  <1> QED BY <1>1, <1>2, <1>3 DEF Reaches

(* They stay reached while buffer_thread takes no event. *)
LEMMA ReachKept ==
  ASSUME NEW q, NEW y \in Marks, Reaches(q, y), SameHistory, ch'.events = q, Expects(y)'
  PROVE  HistoryFollows'
  <1>1. PICK w \in Marks, x \in Marks : Remembers(buf, w) /\ AtHand(w, x) /\ Path(q, x, y)
    BY DEF Reaches
  <1>2. Remembers(buf, w)' /\ AtHand(w, x)'
    BY <1>1 DEF SameHistory, Remembers, AtHand
  <1>3. Path(ch.events, x, y)'
    BY <1>1
  <1> QED BY <1>2, <1>3 DEF HistoryFollows, Reaches

(* An event of stream_thread that has no chunk. *)
LEMMA TellPasses ==
  ASSUME NEW c, Passes(c), NEW name \in EventNames
  PROVE  /\ Passes(Emit(c, name, 0)) /\ Event(name, 0) \in Events
         /\ Emit(c, name, 0).events = Append(c.events, Event(name, 0))
         /\ Event(name, 0).event = name
  <1>1. 0 \in 0 .. MaxChunks
    BY ConstantsAssumption
  <1>2. Event(name, 0).event = name
    BY DEF Event
  <1> QED BY <1>1, <1>2, EmitPasses

(* A rebuffer is asked for. *)
LEMMA StartRebufferSays ==
  ASSUME NEW s \in Streams, NEW c, Passes(c), StartRebuffer(s, c)
  PROVE  /\ str'.pc = "rebuffer" /\ str'.owner = s.owner /\ str'.beginNow = s.beginNow
         /\ str'.afterTrackEnd = s.afterTrackEnd
         /\ ch'.bufEvent = ch.bufEvent /\ ch'.rebufferDone = ch.rebufferDone
         /\ ch'.events = Append(c.events, Event("REBUFFER", 0))
         /\ Event("REBUFFER", 0) \in Events /\ Event("REBUFFER", 0).event = "REBUFFER"
  <1> DEFINE k == s.cookie + 1
             ps == s.rebufferPlayers
             b == [c EXCEPT !.streaming = ps]
             d == [c EXCEPT !.streaming = ps, !.rebufferRequest = TRUE]
             q == Append(c.events, Event("REBUFFER", 0))
  <1>1. /\ str' = [s EXCEPT !.pc = "rebuffer", !.cookie = k, !.players = ps, !.listen = TRUE]
        /\ ch' = [d EXCEPT !.events = Append(d.events, Event("REBUFFER", 0))]
    BY DEF StartRebuffer, Emit
  <1>2. ps \in Tables
    BY DEF Streams
  <1>3. "REBUFFER" \in EventNames
    BY DEF EventNames
  <1>4. Event("REBUFFER", 0) \in Events /\ Event("REBUFFER", 0).event = "REBUFFER"
    BY <1>3, TellPasses
  <1> HIDE DEF k, ps
  <1>5. /\ str'.pc = "rebuffer" /\ str'.owner = s.owner /\ str'.beginNow = s.beginNow
        /\ str'.afterTrackEnd = s.afterTrackEnd
    BY <1>1 DEF Streams
  <1>6. Passes(b) /\ b.events = c.events
    BY <1>2, TablePasses
  <1>7. d = [b EXCEPT !.rebufferRequest = TRUE]
    BY DEF Passes, Channels
  <1> HIDE DEF b, d
  <1>8. /\ d \in Channels /\ d.events = c.events /\ d.bufEvent = ch.bufEvent
        /\ d.rebufferDone = ch.rebufferDone
    BY <1>6, <1>7 DEF Passes, Channels
  <1>9. ch' = [d EXCEPT !.events = q]
    BY <1>1, <1>8
  <1> HIDE DEF q
  <1>10. ch'.events = q /\ ch'.bufEvent = ch.bufEvent /\ ch'.rebufferDone = ch.rebufferDone
    BY <1>8, <1>9 DEF Channels
  <1> QED BY <1>4, <1>5, <1>10 DEF q

(* A new table in the stream loop. *)
LEMMA AdoptSays ==
  ASSUME NEW s \in Streams, NEW new \in Tables
  PROVE  /\ Adopt(s, new) \in Streams /\ Adopt(s, new).pc = s.pc /\ Adopt(s, new).owner = s.owner
         /\ Adopt(s, new).beginNow = s.beginNow /\ Adopt(s, new).afterTrackEnd = s.afterTrackEnd
         /\ Adopt(s, new).cmd = s.cmd /\ Adopt(s, new).players \subseteq s.players
  <1> DEFINE x == [s EXCEPT !.needRebuffer = TRUE, !.rebufferPlayers = new]
             y == [s EXCEPT !.needRebuffer = FALSE, !.players = new]
  <1>1. /\ x \in Streams /\ x.pc = s.pc /\ x.owner = s.owner /\ x.beginNow = s.beginNow
        /\ x.afterTrackEnd = s.afterTrackEnd /\ x.cmd = s.cmd /\ x.players = s.players
    BY DEF Streams
  <1>2. /\ y \in Streams /\ y.pc = s.pc /\ y.owner = s.owner /\ y.beginNow = s.beginNow
        /\ y.afterTrackEnd = s.afterTrackEnd /\ y.cmd = s.cmd /\ y.players = new
    BY DEF Streams
  <1> HIDE DEF x, y
  <1>3. CASE RebufferIsNeeded(s.players, new)
    <2>1. Adopt(s, new) = x
      BY <1>3 DEF Adopt, x
    <2> QED BY <1>1, <2>1
  <1>4. CASE ~RebufferIsNeeded(s.players, new)
    <2>1. Adopt(s, new) = y /\ new \subseteq s.players
      BY <1>4 DEF Adopt, RebufferIsNeeded, y
    <2> QED BY <1>2, <2>1
  <1> QED BY <1>3, <1>4

(* It is announced unless it waits for a rebuffer. *)
LEMMA AnnouncePasses ==
  ASSUME NEW c, Passes(c), NEW s, NEW new \in Tables
  PROVE  Passes(Announce(c, s, new)) /\ Announce(c, s, new).events = c.events
  BY TablePasses, Zenon DEF Announce
-----------------------------------------------------------------------------
(* The stream loop before an acquire. *)
LEMMA WaitingAudio ==
  ASSUME AudioInv, IndInv', WaitingPlayers \/ WaitingAcquire \/ WaitingCommand
  PROVE  AudioInv'
  <1>0. /\ str \in Streams /\ str.pc = "waiting" /\ IndInv /\ Runs(StreamThread)
        /\ UNCHANGED <<lost, failed, dev, view, calls, buf>>
    BY DEF WaitingPlayers, WaitingAcquire, WaitingCommand, StreamAt, AudioInv, IndInv, ThreadsOK
  <1>1. buf.pc = "loop" /\ ~ch.rebufferRequest /\ ~ch.rebufferDone
    BY <1>0, StreamAlone
  <1>2. ASSUME AppsKept, str'.pc = "waiting", str'.owner = str.owner, stops' = stops,
               Passes(ch'), ch'.events = ch.events
        PROVE  AudioInv'
    <2>1. TokensOK'
      BY <1>2, TokensKept DEF AudioInv
    <2>2. \A m \in Marks : Expects(m)'
      BY <1>2 DEF Expects
    <2>3. HistoryFollows'
      BY <1>0, <1>2, <2>2, HistoryKept DEF AudioInv, SameHistory, Passes
    <2> QED BY <1>0, <1>1, <1>2, <2>1, <2>3, StreamSaysNothing DEF Passes
  <1>3. CASE WaitingPlayers
    <2>1. /\ ch.streamPlayers # None /\ str' = [str EXCEPT !.players = ch.streamPlayers]
          /\ ch' = [ch EXCEPT !.streamPlayers = None] /\ UNCHANGED <<stops, app>>
      BY <1>3 DEF WaitingPlayers
    <2>2. Passes(ch') /\ ch'.events = ch.events
      BY <1>0, <2>1, TakingPasses
    <2>3. str'.pc = "waiting" /\ str'.owner = str.owner
      BY <1>0, <2>1 DEF Streams
    <2>4. AppsKept
      BY <2>1, AppsSame DEF AudioInv
    <2> QED BY <1>2, <2>1, <2>2, <2>3, <2>4
  <1>4. CASE WaitingAcquire
    <2> DEFINE a == Head(ch.acquire)
               c == [ch EXCEPT !.acquire = Tail(@)]
    <2>1. /\ ch.acquire # << >>
          /\ \/ app' = Reply(a, "error") /\ ch' = c /\ UNCHANGED <<str, stops>>
             \/ BeginAcquire(a, str, c) /\ UNCHANGED app
      BY <1>4 DEF WaitingAcquire
    <2>2. a \in Apps /\ Passes(c) /\ c.events = ch.events
      BY <1>0, <2>1, TakingPasses
    <2> HIDE DEF a, c
    <2>3. CASE app' = Reply(a, "error") /\ ch' = c /\ UNCHANGED <<str, stops>>
      <3>1. AppsKept
        BY <2>3, ReplyKeeps
      <3> QED BY <1>0, <1>2, <2>2, <2>3, <3>1
    <2>4. CASE BeginAcquire(a, str, c) /\ UNCHANGED app
      <3>1. AppsKept
        BY <2>4, AppsSame DEF AudioInv
      <3> QED BY <1>0, <2>2, <2>4, <3>1, BeginAcquireAudio
    <2> QED BY <2>1, <2>3, <2>4
  <1>5. CASE WaitingCommand
    <2>1. /\ ch.streamPlayers = None /\ ch.acquire = << >> /\ UNCHANGED <<str, stops>>
          /\ app' = Reply(Head(ch.command), "error") /\ ch' = AfterTake
      BY <1>5 DEF WaitingCommand, AfterTake
    <2>2. Passes(ch') /\ ch'.events = ch.events
      BY <1>0, <2>1, StreamRuns, TakingPasses
    <2>3. AppsKept
      BY <2>1, ReplyKeeps
    <2> QED BY <1>0, <1>2, <2>1, <2>2, <2>3
  <1> QED BY <1>3, <1>4, <1>5

(* stop_players of an acquire. *)
LEMMA AcquireStopsAudio ==
  ASSUME AudioInv, IndInv', AcquireStops
  PROVE  AudioInv'
  <1> DEFINE k == str.owner + 1
             ok == Answered("ok")
  <1>1. /\ str.pc = "stopping" /\ UNCHANGED <<lost, view, calls, buf>>
        /\ dev' = [p \in Players |-> IF p \in Wrote(ok) THEN GetStart(dev[p]) ELSE dev[p]]
        /\ failed' = failed \cup (ok \cap lost)
        /\ stops' = [p \in Players |-> IF Stopped(p) THEN "none" ELSE stops[p]]
        /\ \/ /\ AllStopped
              /\ str' = [str EXCEPT !.pc = "loop", !.cmd = None, !.owner = k,
                                  !.beginNow = TRUE, !.needRebuffer = FALSE,
                                  !.rebufferPlayers = {}, !.afterTrackEnd = FALSE]
              /\ ch' = Emit(ch, "ACQUIRE_DONE", 0)
              /\ app' = Reply(str.cmd, "ok")
           \/ UNCHANGED <<str, ch, app>>
    BY DEF AcquireStops, CountStops, WriteTo, StreamAt
  <1>2. /\ str \in Streams /\ str.owner \in Nat /\ k = str.owner + 1 /\ str.players \in Tables
        /\ dev \in [Players -> Devices] /\ stops \in [Players -> StopStates]
        /\ app \in [Apps -> Sessions] /\ ch.events \in Seq(Events)
    BY DEF AudioInv, IndInv, ThreadsOK, Streams, DevicesOK, GroupOK, SessionsOK, Channels
  <1>3. buf.pc = "loop" /\ ~ch.rebufferRequest /\ ~ch.rebufferDone
    BY <1>1, StreamAlone
  <1>4. ok = {p \in Players : stops[p] = "ok"} /\ Wrote(ok) = ok \ (lost \cup failed)
    BY DEF Answered, Wrote
  <1> HIDE DEF k, ok
  <1>5. \A p \in Players : /\ dev'[p].bad = dev[p].bad
                           /\ p \in Wrote(ok) => dev'[p].st = "started"
                           /\ p \notin Wrote(ok) => dev'[p] = dev[p]
                           /\ Sure(view[p].canBegin, dev'[p])
    <2>1. \A p \in Players : dev[p] \in Devices /\ 0 \in Nat /\ Sure(view[p].canBegin, dev[p])
      BY <1>2 DEF AudioInv, AudioOK, BeginsKnown, Sure
    <2>2. \A p \in Players : dev'[p] = IF p \in Wrote(ok) THEN GetStart(dev[p]) ELSE dev[p]
      BY <1>1
    <2>3. \A p \in Players : /\ GetStart(dev[p]).st = "started" /\ GetStart(dev[p]).bad = dev[p].bad
                             /\ Sure(view[p].canBegin, GetStart(dev[p]))
      BY <2>1, CommandEffects, SureAfter
    <2> QED BY <2>1, <2>2, <2>3
  <1>6. \A p \in Players : stops'[p] = IF stops[p] \in {"ok", "error"} THEN "none" ELSE stops[p]
    BY <1>1 DEF Stopped
  <1>7. ASSUME NEW p \in str.players, Healthy(p)', stops'[p] = "none" PROVE dev'[p].st = "started"
    <2>1. p \in Players /\ Healthy(p)
      BY <1>1, <1>2, <1>7 DEF Tables, Healthy
    <2>2. stops[p] # "error"
      BY <2>1 DEF AudioInv, StopsOK
    <2>3. CASE stops[p] = "ok"
      BY <1>4, <1>5, <2>1, <2>3 DEF Healthy
    <2>4. CASE stops[p] # "ok"
      <3>1. stops[p] = "none" /\ p \notin Wrote(ok)
        BY <1>4, <1>6, <1>7, <2>1, <2>2, <2>4
      <3>2. dev[p].st = "started"
        BY <1>1, <2>1, <3>1 DEF AudioInv, AudioOK, StartsKnown
      <3> QED BY <1>5, <2>1, <3>1, <3>2
    <2> QED BY <2>3, <2>4
  <1>8. BeginsKnown' /\ InPlace'
    <2>1. BeginsKnown'
      BY <1>1, <1>5 DEF BeginsKnown, Sure, CanBegin
    <2>2. InPlace'
      BY <1>1, <1>5 DEF AudioInv, AudioOK, InPlace, AudioIsInPlace
    <2> QED BY <2>1, <2>2
  <1>9. CallsOK' /\ StopsOK'
    <2>1. CallsOK'
      BY <1>1 DEF AudioInv, CallsOK
    <2>2. \A p \in Players : \A i \in DOMAIN calls'[p] : calls'[p][i] = "stop" => stops'[p] = "called"
      BY <1>1, <1>6 DEF AudioInv, StopsOK
    <2>3. \A p \in Players : \A i, j \in DOMAIN calls'[p] :
            calls'[p][i] = "stop" /\ calls'[p][j] = "stop" => i = j
      BY <1>1 DEF AudioInv, StopsOK
    <2>4. \A p \in Players : stops'[p] # "error"
      BY <1>6
    <2>5. str'.pc # "stopping" => \A p \in Players : stops'[p] = "none"
      BY <1>1, <1>2, <1>6 DEF AllStopped, StopStates
    <2> QED BY <2>1, <2>2, <2>3, <2>4, <2>5 DEF StopsOK
  <1>10. CASE UNCHANGED <<str, ch, app>>
    <2>1. AppsKept /\ NoNewTrack /\ SameStream /\ SameHistory
      BY <1>1, <1>10, AppsSame DEF AudioInv, SameStream, SameHistory
    <2>2. TokensOK'
      BY <1>10, <2>1, TokensKept DEF AudioInv, TokensOK
    <2>3. \A m \in Marks : Expects(m) => Expects(m)'
      BY <1>10, <2>1, ExpectsKept
    <2>4. HistoryFollows'
      BY <1>10, <2>1, <2>3, HistoryKept DEF AudioInv
    <2>5. StartsKnown'
      BY <1>7, <1>10 DEF StartsKnown
    <2> QED BY <1>1, <1>3, <1>8, <1>9, <1>10, <2>2, <2>4, <2>5, StreamEnds
  <1>11. CASE ~UNCHANGED <<str, ch, app>>
    <2>1. /\ AllStopped /\ ch' = Emit(ch, "ACQUIRE_DONE", 0) /\ app' = Reply(str.cmd, "ok")
          /\ str'.pc = "loop" /\ str'.owner = k /\ str'.beginNow = TRUE
          /\ str'.players = str.players
      BY <1>1, <1>2, <1>11 DEF Streams
    <2>2. PICK e \in Events : /\ e = Event("ACQUIRE_DONE", 0) /\ e.event = "ACQUIRE_DONE"
                              /\ Passes(ch') /\ ch'.events = Append(ch.events, e)
      <3>1. Passes(ch) /\ "ACQUIRE_DONE" \in EventNames
        BY TakingPasses DEF AudioInv, EventNames
      <3> QED BY <2>1, <3>1, TellPasses
    <2>3. ASSUME NEW b \in Apps
          PROVE  /\ app'[b].next # 0
                 /\ \/ app'[b].token = k /\ b = str.cmd /\ app'[b].at = "begin"
                    \/ app'[b].token < k
                 /\ b = str.cmd => app'[b].req = None
                 /\ b # str.cmd => app'[b] = app[b]
      <3>1. app'[b] = IF b = str.cmd THEN Replied(app[b], "ok") ELSE app[b]
        BY <1>2, <2>1 DEF Reply
      <3>2. /\ app[b].token <= str.owner /\ app[b].next # 0
            /\ app[b].token \in Nat /\ app[b].next \in Nat
        BY <1>2 DEF AudioInv, TokensOK, Sessions
      <3>3. CASE b = str.cmd
        <4>1. app[b] \in Sessions
          BY <1>2
        <4> DEFINE r == Replied(app[b], "ok")
        <4>2. r.req = None
          BY <1>2, <4>1, RepliedSays
        <4>3. CASE app[b].req = "acquire"
          <5>1. r.token = k /\ r.at = "begin" /\ r.next = 1
            BY <1>2, <4>1, <4>3, RepliedSays
          <5> HIDE DEF r
          <5> QED BY <3>1, <3>3, <4>2, <5>1 DEF r
        <4>4. CASE app[b].req # "acquire"
          <5>1. r.token = app[b].token /\ r.next \in {app[b].next, app[b].next + 1}
            BY <1>2, <4>1, <4>4, RepliedSays
          <5> HIDE DEF r
          <5>2. app'[b] = r
            BY <3>1, <3>3 DEF r
          <5> QED BY <1>2, <3>2, <3>3, <4>2, <5>1, <5>2
        <4> QED BY <4>3, <4>4
      <3>4. CASE b # str.cmd
        BY <1>2, <3>1, <3>2, <3>4
      <3> QED BY <3>3, <3>4
    <2>4. \A b \in Apps : app'[b].token \in Nat
      BY DEF IndInv, SessionsOK, Sessions
    <2>5. \A b \in Apps : ~InTrack(b)'
      BY <1>2, <2>1, <2>3, <2>4 DEF InTrack
    <2>6. TokensOK'
      <3>1. None \notin {"track_begin", "buffer", "track_end"}
        BY ConstantsAssumption DEF Requests
      <3>2. \A b \in Apps : app'[b].token <= str'.owner /\ app'[b].next # 0
        BY <1>2, <2>1, <2>3, <2>4
      <3>3. \A a, b \in Apps : app'[a].token = str'.owner /\ app'[b].token = str'.owner => a = b
        BY <1>2, <2>1, <2>3, <2>4
      <3>4. \A b \in Apps : /\ app'[b].req = "track_begin" => app'[b].at = "begin"
                            /\ app'[b].req = "buffer" => app'[b].at \in {"track", "sent"}
                            /\ app'[b].req = "track_end" => app'[b].at = "sent"
        BY <2>3, <3>1 DEF AudioInv, TokensOK
      <3>5. str'.owner # 0
        BY <1>2, <2>1
      <3> QED BY <2>1, <3>2, <3>3, <3>4, <3>5 DEF TokensOK
    <2>7. HistoryFollows'
      <3>1. ASSUME NEW m \in Marks, Expects(m) PROVE MayFollow(m, e) /\ Expects(After(m, e))'
        <4>1. ~m.track /\ After(m, e) = m /\ MayFollow(m, e)
          BY <1>1, <2>2, <3>1, AfterEvent DEF Expects, MayFollow
        <4> QED BY <2>1, <2>5, <4>1 DEF Expects
      <3> QED BY <1>1, <1>2, <2>2, <3>1, HistoryGrown DEF AudioInv, Passes, SameHistory
    <2>8. StartsKnown'
      BY <2>1 DEF StartsKnown
    <2>9. ASSUME NEW p \in str'.players, Fine(p)' PROVE InStep(p)'
      <3>1. stops'[p] = "none"
        BY <1>2, <1>6, <2>1, <2>9 DEF AllStopped, StopStates, Tables
      <3>2. dev'[p].st = "started"
        BY <1>7, <2>1, <2>9, <3>1 DEF Fine
      <3> QED BY <2>5, <3>2 DEF InStep
    <2> QED BY <1>1, <1>3, <1>8, <1>9, <2>1, <2>2, <2>6, <2>7, <2>8, <2>9, StreamEnds DEF Passes
  <1> QED BY <1>10, <1>11
-----------------------------------------------------------------------------
(* Expectations that stay in the stream loop, or on the way to a rebuffer. *)
LEMMA ExpectsInLoop ==
  ASSUME str.pc = "loop", str'.pc \in {"loop", "rebuffer"}, str'.owner = str.owner,
         str'.beginNow = str.beginNow, str'.afterTrackEnd => str.afterTrackEnd, NoNewTrack,
         NEW m, Expects(m)
  PROVE  Expects(m)'
  BY DEF Expects, NoNewTrack

(* A rebuffer is asked for in the stream loop, and the app has its answer. *)
LEMMA StartRebufferAudio ==
  ASSUME AudioInv, IndInv', NEW s \in Streams, NEW c, Passes(c), StartRebuffer(s, c),
         str.pc = "loop", c.events = ch.events, s.owner = str.owner, s.beginNow = str.beginNow,
         s.afterTrackEnd => str.afterTrackEnd, AppsKept, str'.owner = str.owner => NoNewTrack,
         UNCHANGED <<lost, failed, dev, view, calls, stops, buf>>
  PROVE  AudioInv'
  <1>1. /\ str'.pc = "rebuffer" /\ str'.owner = str.owner /\ str'.beginNow = str.beginNow
        /\ str'.afterTrackEnd = s.afterTrackEnd
        /\ ch'.bufEvent = ch.bufEvent /\ ch'.rebufferDone = ch.rebufferDone
        /\ ch'.events = Append(ch.events, Event("REBUFFER", 0))
        /\ Event("REBUFFER", 0) \in Events /\ Event("REBUFFER", 0).event = "REBUFFER"
    BY StartRebufferSays
  <1>2. PICK e \in Events : e = Event("REBUFFER", 0)
    BY <1>1
  <1>3. buf.pc = "loop" /\ ~ch'.rebufferDone
    BY <1>1, StreamAlone
  <1>4. TokensOK'
    BY <1>1, TokensKept DEF AudioInv
  <1>5. HistoryFollows'
    <2>1. ASSUME NEW m \in Marks, Expects(m) PROVE MayFollow(m, e) /\ Expects(After(m, e))'
      <3>1. After(m, e) = m /\ MayFollow(m, e)
        BY <1>1, <1>2, AfterEvent DEF MayFollow
      <3>2. Expects(m)'
        BY <1>1, <2>1, ExpectsInLoop
      <3> QED BY <3>1, <3>2
    <2>2. ch.events \in Seq(Events)
      BY DEF AudioInv, IndInv, ThreadsOK, Channels
    <2> QED BY <1>1, <1>2, <2>1, <2>2, HistoryGrown DEF AudioInv, SameHistory
  <1> QED BY <1>1, <1>3, <1>4, <1>5, StreamSaysNothing

(* A step that stays in the stream loop and sends nothing. *)
LEMMA LoopSaysNothing ==
  ASSUME AudioInv, IndInv', str.pc = "loop", str'.pc = "loop", str'.owner = str.owner,
         str'.beginNow = str.beginNow, str'.afterTrackEnd => str.afterTrackEnd,
         str'.players \subseteq str.players, Passes(ch'), ch'.events = ch.events,
         AppsKept, NoNewTrack, UNCHANGED <<lost, failed, dev, view, calls, stops, buf>>
  PROVE  AudioInv'
  <1>1. buf.pc = "loop" /\ ~ch'.rebufferDone /\ ~ch'.rebufferRequest
    BY StreamAlone DEF Passes
  <1>2. TokensOK'
    BY TokensKept DEF AudioInv
  <1>3. \A m \in Marks : Expects(m) => Expects(m)'
    BY ExpectsInLoop
  <1>4. HistoryFollows'
    BY <1>3, HistoryKept DEF AudioInv, SameHistory, Passes
  <1> QED BY <1>1, <1>2, <1>4, StreamSaysNothing

(* The stream loop: new tables, acquires, wrong tokens and can. *)
LEMMA LoopAudio ==
  ASSUME AudioInv, IndInv', LoopPlayers \/ LoopAcquire \/ InvalidToken \/ HandleCan
  PROVE  AudioInv'
  <1>0. /\ str \in Streams /\ str.pc = "loop" /\ IndInv
        /\ UNCHANGED <<lost, failed, dev, view, calls, buf>>
    BY DEF LoopPlayers, LoopAcquire, InvalidToken, HandleCan, Handles, TakesCommand, StreamAt,
           AudioInv, IndInv, ThreadsOK
  <1>1. CASE LoopPlayers
    <2> DEFINE new == ch.streamPlayers
               c == [ch EXCEPT !.streamPlayers = None]
    <2>1. /\ new # None /\ app' = app
          /\ \/ WaitForAcquire(str, c)
             \/ StartRebuffer(Adopt(str, new), c) /\ UNCHANGED stops
             \/ str' = Adopt(str, new) /\ ch' = Announce(c, str, new) /\ UNCHANGED stops
      BY <1>1 DEF LoopPlayers
    <2>2. new \in Tables /\ Passes(c) /\ c.events = ch.events
      BY <1>0, <2>1, TakingPasses
    <2> HIDE DEF new, c
    <2>3. AppsKept /\ (str'.owner = str.owner => NoNewTrack)
      BY <2>1, AppsSame DEF AudioInv
    <2>4. /\ Adopt(str, new) \in Streams /\ Adopt(str, new).pc = "loop"
          /\ Adopt(str, new).owner = str.owner /\ Adopt(str, new).beginNow = str.beginNow
          /\ Adopt(str, new).afterTrackEnd = str.afterTrackEnd
          /\ Adopt(str, new).players \subseteq str.players
      BY <1>0, <2>2, AdoptSays
    <2>5. CASE WaitForAcquire(str, c)
      BY <1>0, <2>2, <2>3, <2>5, WaitForAcquireAudio
    <2>6. CASE StartRebuffer(Adopt(str, new), c) /\ UNCHANGED stops
      BY <1>0, <2>2, <2>3, <2>4, <2>6, StartRebufferAudio
    <2>7. CASE str' = Adopt(str, new) /\ ch' = Announce(c, str, new) /\ UNCHANGED stops
      <3>1. Passes(ch') /\ ch'.events = ch.events
        BY <2>2, <2>7, AnnouncePasses
      <3> QED BY <1>0, <2>3, <2>4, <2>7, <3>1, LoopSaysNothing
    <2> QED BY <2>1, <2>5, <2>6, <2>7
  <1>2. CASE LoopAcquire
    <2> DEFINE a == Head(ch.acquire)
               c == [ch EXCEPT !.acquire = Tail(@)]
               ps == IF str.needRebuffer THEN str.rebufferPlayers ELSE str.players
               s == [str EXCEPT !.players = ps]
    <2>1. ch.acquire # << >> /\ BeginAcquire(a, s, c) /\ UNCHANGED app
      BY <1>2 DEF LoopAcquire
    <2>2. a \in Apps /\ Passes(c) /\ c.events = ch.events
      BY <1>0, <2>1, TakingPasses
    <2>3. s \in Streams /\ s.owner = str.owner
      <3>1. ps \in Tables
        BY <1>0 DEF Streams
      <3> HIDE DEF ps
      <3> QED BY <1>0, <3>1 DEF Streams
    <2>4. AppsKept
      BY <2>1, AppsSame DEF AudioInv
    <2> HIDE DEF a, c, s
    <2> QED BY <1>0, <2>1, <2>2, <2>3, <2>4, BeginAcquireAudio
  <1>3. NotTrackEnd \in Streams /\ NotTrackEnd.pc = "loop" /\ NotTrackEnd.owner = str.owner
        /\ NotTrackEnd.beginNow = str.beginNow /\ ~NotTrackEnd.afterTrackEnd
        /\ NotTrackEnd.players = str.players
    BY <1>0 DEF NotTrackEnd, Streams
  <1>4. CASE InvalidToken
    <2>1. /\ ch.command # << >> /\ app' = Reply(Asker, "error") /\ ch' = AfterTake
          /\ str' = NotTrackEnd /\ stops' = stops
      BY <1>4 DEF InvalidToken, TakesCommand
    <2>2. Passes(ch') /\ ch'.events = ch.events
      BY <1>0, <2>1, TakingPasses
    <2>3. AppsKept /\ NoNewTrack
      BY <1>3, <2>1, ReplyKeeps
    <2> QED BY <1>0, <1>3, <2>1, <2>2, <2>3, LoopSaysNothing
  <1>5. CASE HandleCan
    <2>1. /\ ch.command # << >> /\ app[Asker].req = "can" /\ stops' = stops
          /\ app' = Reply(Asker, "ok") \/ app' = Reply(Asker, "block")
          /\ \/ StartRebuffer(NotTrackEnd, AfterTake)
             \/ str' = NotTrackEnd /\ ch' = AfterTake
      BY <1>5 DEF HandleCan, Handles, TakesCommand
    <2>2. Passes(AfterTake) /\ AfterTake.events = ch.events
      BY <1>0, <2>1, TakingPasses
    <2>3. str'.owner = str.owner => AppsKept /\ NoNewTrack
      BY <2>1, ReplyKeeps
    <2>4. CASE StartRebuffer(NotTrackEnd, AfterTake)
      <3>1. str'.owner = str.owner
        BY <1>3, <2>2, <2>4, StartRebufferSays
      <3> QED BY <1>0, <1>3, <2>1, <2>2, <2>3, <2>4, <3>1, StartRebufferAudio
    <2>5. CASE str' = NotTrackEnd /\ ch' = AfterTake
      BY <1>0, <1>3, <2>1, <2>2, <2>3, <2>5, LoopSaysNothing
    <2> QED BY <2>1, <2>4, <2>5
  <1> QED BY <1>1, <1>2, <1>4, <1>5
-----------------------------------------------------------------------------
\* The events lead to where app a's track_begin or buffer goes on.
Sends(m, a) == /\ m.track /\ ~m.end
               /\ m.last = 0 \/ (app[a].req = "buffer" /\ m.last + 1 = app[a].next)

\* A command that stream_thread may send, or go on waiting with.
Sendable(s, c) ==
    /\ Taken(s) /\ Passes(c)
    /\ s.players = str.players /\ s.owner = str.owner /\ s.beginNow = str.beginNow
    /\ ~s.afterTrackEnd /\ app[s.cmd].token = str.owner
    /\ app[s.cmd].req = "buffer" => ~str.beginNow
    /\ \E y \in Marks : Reaches(c.events, y) /\ Sends(y, s.cmd)

(* The state of stream_thread after a command. *)
LEMMA PerformSays ==
  ASSUME IndInv, NEW s, NEW c, Sendable(s, c), Perform(s, c)
  PROVE  /\ str'.pc = "loop" /\ str'.owner = str.owner /\ ~str'.afterTrackEnd
         /\ str'.beginNow => str.beginNow /\ app[s.cmd].req # "track_begin"
         /\ str'.players \subseteq str.players
         /\ Passes(ch')
         /\ app[s.cmd].req = "track_begin" => ch'.events = c.events
         /\ app[s.cmd].req = "buffer" => /\ Event("BUFFER", app[s.cmd].next) \in Events
              /\ ch'.events = Append(c.events, Event("BUFFER", app[s.cmd].next))
  <1> DEFINE a     == s.cmd
             begin == app[a].req = "track_begin"
             n     == app[a].next
             b     == s.beginNow /\ ~begin
             done  == [s EXCEPT !.pc = "loop", !.cmd = None, !.new = None, !.beginNow = b]
             c2    == IF begin THEN c ELSE Emit(c, "BUFFER", n)
  <1>1. /\ a \in Apps /\ s \in Streams /\ s.new \in Maybe(Tables)
        /\ app[a] \in Sessions /\ app[a].req \in {"track_begin", "buffer"}
    BY DEF Sendable, Taken, Streams, IndInv, SessionsOK
  <1>2. n \in 0 .. MaxChunks /\ "BUFFER" \in EventNames
    BY <1>1, ConstantsAssumption DEF IndInv, SessionsOK, Sessions, EventNames
  <1>3. /\ str' = IF s.new = None THEN done ELSE Adopt(done, s.new)
        /\ ch' = IF s.new = None THEN c2 ELSE Announce(c2, s, s.new)
    BY DEF Perform
  <1>4. /\ done \in Streams /\ done.pc = "loop" /\ done.owner = s.owner /\ done.beginNow = b
        /\ done.afterTrackEnd = s.afterTrackEnd /\ done.players = s.players
    <2>1. b \in BOOLEAN
      BY <1>1, Zenon
    <2> DEFINE d(x) == [s EXCEPT !.pc = "loop", !.cmd = None, !.new = None, !.beginNow = x]
    <2>2. ASSUME NEW x \in BOOLEAN
          PROVE  /\ d(x) \in Streams /\ d(x).pc = "loop" /\ d(x).owner = s.owner
                 /\ d(x).beginNow = x /\ d(x).afterTrackEnd = s.afterTrackEnd
                 /\ d(x).players = s.players
      BY <1>1 DEF Streams, Maybe
    <2> HIDE DEF b, d
    <2>3. done = d(b)
      BY DEF d
    <2> QED BY <2>1, <2>2, <2>3, Zenon
  <1>5. b => s.beginNow /\ ~begin
    OBVIOUS
  <1> HIDE DEF done, b
  <1>6. /\ str'.pc = "loop" /\ str'.owner = s.owner /\ str'.beginNow = b
        /\ str'.afterTrackEnd = s.afterTrackEnd /\ str'.players \subseteq s.players
    <2>1. CASE s.new = None
      BY <1>3, <1>4, <2>1
    <2>2. CASE s.new # None
      <3>1. s.new \in Tables
        BY <1>1, <2>2 DEF Maybe
      <3> QED BY <1>3, <1>4, <2>2, <3>1, AdoptSays
    <2> QED BY <2>1, <2>2
  <1>7. /\ begin => c2.events = c.events
        /\ ~begin => Event("BUFFER", n) \in Events /\ c2.events = Append(c.events, Event("BUFFER", n))
    BY <1>2, EmitPasses DEF Sendable
  <1>8. Passes(c2)
    BY <1>2, EmitPasses DEF Sendable
  <1> HIDE DEF c2
  <1>9. Passes(ch') /\ ch'.events = c2.events
    <2>1. CASE s.new = None
      BY <1>3, <1>8, <2>1
    <2>2. CASE s.new # None
      <3>1. s.new \in Tables
        BY <1>1, <2>2 DEF Maybe
      <3> QED BY <1>3, <1>8, <2>2, <3>1, AnnouncePasses
    <2> QED BY <2>1, <2>2
  <1> QED BY <1>1, <1>5, <1>6, <1>7, <1>8, <1>9 DEF Sendable

(* A track_begin or a buffer reaches players that are ready for it. *)
LEMMA PerformSounds ==
  ASSUME AudioInv, NEW s, NEW c, Sendable(s, c), Fits(s, s.cmd), Perform(s, c), IndInv',
         str.pc \in {"loop", "wait"}, lost' = lost, buf' = buf
  PROVE  /\ BeginsKnown' /\ InPlace'
         /\ ~buf.overtook => \A p \in str.players : Fine(p)' =>
              /\ dev'[p].st = "streaming" /\ dev'[p].token = str.owner
              /\ app[s.cmd].req = "track_begin" => dev'[p].last = 0
              /\ app[s.cmd].req = "buffer" => dev'[p].last = app[s.cmd].next
  <1> DEFINE a  == s.cmd
             n  == app[a].next
             ps == s.players
  <1>1. /\ a \in Apps /\ ps = str.players /\ ps \in Tables /\ s.owner = str.owner
        /\ str.owner \in Nat /\ n \in Nat /\ app[a].req \in {"track_begin", "buffer"}
        /\ s.beginNow = str.beginNow /\ app[a].token = str.owner
        /\ dev \in [Players -> Devices] /\ view \in [Players -> Views] /\ ps \subseteq Players
    BY DEF AudioInv, Sendable, Taken, Streams, IndInv, SessionsOK, Sessions, DevicesOK, Tables
  <1>2. /\ failed' = failed \cup (ps \cap lost)
        /\ view' = IF app[a].req = "track_begin" THEN SpendBegin(ps) ELSE SpendChunk(ps)
        /\ dev' = [p \in Players |-> IF p \in Wrote(ps)
             THEN IF app[a].req = "track_begin" THEN GetBegin(dev[p], str.owner)
                                                ELSE GetChunk(dev[p], str.owner, n)
             ELSE dev[p]]
    BY <1>1 DEF Perform, WriteTo
  <1> HIDE DEF a, n, ps
  <1>3. \A p : /\ Fine(p)' => Fine(p) /\ (p \in ps => p \in Wrote(ps))
               /\ p \in Wrote(ps) => p \in ps /\ Healthy(p)
               /\ p \in Wrote(ps) /\ p \notin buf.dropped => Fine(p)
    BY <1>2 DEF Fine, Healthy, Wrote
  <1>4. \A p \in ps : ~buf.overtook /\ Fine(p) => InStep(p)
    BY <1>1 DEF AudioInv, AudioOK, StreamKnown
  <1>5. \A p \in Players : Sure(view[p].canBegin, dev[p])
    BY DEF AudioInv, AudioOK, BeginsKnown, Sure
  <1>6. \A p \in Players : buf.overtook \/ (dev[p].bad => p \in buf.dropped)
    BY DEF AudioInv, AudioOK, InPlace, AudioIsInPlace
  <1>7. CASE app[a].req = "track_begin"
    <2>1. \A p \in Players : /\ p \in Wrote(ps) => dev'[p] = GetBegin(dev[p], str.owner)
                             /\ p \notin Wrote(ps) => dev'[p] = dev[p]
                             /\ p \in ps => ~view'[p].canBegin
                             /\ p \notin ps => view'[p] = view[p]
      BY <1>1, <1>2, <1>7 DEF SpendBegin, Views
    <2>2. ASSUME NEW p \in Players, dev'[p].bad, ~buf.overtook PROVE p \in buf.dropped
      <3>1. CASE p \notin Wrote(ps)
        BY <1>6, <2>1, <2>2, <3>1
      <3>2. CASE p \in Wrote(ps)
        <4> SUFFICES ASSUME p \notin buf.dropped PROVE FALSE
          OBVIOUS
        <4>1. InStep(p) /\ p \in ps /\ ~dev[p].bad
          BY <1>3, <1>4, <1>6, <2>2, <3>2
        <4>2. dev[p].st # "stopped" /\ (str.beginNow => dev[p].st = "started")
          BY <4>1 DEF InStep
        <4>3. app[a].at = "begin"
          BY <1>1, <1>7 DEF AudioInv, TokensOK
        <4>4. str.beginNow \/ view[p].canBegin
          BY <1>1, <4>1, <4>3 DEF Fits, AllCanBegin, a, ps
        <4>5. CanBegin(dev[p])
          BY <1>5, <4>1, <4>2, <4>4 DEF CanBegin, Sure
        <4>6. dev[p] \in Devices
          BY <1>1
        <4> QED BY <1>1, <2>1, <2>2, <3>2, <4>1, <4>2, <4>5, <4>6, CommandFaults
      <3> QED BY <3>1, <3>2
    <2>3. BeginsKnown'
      <3>1. \A p \in Players : view'[p].canBegin => view'[p] = view[p] /\ dev'[p] = dev[p]
        BY <1>3, <2>1
      <3> QED BY <1>5, <3>1 DEF BeginsKnown, Sure, CanBegin
    <2>4. ASSUME NEW p \in str.players, Fine(p)'
          PROVE  dev'[p].st = "streaming" /\ dev'[p].token = str.owner /\ dev'[p].last = 0
      <3>1. p \in Wrote(ps) /\ dev[p] \in Devices /\ p \in Players
        BY <1>1, <1>3, <2>4
      <3> QED BY <1>1, <2>1, <3>1, CommandEffects
    <2>5. InPlace'
      BY <2>2 DEF InPlace, AudioIsInPlace
    <2> QED BY <1>7, <2>3, <2>4, <2>5 DEF a
  <1>8. CASE app[a].req = "buffer"
    <2>1. \A p \in Players : /\ p \in Wrote(ps) => dev'[p] = GetChunk(dev[p], str.owner, n)
                             /\ p \notin Wrote(ps) => dev'[p] = dev[p]
      BY <1>1, <1>2, <1>8
    <2>2. \A p \in Players : view'[p].canBegin = view[p].canBegin
      <3>1. view' = SpendChunk(ps)
        BY <1>2, <1>8
      <3> QED BY <1>1, <3>1 DEF SpendChunk, Views
    <2>3. app[a].at \in {"track", "sent"} /\ InTrack(a)
      BY <1>1, <1>8 DEF AudioInv, TokensOK, InTrack
    <2>4. ASSUME NEW p \in Players, dev'[p].bad, ~buf.overtook PROVE p \in buf.dropped
      <3>1. CASE p \notin Wrote(ps)
        BY <1>6, <2>1, <2>4, <3>1
      <3>2. CASE p \in Wrote(ps)
        <4> SUFFICES ASSUME p \notin buf.dropped PROVE FALSE
          OBVIOUS
        <4>1. InStep(p) /\ p \in ps /\ ~dev[p].bad
          BY <1>3, <1>4, <1>6, <2>4, <3>2
        <4>2. /\ dev[p].st = "streaming" /\ dev[p].token = str.owner
              /\ dev[p].last = 0 \/ dev[p].last + 1 = n
          BY <1>1, <2>3, <4>1 DEF InStep, n
        <4>3. view[p].free > 0
          BY <2>3, <4>1 DEF Fits, AllCanBuffer, a, ps
        <4>4. dev[p].fill # Capacity
          <5>1. /\ view[p].free \in Nat /\ dev[p].fill \in Nat /\ Capacity \in Nat
                /\ view[p].free + dev[p].fill <= Capacity
            BY <1>1, ConstantsAssumption DEF AudioInv, IndInv, DevicesOK, Room, Views, Devices
          <5> QED BY <4>3, <5>1
        <4>5. dev[p] \in Devices
          BY <1>1
        <4> QED BY <1>1, <2>1, <2>4, <3>2, <4>1, <4>2, <4>4, <4>5, CommandFaults
      <3> QED BY <3>1, <3>2
    <2>5. BeginsKnown'
      <3>1. \A p \in Players : Sure(view[p].canBegin, GetChunk(dev[p], str.owner, n))
        BY <1>1, <1>5, SureAfter
      <3>2. \A p \in Players : Sure(view[p].canBegin, dev'[p])
        BY <1>5, <2>1, <3>1
      <3> QED BY <2>2, <3>2 DEF BeginsKnown, Sure, CanBegin
    <2>6. ASSUME NEW p \in str.players, Fine(p)', ~buf.overtook
          PROVE  dev'[p].st = "streaming" /\ dev'[p].token = str.owner /\ dev'[p].last = n
      <3>1. p \in Wrote(ps) /\ dev[p] \in Devices /\ p \in Players /\ Fine(p) /\ p \in ps
        BY <1>1, <1>3, <2>6
      <3>2. dev[p].st = "streaming" /\ dev[p].token = str.owner
        BY <1>1, <1>4, <2>3, <2>6, <3>1 DEF InStep
      <3> QED BY <1>1, <2>1, <3>1, <3>2, CommandEffects
    <2>7. InPlace'
      BY <2>4 DEF InPlace, AudioIsInPlace
    <2> QED BY <1>8, <2>5, <2>6, <2>7 DEF a, n
  <1> QED BY <1>1, <1>7, <1>8

(* A track_begin or a buffer is done. *)
LEMMA PerformAudio ==
  ASSUME AudioInv, IndInv', NEW s, NEW c, Sendable(s, c), Fits(s, s.cmd), Perform(s, c),
         str.pc \in {"loop", "wait"}, UNCHANGED <<lost, calls, stops, buf>>
  PROVE  AudioInv'
  <1> DEFINE a == s.cmd
  <1>1. /\ a \in Apps /\ app[a].req \in {"track_begin", "buffer"} /\ app[a].token = str.owner
        /\ app[a] \in Sessions /\ app[a].next \in Nat /\ app[a].next # 0 /\ IndInv
        /\ str.owner \in Nat /\ str.owner # 0 /\ buf.pc = "loop"
        /\ ~ch.rebufferRequest /\ ~ch.rebufferDone
    BY StreamAlone DEF AudioInv, Sendable, Taken, IndInv, SessionsOK, Sessions, ThreadsOK, Streams,
                       TokensOK
  <1>2. app' = Reply(a, "ok")
    BY DEF Perform
  <1>3. /\ str'.pc = "loop" /\ str'.owner = str.owner /\ ~str'.afterTrackEnd
        /\ str'.beginNow => str.beginNow /\ app[a].req # "track_begin"
        /\ str'.players \subseteq str.players /\ Passes(ch')
    BY <1>1, PerformSays
  <1>4. ~str'.beginNow
    BY <1>1, <1>3 DEF Sendable
  <1>5. /\ AppsKept
        /\ app[a].req = "track_begin" => app'[a].next = app[a].next
        /\ app[a].req = "buffer" => app'[a].next = app[a].next + 1
    <2>1. AppsKept
      BY <1>1, <1>2, <1>3, ReplyKeeps
    <2>2. app \in [Apps -> Sessions]
      BY DEF AudioInv, IndInv, SessionsOK
    <2>3. app'[a] = Replied(app[a], "ok")
      BY <1>1, <1>2, <2>2 DEF Reply
    <2> QED BY <1>1, <2>1, <2>3, RepliedSays
  <1>6. \A b \in Apps : InTrack(b)' => b = a
    BY <1>1, <1>3, <1>5 DEF InTrack, AppsKept, AudioInv, TokensOK
  <1>7. TokensOK'
    BY <1>3, <1>5, TokensKept DEF AudioInv
  <1>8. PICK y \in Marks : Reaches(c.events, y) /\ Sends(y, a)
    BY DEF Sendable
  <1>9. SameHistory /\ c.events \in Seq(Events)
    BY <1>3 DEF SameHistory, Passes, Sendable, Channels
  <1>10. HistoryFollows'
    <2>1. CASE app[a].req = "track_begin"
      <3>1. PICK q \in Seq(Events) : q = c.events /\ ch'.events = q
        BY <1>1, <1>9, <2>1, PerformSays
      <3>2. y.track /\ ~y.end /\ y.last = 0
        BY <1>8, <2>1 DEF Sends
      <3>3. Expects(y)'
        BY <1>3, <1>4, <3>2 DEF Expects
      <3> QED BY <1>8, <1>9, <3>1, <3>3, ReachKept
    <2>2. CASE app[a].req = "buffer"
      <3>1. PICK n \in Nat : n = app[a].next
        BY <1>1
      <3>2. PICK e \in Events : e = Event("BUFFER", n) /\ ch'.events = Append(c.events, e)
        BY <1>1, <2>2, <3>1, PerformSays
      <3>3. e.event = "BUFFER" /\ e.n = n
        BY <3>2 DEF Event
      <3>4. y.last \in Nat /\ (y.last = 0 \/ y.last + 1 = n) /\ y.track /\ ~y.end
        BY <1>8, <3>1 DEF Sends, Marks
      <3>5. MayFollow(y, e)
        BY <1>1, <3>1, <3>3, <3>4 DEF MayFollow
      <3>6. PICK q \in Seq(Events), z \in Marks :
              q = Append(c.events, e) /\ z = After(y, e) /\ Reaches(q, z)
        BY <1>8, <1>9, <3>5, ReachGrows
      <3>7. z.track /\ ~z.end /\ z.last = n
        <4>1. z = [y EXCEPT !.last = n]
          BY <3>3, <3>6, AfterEvent
        <4> QED BY <3>4, <4>1 DEF Marks
      <3>8. app'[a].next = n + 1
        BY <1>5, <2>2, <3>1
      <3>9. Expects(z)'
        BY <1>3, <1>4, <1>6, <3>7, <3>8 DEF Expects
      <3> QED BY <1>9, <3>2, <3>6, <3>9, ReachKept
    <2> QED BY <1>1, <2>1, <2>2
  <1>11. /\ BeginsKnown' /\ InPlace'
         /\ ~buf.overtook => \A p \in str.players : Fine(p)' =>
              /\ dev'[p].st = "streaming" /\ dev'[p].token = str.owner
              /\ app[a].req = "track_begin" => dev'[p].last = 0
              /\ app[a].req = "buffer" => dev'[p].last = app[a].next
    BY PerformSounds
  <1> HIDE DEF a
  <1>12. ASSUME ~buf.overtook, NEW p \in str'.players, Fine(p)' PROVE InStep(p)'
    <2>1. /\ dev'[p].st = "streaming" /\ dev'[p].token = str'.owner
          /\ dev'[p].last = 0 \/ dev'[p].last + 1 = app'[a].next
      BY <1>1, <1>3, <1>5, <1>11, <1>12
    <2> QED BY <1>4, <1>6, <2>1 DEF InStep
  <1>13. StartsKnown'
    BY <1>3 DEF StartsKnown
  <1>14. failed \subseteq failed'
    BY DEF Perform, WriteTo
  <1>15. CallsOK' /\ StopsOK'
    BY <1>1, <1>14, StopsKept DEF AudioInv
  <1> QED BY <1>1, <1>3, <1>7, <1>10, <1>11, <1>12, <1>13, <1>15, StreamEnds DEF Passes

(* It is done, or waits for the players. *)
LEMMA PerformOrWaitAudio ==
  ASSUME AudioInv, IndInv', NEW s, NEW c, Sendable(s, c), PerformOrWait(s, c),
         str.pc \in {"loop", "wait"}, UNCHANGED <<lost, calls, stops, buf>>
  PROVE  AudioInv'
  <1>1. CASE Fits(s, s.cmd)
    BY <1>1, PerformAudio DEF PerformOrWait
  <1>2. CASE ~Fits(s, s.cmd)
    <2>1. str' = [s EXCEPT !.pc = "wait"] /\ ch' = c /\ UNCHANGED <<dev, failed, view, app>>
      BY <1>2 DEF PerformOrWait
    <2>2. /\ s \in Streams /\ s.cmd \in Apps /\ app[s.cmd].token = str.owner
          /\ app[s.cmd].req \in {"track_begin", "buffer"} /\ ~s.afterTrackEnd /\ Passes(c)
      BY DEF Sendable, Taken
    <2>3. /\ str'.pc = "wait" /\ str'.owner = str.owner /\ str'.players = str.players
          /\ str'.cmd = s.cmd /\ str'.beginNow = str.beginNow /\ ~str'.afterTrackEnd
      BY <2>1, <2>2 DEF Streams, Sendable
    <2>4. ~str.beginNow
      <3>1. CASE app[s.cmd].req = "track_begin"
        <4>1. app[s.cmd].at = "begin"
          BY <2>2, <3>1 DEF AudioInv, TokensOK
        <4> QED BY <1>2, <4>1 DEF Fits, Sendable
      <3>2. CASE app[s.cmd].req = "buffer"
        BY <3>2 DEF Sendable
      <3> QED BY <2>2, <3>1, <3>2
    <2>5. AppsKept /\ NoNewTrack
      BY <2>1, <2>3, AppsSame DEF AudioInv
    <2>6. TokensOK'
      BY <2>1, <2>2, <2>3, <2>5, TokensKept DEF AudioInv
    <2>7. PICK y \in Marks, q \in Seq(Events) : q = c.events /\ Reaches(q, y) /\ Sends(y, s.cmd)
      BY <2>2 DEF Sendable, Passes, Channels
    <2>8. Expects(y)'
      <3>1. ASSUME NEW b \in Apps, InTrack(b)'
            PROVE  y.track /\ ~y.end /\ (y.last = 0 \/ y.last + 1 = app'[b].next)
        <4>1. str.owner # 0 /\ app[b].token = str.owner /\ app[b].at \in {"track", "sent"}
          BY <2>1, <2>3, <3>1 DEF InTrack, AudioInv, TokensOK
        <4>2. b = s.cmd
          BY <2>2, <4>1 DEF AudioInv, TokensOK
        <4> QED BY <2>1, <2>7, <4>2 DEF Sends
      <3>2. app[s.cmd].req = "track_begin" => y.track /\ ~y.end /\ y.last = 0
        BY <2>7 DEF Sends
      <3> QED BY <2>1, <2>3, <2>4, <3>1, <3>2 DEF Expects
    <2>9. HistoryFollows'
      BY <2>1, <2>2, <2>7, <2>8, ReachKept DEF SameHistory, Passes
    <2>10. buf.pc = "loop" /\ ~ch'.rebufferDone /\ ~ch'.rebufferRequest
      BY <2>1, <2>2, StreamAlone DEF Passes
    <2> QED BY <2>1, <2>3, <2>5, <2>6, <2>9, <2>10, StreamSaysNothing
  <1> QED BY <1>1, <1>2

(* track_begin and buffer from the app that owns the stream may be sent. *)
LEMMA HandlesSays ==
  ASSUME AudioInv, HandleTrackBegin \/ HandleBuffer
  PROVE  \E s, c : /\ s = [NotTrackEnd EXCEPT !.cmd = Asker] /\ Sendable(s, c)
                   /\ PerformOrWait(s, c) /\ ch.command # << >>
                   /\ \/ app[Asker].req = "track_begin" /\ c = Emit(AfterTake, "TRACK_BEGIN", 0)
                      \/ app[Asker].req = "buffer" /\ c = AfterTake
  <1> DEFINE s == [NotTrackEnd EXCEPT !.cmd = Asker]
  <1>0. /\ str \in Streams /\ str.pc = "loop" /\ IndInv /\ ch.command # << >>
        /\ app[Asker].token = str.owner
        /\ ch.events \in Seq(Events)
    BY DEF HandleTrackBegin, HandleBuffer, Handles, TakesCommand, AudioInv, IndInv, ThreadsOK, Channels
  <1>1. Asker \in Apps /\ Passes(AfterTake) /\ AfterTake.events = ch.events /\ str.owner # 0
    BY <1>0, TakingPasses DEF AudioInv, TokensOK
  <1>2. /\ s \in Streams /\ s.cmd = Asker /\ s.players = str.players /\ s.owner = str.owner
        /\ s.beginNow = str.beginNow /\ ~s.afterTrackEnd
    <2>1. /\ NotTrackEnd \in Streams /\ NotTrackEnd.players = str.players
          /\ NotTrackEnd.owner = str.owner /\ NotTrackEnd.beginNow = str.beginNow
          /\ ~NotTrackEnd.afterTrackEnd
      BY <1>0 DEF NotTrackEnd, Streams
    <2> QED BY <1>1, <2>1 DEF Streams, Maybe
  <1> HIDE DEF s
  <1>3. PICK y \in Marks : Reaches(ch.events, y) /\ Expects(y)
    BY DEF AudioInv, HistoryFollows
  <1>4. CASE HandleTrackBegin
    <2> DEFINE c == Emit(AfterTake, "TRACK_BEGIN", 0)
    <2>1. app[Asker].req = "track_begin" /\ PerformOrWait(s, c)
      BY <1>4 DEF HandleTrackBegin, Handles, s
    <2>2. "TRACK_BEGIN" \in EventNames
      BY DEF EventNames
    <2>3. PICK e \in Events : /\ Passes(c) /\ c.events = Append(ch.events, e)
                              /\ e.event = "TRACK_BEGIN"
      BY <1>1, <2>2, TellPasses
    <2> HIDE DEF c
    <2>4. MayFollow(y, e)
      BY <2>3 DEF MayFollow
    <2>5. PICK z \in Marks : z = After(y, e) /\ Reaches(c.events, z)
      BY <1>0, <1>3, <2>3, <2>4, ReachGrows
    <2>6. Sends(z, Asker)
      <3>1. z = [track |-> TRUE, end |-> FALSE, last |-> 0]
        BY <2>3, <2>5, AfterEvent
      <3> QED BY <3>1 DEF Sends
    <2>7. Sendable(s, c)
      BY <1>0, <1>1, <1>2, <2>1, <2>3, <2>5, <2>6 DEF Sendable, Taken
    <2> QED BY <1>0, <2>1, <2>7 DEF s, c
  <1>5. CASE HandleBuffer
    <2>1. app[Asker].req = "buffer" /\ PerformOrWait(s, AfterTake)
      BY <1>5 DEF HandleBuffer, Handles, s
    <2>2. InTrack(Asker)
      BY <1>0, <1>1, <2>1 DEF InTrack, AudioInv, TokensOK
    <2>3. ~str.beginNow /\ Sends(y, Asker)
      BY <1>0, <1>1, <1>3, <2>1, <2>2 DEF Expects, Sends
    <2>4. Sendable(s, AfterTake)
      BY <1>0, <1>1, <1>2, <1>3, <2>1, <2>3 DEF Sendable, Taken
    <2> QED BY <1>0, <2>1, <2>4 DEF s
  <1> QED BY <1>4, <1>5

(* So they keep the audio in place. *)
LEMMA HandlesAudio ==
  ASSUME AudioInv, IndInv', HandleTrackBegin \/ HandleBuffer
  PROVE  AudioInv'
  <1>1. str.pc = "loop" /\ UNCHANGED <<lost, calls, stops, buf>>
    BY DEF HandleTrackBegin, HandleBuffer, Handles, TakesCommand
  <1>2. PICK s, c : Sendable(s, c) /\ PerformOrWait(s, c)
    BY HandlesSays
  <1> QED BY <1>1, <1>2, PerformOrWaitAudio

(* A track_begin or a buffer that waits may still be sent. *)
LEMMA WaitsSendable ==
  ASSUME AudioInv, str.pc = "wait", NEW s \in Streams, NEW c, Passes(c), c.events = ch.events,
         s.cmd = str.cmd, s.players = str.players, s.owner = str.owner,
         s.beginNow = str.beginNow, s.afterTrackEnd = str.afterTrackEnd
  PROVE  Sendable(s, c)
  <1>0. str.pc = "wait"
    OBVIOUS
  <1>1. /\ str.cmd \in Apps /\ app[str.cmd].req \in {"track_begin", "buffer"} /\ str.owner # 0
        /\ app[str.cmd].token = str.owner
    BY DEF IndInv, CommandWaits, AudioInv, TokensOK
  <1>2. PICK y \in Marks : Reaches(ch.events, y) /\ Expects(y)
    BY DEF AudioInv, HistoryFollows
  <1>3. ~str.beginNow /\ ~str.afterTrackEnd /\ Sends(y, str.cmd)
    <2>1. ~str.beginNow /\ ~str.afterTrackEnd
      BY <1>0, <1>2 DEF Expects
    <2>2. CASE app[str.cmd].req = "track_begin"
      BY <1>0, <1>2, <2>1, <2>2 DEF Expects, Sends
    <2>3. CASE app[str.cmd].req = "buffer"
      <3>1. InTrack(str.cmd)
        BY <1>1, <2>3 DEF InTrack, AudioInv, TokensOK
      <3> QED BY <1>0, <1>1, <1>2, <2>1, <2>3, <3>1 DEF Expects, Sends
    <2> QED BY <1>1, <2>1, <2>2, <2>3
  <1> QED BY <1>1, <1>2, <1>3 DEF Sendable, Taken

(* The wait of a track_begin or a buffer. *)
LEMMA WaitAudio ==
  ASSUME AudioInv, IndInv', WaitPlayers \/ WaitAcquire \/ WaitStates
  PROVE  AudioInv'
  <1>0. /\ str \in Streams /\ str.pc = "wait" /\ IndInv
        /\ UNCHANGED <<lost, calls, buf>> /\ ch.events \in Seq(Events)
    BY DEF WaitPlayers, WaitAcquire, WaitStates, StreamAt, AudioInv, IndInv, ThreadsOK, Channels
  <1>1. /\ str.cmd \in Apps /\ app[str.cmd].req \in {"track_begin", "buffer"} /\ str.owner # 0
        /\ app[str.cmd].token = str.owner
    BY <1>0 DEF IndInv, CommandWaits, AudioInv, TokensOK
  <1>4. ASSUME NEW s \in Streams, NEW c, Passes(c), c.events = ch.events, s.cmd = str.cmd,
               s.players = str.players, s.owner = str.owner, s.beginNow = str.beginNow,
               s.afterTrackEnd = str.afterTrackEnd
        PROVE  Sendable(s, c)
    BY <1>0, <1>4, WaitsSendable
  <1>5. ASSUME app' = Reply(str.cmd, "ok"), str'.owner = str.owner PROVE AppsKept
    BY <1>1, <1>5, ReplyKeeps
  <1>6. CASE WaitPlayers
    <2> DEFINE new == ch.streamPlayers
               c == [ch EXCEPT !.streamPlayers = None]
               s == [str EXCEPT !.new = new]
    <2>1. /\ new # None
          /\ \/ /\ app' = Reply(str.cmd, "ok") /\ WaitForAcquire(str, c)
                /\ UNCHANGED <<dev, failed, view>>
             \/ PerformOrWait(s, c) /\ UNCHANGED stops
      BY <1>6 DEF WaitPlayers
    <2>2. new \in Tables /\ Passes(c) /\ c.events = ch.events
      BY <1>0, <2>1, TakingPasses
    <2> HIDE DEF new, c
    <2>3. CASE /\ app' = Reply(str.cmd, "ok") /\ WaitForAcquire(str, c)
               /\ UNCHANGED <<dev, failed, view>>
      <3>1. str'.owner = str.owner
        BY <1>0, <2>3 DEF WaitForAcquire, Streams
      <3> QED BY <1>0, <1>5, <2>2, <2>3, <3>1, WaitForAcquireAudio
    <2>4. CASE PerformOrWait(s, c) /\ UNCHANGED stops
      <3>1. /\ s \in Streams /\ s.cmd = str.cmd /\ s.players = str.players
            /\ s.owner = str.owner /\ s.beginNow = str.beginNow
            /\ s.afterTrackEnd = str.afterTrackEnd
        <4>1. new \in Maybe(Tables)
          BY <2>2 DEF Maybe
        <4> QED BY <1>0, <4>1 DEF Streams
      <3> HIDE DEF s
      <3>2. Sendable(s, c)
        BY <1>4, <2>2, <3>1
      <3> QED BY <1>0, <2>4, <3>2, PerformOrWaitAudio
    <2> QED BY <2>1, <2>3, <2>4
  <1>7. CASE WaitAcquire
    <2> DEFINE s == IF str.new = None THEN str ELSE Adopt(str, str.new)
               ps == IF s.needRebuffer THEN s.rebufferPlayers ELSE s.players
               t == [s EXCEPT !.players = ps]
               a == Head(ch.acquire)
               c == [ch EXCEPT !.acquire = Tail(@)]
    <2>1. /\ ch.acquire # << >> /\ app' = Reply(str.cmd, "ok") /\ BeginAcquire(a, t, c)
          /\ UNCHANGED <<failed, dev, view>>
      BY <1>7 DEF WaitAcquire
    <2>2. a \in Apps /\ Passes(c) /\ c.events = ch.events
      BY <1>0, <2>1, TakingPasses
    <2>3. s \in Streams /\ s.owner = str.owner
      <3>1. CASE str.new = None
        BY <1>0, <3>1
      <3>2. CASE str.new # None
        <4>1. str.new \in Tables
          BY <1>0, <3>2 DEF Streams, Maybe
        <4> QED BY <1>0, <3>2, <4>1, AdoptSays
      <3> QED BY <3>1, <3>2
    <2> HIDE DEF s, a, c
    <2>4. t \in Streams /\ t.owner = str.owner
      <3>1. ps \in Tables
        BY <2>3 DEF Streams
      <3> HIDE DEF ps
      <3> QED BY <2>3, <3>1 DEF Streams
    <2> HIDE DEF t
    <2>5. str'.owner = str.owner
      BY <2>1, <2>4 DEF BeginAcquire, Streams
    <2> QED BY <1>0, <1>5, <2>1, <2>2, <2>4, <2>5, BeginAcquireAudio
  <1>8. CASE WaitStates
    <2> DEFINE c == [ch EXCEPT !.strStates = FALSE]
    <2>1. PerformOrWait(str, c) /\ UNCHANGED stops
      BY <1>8 DEF WaitStates
    <2>2. Passes(c) /\ c.events = ch.events
      BY <1>0, TakingPasses
    <2> HIDE DEF c
    <2>3. Sendable(str, c)
      BY <1>0, <1>4, <2>2
    <2> QED BY <1>0, <2>1, <2>3, PerformOrWaitAudio
  <1> QED BY <1>6, <1>7, <1>8
-----------------------------------------------------------------------------
(* flush: the players forget what they have, and so does the history. *)
LEMMA FlushAudio ==
  ASSUME AudioInv, IndInv', HandleFlush
  PROVE  AudioInv'
  <1> DEFINE k == str.cookie + 1
             d == [AfterTake EXCEPT !.cookie = k]
             ps == str.players
  <1>0. /\ str \in Streams /\ str.pc = "loop" /\ IndInv /\ ch.command # << >>
        /\ UNCHANGED <<lost, view, calls, stops, buf>> /\ app[Asker].req = "flush"
        /\ ch.events \in Seq(Events) /\ ps \in Tables /\ dev \in [Players -> Devices]
    BY DEF HandleFlush, Handles, TakesCommand, AudioInv, IndInv, ThreadsOK, Channels, Streams, DevicesOK
  <1>1. /\ app' = Reply(Asker, "ok") /\ str' = [NotTrackEnd EXCEPT !.cookie = @ + 1]
        /\ ch' = Emit(d, "FLUSH", 0)
        /\ dev' = [p \in Players |-> IF p \in Wrote(ps) THEN GetFlush(dev[p], k) ELSE dev[p]]
        /\ failed' = failed \cup (ps \cap lost)
    BY DEF HandleFlush, WriteTo
  <1>2. k \in Nat /\ Passes(AfterTake) /\ AfterTake.events = ch.events
    BY <1>0, TakingPasses DEF Streams
  <1>3. /\ str'.pc = "loop" /\ str'.owner = str.owner /\ str'.beginNow = str.beginNow
        /\ ~str'.afterTrackEnd /\ str'.players = ps
    <2> DEFINE s == NotTrackEnd
               j == s.cookie + 1
    <2>1. /\ s \in Streams /\ s.pc = "loop" /\ s.owner = str.owner /\ ~s.afterTrackEnd
          /\ s.beginNow = str.beginNow /\ s.players = ps
      BY <1>0 DEF NotTrackEnd, Streams
    <2>2. str' = [s EXCEPT !.cookie = j]
      BY <1>1
    <2> HIDE DEF s, j
    <2> QED BY <2>1, <2>2 DEF Streams
  <1> HIDE DEF k
  <1>4. Passes(d) /\ d.events = ch.events
    <2>1. k \in Maybe(Nat)
      BY <1>2 DEF Maybe
    <2> QED BY <1>2, <2>1 DEF Passes, Channels
  <1> HIDE DEF d, ps
  <1>5. PICK e \in Events : e.event = "FLUSH" /\ Passes(ch') /\ ch'.events = Append(ch.events, e)
    <2>1. "FLUSH" \in EventNames
      BY DEF EventNames
    <2> QED BY <1>1, <1>4, <2>1, TellPasses
  <1>6. AppsKept /\ NoNewTrack
    BY <1>0, <1>1, <1>3, ReplyKeeps
  <1>7. buf.pc = "loop" /\ ~ch'.rebufferDone /\ ~ch'.rebufferRequest
    BY <1>0, <1>5, StreamAlone DEF Passes
  <1>8. TokensOK'
    BY <1>0, <1>3, <1>6, TokensKept DEF AudioInv
  <1>9. HistoryFollows'
    <2>1. ASSUME NEW m \in Marks, Expects(m) PROVE MayFollow(m, e) /\ Expects(After(m, e))'
      <3>1. MayFollow(m, e) /\ After(m, e) = [m EXCEPT !.last = 0]
        BY <1>5, AfterEvent DEF MayFollow
      <3>2. After(m, e).last = 0 /\ After(m, e).track = m.track /\ After(m, e).end = m.end
        BY <3>1 DEF Marks
      <3>3. Expects(m)'
        BY <1>0, <1>3, <1>6, <2>1, ExpectsInLoop
      <3> QED BY <1>3, <3>1, <3>2, <3>3 DEF Expects
    <2> QED BY <1>0, <1>5, <2>1, HistoryGrown DEF AudioInv, SameHistory, Passes
  <1>10. \A p \in Players : /\ dev'[p].bad = dev[p].bad /\ dev'[p].st = dev[p].st
                            /\ dev'[p].token = dev[p].token /\ dev'[p].last \in {0, dev[p].last}
                            /\ Sure(view[p].canBegin, dev'[p])
    <2>1. \A p \in Players : dev[p] \in Devices /\ Sure(view[p].canBegin, dev[p])
      BY <1>0 DEF AudioInv, AudioOK, BeginsKnown, Sure
    <2>2. \A p \in Players : /\ GetFlush(dev[p], k).st = dev[p].st
                             /\ GetFlush(dev[p], k).bad = dev[p].bad
                             /\ GetFlush(dev[p], k).token = dev[p].token
                             /\ GetFlush(dev[p], k).last = 0
                             /\ Sure(view[p].canBegin, GetFlush(dev[p], k))
      BY <1>2, <2>1, CommandEffects, SureAfter
    <2>3. \A p \in Players : dev'[p] = IF p \in Wrote(ps) THEN GetFlush(dev[p], k) ELSE dev[p]
      BY <1>1
    <2> QED BY <2>1, <2>2, <2>3
  <1>11. BeginsKnown'
    BY <1>0, <1>10 DEF BeginsKnown, Sure, CanBegin
  <1>12. InPlace'
    BY <1>0, <1>10 DEF AudioInv, AudioOK, InPlace, AudioIsInPlace
  <1>13. ASSUME ~buf.overtook, NEW p \in str'.players, Fine(p)' PROVE InStep(p)'
    <2>1. p \in str.players /\ p \in Players /\ Fine(p)
      BY <1>0, <1>1, <1>3, <1>13 DEF Fine, Healthy, Tables, ps
    <2>2. InStep(p)
      BY <1>0, <1>13, <2>1 DEF AudioInv, AudioOK, StreamKnown
    <2> QED BY <1>3, <1>6, <1>10, <2>1, <2>2 DEF InStep, NoNewTrack
  <1>14. StartsKnown'
    BY <1>3 DEF StartsKnown
  <1>15. CallsOK' /\ StopsOK'
    BY <1>0, <1>1, StopsKept DEF AudioInv
  <1> QED BY <1>0, <1>3, <1>7, <1>8, <1>9, <1>11, <1>12, <1>13, <1>14, <1>15, StreamEnds

(* track_end: the players are in the track, and a rebuffer may begin. *)
LEMMA TrackEndAudio ==
  ASSUME AudioInv, IndInv', HandleTrackEnd
  PROVE  AudioInv'
  <1> DEFINE s == [str EXCEPT !.afterTrackEnd = TRUE]
             c == Emit(AfterTake, "TRACK_END", 0)
             ps == str.players
  <1>0. /\ str \in Streams /\ str.pc = "loop" /\ IndInv /\ ch.command # << >>
        /\ UNCHANGED <<lost, view, calls, stops, buf>>
        /\ app[Asker].req = "track_end" /\ app[Asker].token = str.owner
        /\ ch.events \in Seq(Events) /\ ps \in Tables /\ dev \in [Players -> Devices]
        /\ app \in [Apps -> Sessions] /\ str.owner \in Nat
    BY DEF HandleTrackEnd, Handles, TakesCommand, AudioInv, IndInv, ThreadsOK, Channels, Streams,
           DevicesOK, SessionsOK
  <1>1. /\ app' = Reply(Asker, "ok")
        /\ StartRebuffer(s, c) \/ (str' = s /\ ch' = c)
        /\ dev' = [p \in Players |-> IF p \in Wrote(ps) THEN GetEnd(dev[p]) ELSE dev[p]]
        /\ failed' = failed \cup (ps \cap lost)
    BY DEF HandleTrackEnd, WriteTo
  <1>2. /\ Asker \in Apps /\ str.owner # 0 /\ InTrack(Asker)
        /\ Passes(AfterTake) /\ AfterTake.events = ch.events
    BY <1>0, TakingPasses DEF AudioInv, TokensOK, InTrack
  <1>3. /\ s \in Streams /\ s.owner = str.owner /\ s.beginNow = str.beginNow /\ s.afterTrackEnd
        /\ s.players = ps /\ s.pc = "loop"
    BY <1>0 DEF Streams
  <1>4. PICK e \in Events : e.event = "TRACK_END" /\ Passes(c) /\ c.events = Append(ch.events, e)
    <2>1. "TRACK_END" \in EventNames
      BY DEF EventNames
    <2> QED BY <1>2, <2>1, TellPasses
  <1> HIDE DEF s, c
  <1>5. PICK y \in Marks : Reaches(ch.events, y) /\ Expects(y)
    BY DEF AudioInv, HistoryFollows
  <1>6. ~str.beginNow
    BY <1>0, <1>2, <1>5 DEF Expects
  <1>7. /\ str'.pc \in {"loop", "rebuffer"} /\ str'.owner = str.owner /\ ~str'.beginNow
        /\ str'.pc = "loop" => str'.players = ps
        /\ ch'.rebufferRequest => str'.pc = "rebuffer"
        /\ ch'.bufEvent = ch.bufEvent /\ ~ch'.rebufferDone
    <2>1. ~ch.rebufferDone /\ ~ch.rebufferRequest
      BY <1>0, StreamAlone
    <2>2. CASE str' = s /\ ch' = c
      BY <1>3, <1>4, <1>6, <2>1, <2>2 DEF Passes
    <2>3. CASE StartRebuffer(s, c)
      BY <1>3, <1>4, <1>6, <2>1, <2>3, StartRebufferSays
    <2> QED BY <1>1, <2>2, <2>3
  <1>8. AppsKept
    BY <1>0, <1>1, <1>7, ReplyKeeps
  <1>9. \A b \in Apps : ~InTrack(b)'
    <2>1. app'[Asker].at = "begin"
      <3>1. app'[Asker] = Replied(app[Asker], "ok") /\ app[Asker] \in Sessions
        BY <1>0, <1>1, <1>2 DEF Reply
      <3> QED BY <1>0, <3>1, RepliedSays
    <2>2. \A b \in Apps : app'[b].token = str.owner => b = Asker
      BY <1>0, <1>2, <1>8 DEF AppsKept, AudioInv, TokensOK
    <2> QED BY <1>7, <2>1, <2>2 DEF InTrack
  <1>10. \A m \in Marks : Expects(m)'
    BY <1>7, <1>9 DEF Expects
  <1>11. HistoryFollows'
    <2>1. MayFollow(y, e)
      BY <1>4 DEF MayFollow
    <2>2. PICK z \in Marks, q \in Seq(Events) : q = c.events /\ Reaches(q, z)
      BY <1>0, <1>4, <1>5, <2>1, ReachGrows
    <2>3. SameHistory
      BY <1>0, <1>7 DEF SameHistory
    <2>4. CASE str' = s /\ ch' = c
      BY <1>10, <2>2, <2>3, <2>4, ReachKept
    <2>5. CASE StartRebuffer(s, c)
      <3>1. PICK f \in Events : f.event = "REBUFFER" /\ ch'.events = Append(q, f)
        BY <1>3, <1>4, <2>2, <2>5, StartRebufferSays
      <3>2. MayFollow(z, f)
        BY <3>1 DEF MayFollow
      <3>3. PICK x \in Marks, r \in Seq(Events) : r = Append(q, f) /\ Reaches(r, x)
        BY <2>2, <3>2, ReachGrows
      <3> QED BY <1>10, <2>3, <3>1, <3>3, ReachKept
    <2> QED BY <1>1, <2>4, <2>5
  <1>12. TokensOK'
    BY <1>0, <1>7, <1>8, TokensKept DEF AudioInv
  <1>13. \A p \in Players : /\ p \in Wrote(ps) => dev'[p] = GetEnd(dev[p])
                            /\ p \notin Wrote(ps) => dev'[p] = dev[p]
                            /\ dev[p] \in Devices /\ Sure(view[p].canBegin, dev[p])
    BY <1>0, <1>1 DEF AudioInv, AudioOK, BeginsKnown, Sure
  <1>14. BeginsKnown'
    <2>1. \A p \in Players : Sure(view[p].canBegin, GetEnd(dev[p]))
      BY <1>0, <1>13, SureAfter
    <2>2. \A p \in Players : Sure(view[p].canBegin, dev'[p])
      BY <1>13, <2>1
    <2> QED BY <1>0, <2>2 DEF BeginsKnown, Sure, CanBegin
  <1>15. \A p \in ps : ~buf.overtook /\ Fine(p) => InStep(p)
    BY <1>0 DEF AudioInv, AudioOK, StreamKnown
  <1>16. InPlace'
    <2>1. ASSUME NEW p \in Players, dev'[p].bad, ~buf.overtook PROVE p \in buf.dropped
      <3>1. dev[p].bad => p \in buf.dropped
        BY <2>1 DEF AudioInv, AudioOK, InPlace, AudioIsInPlace
      <3>2. CASE p \notin Wrote(ps)
        BY <1>13, <2>1, <3>1, <3>2
      <3>3. CASE p \in Wrote(ps)
        <4>1. p \notin buf.dropped => dev[p].st = "streaming"
          BY <1>2, <1>15, <2>1, <3>3 DEF Wrote, Fine, Healthy, InStep
        <4>2. dev[p].bad \/ dev[p].st # "streaming"
          BY <1>0, <1>13, <2>1, <3>3, CommandFaults
        <4> QED BY <3>1, <4>1, <4>2
      <3> QED BY <3>2, <3>3
    <2> QED BY <1>0, <2>1 DEF InPlace, AudioIsInPlace
  <1>17. ASSUME ~buf.overtook, str'.pc \in {"loop", "wait"}, NEW p \in str'.players, Fine(p)'
         PROVE  InStep(p)'
    <2>1. p \in Players /\ Fine(p) /\ p \in Wrote(ps)
      BY <1>0, <1>1, <1>7, <1>17 DEF Fine, Healthy, Tables, Wrote
    <2>2. dev'[p].st = "ended"
      BY <1>0, <1>13, <2>1, CommandEffects
    <2> QED BY <1>7, <1>9, <2>2 DEF InStep
  <1>18. StartsKnown'
    BY <1>7 DEF StartsKnown
  <1>19. CallsOK' /\ StopsOK'
    BY <1>0, <1>1, <1>7, StopsKept DEF AudioInv
  <1>20. buf.pc = "loop"
    BY <1>0, StreamAlone
  <1> QED BY <1>0, <1>7, <1>11, <1>12, <1>14, <1>16, <1>17, <1>18, <1>19, <1>20, StreamEnds

(* A command during a rebuffer, and the end of the wait for it. *)
LEMMA RebufferAnswers ==
  ASSUME AudioInv, IndInv', RebufferCommand \/ RebufferDone
  PROVE  AudioInv'
  <1>0. /\ str \in Streams /\ str.pc = "rebuffer" /\ IndInv /\ Runs(StreamThread)
        /\ UNCHANGED <<lost, failed, dev, view, calls, stops, buf>>
        /\ ch \in Channels /\ ch.events \in Seq(Events)
    BY DEF RebufferCommand, RebufferDone, StreamAt, AudioInv, IndInv, ThreadsOK, Channels
  <1>1. CASE RebufferCommand
    <2>1. /\ ~ch.rebufferDone
          /\ \/ app[Asker].req = "can" /\ app' = Reply(Asker, "block") /\ ch' = AfterTake /\ str' = str
             \/ /\ ch' = [ch EXCEPT !.command = Append(Tail(@), Asker)]
                /\ str' = [str EXCEPT !.listen = FALSE] /\ app' = app
      BY <1>1 DEF RebufferCommand
    <2>2. Passes(ch') /\ ch'.events = ch.events
      BY <1>0, <2>1, StreamRuns, TakingPasses
    <2>3. /\ SameStream /\ SameSignals /\ SameHistory /\ str'.pc = "rebuffer"
      BY <1>0, <2>1, <2>2 DEF SameStream, SameSignals, SameHistory, Passes, Streams
    <2>4. AppsKept /\ NoNewTrack
      BY <2>1, <2>3, ReplyKeeps, AppsSame DEF AudioInv, SameStream
    <2>5. TokensOK' /\ HandshakeOK'
      BY <1>0, <2>3, <2>4, TokensKept, HandshakeKept DEF AudioInv, SameStream
    <2>6. CallsOK' /\ StopsOK'
      BY <1>0, <2>3, StopsKept DEF AudioInv
    <2>7. \A m \in Marks : Expects(m) => Expects(m)'
      BY <1>0, <2>3, <2>4, ExpectsKept
    <2>8. HistoryFollows' /\ RefillFollows'
      BY <1>0, <2>2, <2>3, <2>4, <2>7, HistoryKept, RefillKept DEF AudioInv
    <2>9. AudioOK'
      BY <1>0, <2>3, <2>4, AudioKept, SoundSame DEF AudioInv, SameStream, SameSignals
    <2> QED BY <2>5, <2>6, <2>8, <2>9 DEF AudioInv
  <1>2. CASE RebufferDone
    <2> DEFINE c == [ch EXCEPT !.rebufferDone = FALSE]
    <2>1. /\ ch.rebufferDone /\ app' = app
          /\ str' = [str EXCEPT !.pc = "loop", !.needRebuffer = FALSE, !.rebufferPlayers = {},
                                !.listen = FALSE]
          /\ ch' = IF str.afterTrackEnd THEN Emit(c, "TRACK_END", 0) ELSE c
      BY <1>2 DEF RebufferDone
    <2>2. /\ c \in Channels /\ c.events = ch.events /\ c.bufEvent = ch.bufEvent
          /\ ~c.rebufferDone /\ c.rebufferRequest = ch.rebufferRequest
      BY <1>0 DEF Channels
    <2>3. buf.pc = "loop" /\ ~ch.rebufferRequest
      BY <2>1, StreamAlone
    <2> HIDE DEF c
    <2>4. /\ str'.pc = "loop" /\ str'.owner = str.owner /\ str'.players = str.players
          /\ str'.beginNow = str.beginNow /\ str'.afterTrackEnd = str.afterTrackEnd
      BY <1>0, <2>1 DEF Streams
    <2>5. AppsKept /\ NoNewTrack
      BY <2>1, <2>4, AppsSame DEF AudioInv
    <2>6. TokensOK'
      BY <1>0, <2>4, <2>5, TokensKept DEF AudioInv
    <2>7. \A m \in Marks : Expects(m) => Expects(m)'
      BY <1>0, <2>4, <2>5 DEF Expects, NoNewTrack
    <2>8. CASE ~str.afterTrackEnd
      <3>1. HistoryFollows'
        BY <1>0, <2>1, <2>2, <2>7, <2>8, HistoryKept DEF AudioInv, SameHistory
      <3>2. ~ch'.rebufferDone /\ ~ch'.rebufferRequest
        BY <2>1, <2>2, <2>3, <2>8
      <3> QED BY <1>0, <2>1, <2>3, <2>4, <2>5, <2>6, <3>1, <3>2, StreamSaysNothing
    <2>9. CASE str.afterTrackEnd
      <3>1. PICK e \in Events : e = Event("TRACK_END", 0)
        <4>1. Passes(ch) /\ "TRACK_END" \in EventNames
          BY <1>0, TakingPasses DEF EventNames
        <4> QED BY <4>1, TellPasses
      <3>2. PICK q \in Seq(Events) : q = Append(c.events, e)
        BY <1>0, <2>2, AppendProperties
      <3>3. ch' = [c EXCEPT !.events = q]
        BY <2>1, <2>9, <3>1, <3>2 DEF Emit
      <3>4. /\ ch'.events = Append(ch.events, e) /\ ch'.bufEvent = ch.bufEvent
            /\ ~ch'.rebufferDone /\ ~ch'.rebufferRequest
        <4>1. /\ ch'.events = q /\ ch'.bufEvent = c.bufEvent /\ ch'.rebufferDone = c.rebufferDone
              /\ ch'.rebufferRequest = c.rebufferRequest
          BY <2>2, <3>3 DEF Channels
        <4> QED BY <2>2, <2>3, <3>2, <4>1
      <3>5. ASSUME NEW m \in Marks, Expects(m) PROVE MayFollow(m, e) /\ Expects(After(m, e))'
        <4>1. e.event = "TRACK_END"
          BY <3>1 DEF Event
        <4>2. MayFollow(m, e) /\ After(m, e) = [m EXCEPT !.end = TRUE]
          BY <4>1, AfterEvent DEF MayFollow
        <4>3. After(m, e).track = m.track
          BY <4>2 DEF Marks
        <4>4. \A b \in Apps : ~InTrack(b)'
          BY <1>0, <2>5, <2>9, <3>5 DEF Expects, NoNewTrack
        <4>5. str'.beginNow => ~m.track
          BY <1>0, <2>4, <3>5 DEF Expects
        <4> QED BY <2>4, <4>2, <4>3, <4>4, <4>5 DEF Expects
      <3>6. HistoryFollows'
        BY <1>0, <3>4, <3>5, HistoryGrown DEF AudioInv, SameHistory
      <3> QED BY <1>0, <2>1, <2>3, <2>4, <2>5, <2>6, <3>4, <3>6, StreamSaysNothing
    <2> QED BY <2>8, <2>9
  <1> QED BY <1>1, <1>2

(* Every step of stream_thread. *)
LEMMA StreamAudio ==
  ASSUME AudioInv, IndInv', StreamStep
  PROVE  AudioInv'
  BY WaitingAudio, AcquireStopsAudio, LoopAudio, HandlesAudio, WaitAudio, FlushAudio, TrackEndAudio,
     RebufferAnswers DEF StreamStep
-----------------------------------------------------------------------------
(* What is left of the history is in order and ends where it did. *)
LEMMA LastOfKeeps ==
  ASSUME NEW q \in Seq(Nat), NEW k \in Nat, InOrder(q)
  PROVE  /\ LastOf(q, k) \in Seq(Nat) /\ InOrder(LastOf(q, k))
         /\ LastOf(q, k) # << >> =>
              q # << >> /\ LastOf(q, k)[Len(LastOf(q, k))] = q[Len(q)]
  <1>1. CASE Len(q) <= k
    BY <1>1 DEF LastOf
  <1>2. CASE ~(Len(q) <= k)
    <2> DEFINE n == Len(q)
               m == n - k + 1
               r == SubSeq(q, m, n)
    <2>1. /\ n \in Nat /\ m \in Nat /\ m >= 2 /\ n - m + 1 = k /\ DOMAIN q = 1 .. n
          /\ \A i \in m .. n : i \in 1 .. n
      BY <1>2, LenProperties
    <2>2. LastOf(q, k) = r
      BY <1>2 DEF LastOf
    <2>3. \A i \in m .. n : q[i] \in Nat
      BY <2>1, ElementOfSeq
    <2> HIDE DEF m
    <2>4. r \in Seq(Nat) /\ Len(r) = IF m <= n THEN n - m + 1 ELSE 0
      BY <2>1, <2>3, SubSeqProperties
    <2>5. \A i \in 1 .. (n - m + 1) : r[i] = q[m + i - 1]
      BY <2>1, <2>3, SubSeqProperties
    <2> HIDE DEF n, r
    <2>6. Len(r) = k /\ DOMAIN r = 1 .. k
      <3>1. Len(r) = k
        BY <2>1, <2>4
      <3> QED BY <2>4, <3>1, LenProperties
    <2>7. \A i \in 1 .. k : r[i] = q[m + i - 1] /\ m + i - 1 \in 1 .. n
      BY <2>1, <2>5
    <2>8. InOrder(r)
      <3> SUFFICES ASSUME NEW i \in DOMAIN r, NEW j \in DOMAIN r, j = i + 1
                   PROVE  r[j] = r[i] + 1
        BY DEF InOrder
      <3>1. PICK u \in 1 .. n, v \in 1 .. n : u = m + i - 1 /\ v = m + j - 1
        BY <2>6, <2>7
      <3>2. v = u + 1
        BY <2>1, <2>6, <3>1
      <3>3. q[v] = q[u] + 1
        BY <2>1, <3>2 DEF InOrder
      <3> QED BY <2>6, <2>7, <3>1, <3>3
    <2>9. r # << >> => q # << >> /\ r[Len(r)] = q[n]
      <3> SUFFICES ASSUME r # << >> PROVE q # << >> /\ r[Len(r)] = q[n]
        OBVIOUS
      <3>1. k # 0
        BY <2>4, <2>6, EmptySeq
      <3>2. k \in 1 .. k /\ m + k - 1 = n /\ n # 0
        BY <2>1, <3>1
      <3>3. r[k] = q[n]
        BY <2>7, <3>2
      <3>4. q # << >>
        BY <3>2, EmptySeq DEF n
      <3> QED BY <2>6, <3>3, <3>4
    <2> QED BY <2>2, <2>4, <2>8, <2>9 DEF n
  <1> QED BY <1>1, <1>2

(* A chunk more. *)
LEMMA AppendKeeps ==
  ASSUME NEW q \in Seq(Nat), NEW n \in Nat, InOrder(q), q # << >> => n = q[Len(q)] + 1
  PROVE  InOrder(Append(q, n)) /\ Append(q, n)[Len(Append(q, n))] = n
  <1> DEFINE r == Append(q, n)
             k == Len(q)
  <1>1. /\ k \in Nat /\ Len(r) = k + 1 /\ r[k + 1] = n /\ DOMAIN q = 1 .. k
        /\ DOMAIN r = 1 .. (k + 1) /\ \A i \in 1 .. k : r[i] = q[i]
    BY AppendProperties, LenProperties
  <1>2. k # 0 => q # << >>
    BY EmptySeq
  <1> HIDE DEF r, k
  <1>3. ASSUME NEW i \in 1 .. (k + 1), NEW j \in 1 .. (k + 1), j = i + 1
        PROVE  r[j] = r[i] + 1
    <2>1. i \in 1 .. k
      BY <1>1, <1>3
    <2>2. CASE j \in 1 .. k
      BY <1>1, <1>3, <2>1, <2>2 DEF InOrder
    <2>3. CASE j \notin 1 .. k
      <3>1. i = k /\ j = k + 1 /\ k # 0
        BY <1>1, <1>3, <2>1, <2>3
      <3> QED BY <1>1, <1>2, <2>1, <3>1 DEF k
    <2> QED BY <2>2, <2>3
  <1> QED BY <1>1, <1>3 DEF InOrder, r

(* The history after an event agrees with the mark after it. *)
LEMMA RememberSays ==
  ASSUME NEW b \in Histories, NEW w \in Marks, Remembers(b, w), NEW e \in Events, MayFollow(w, e)
  PROVE  /\ Remembers(Remember(b, e), After(w, e))
         /\ Remember(b, e).pc = b.pc /\ Remember(b, e).players = b.players
         /\ Remember(b, e).dropped = b.dropped /\ Remember(b, e).overtook = b.overtook
  <1>0. e.n \in Nat /\ e.event \in EventNames /\ b.buffers \in Seq(Nat)
    BY ConstantsAssumption DEF Events, EventNames, Histories
  <1>1. InOrder(<< >>)
    BY DEF InOrder
  <1>2. CASE e.event = "ACQUIRE_STARTED"
    <2>1. Remember(b, e) = [b EXCEPT !.track = FALSE, !.buffers = << >>, !.trackEnd = FALSE]
      BY <1>2 DEF Remember
    <2>2. After(w, e) = [track |-> FALSE, end |-> FALSE, last |-> 0]
      BY <1>2, AfterEvent
    <2> QED BY <1>1, <2>1, <2>2 DEF Remembers, Histories
  <1>3. CASE e.event = "TRACK_BEGIN"
    <2>1. Remember(b, e) = [b EXCEPT !.track = TRUE, !.buffers = << >>, !.trackEnd = FALSE]
      BY <1>3 DEF Remember
    <2>2. After(w, e) = [track |-> TRUE, end |-> FALSE, last |-> 0]
      BY <1>3, AfterEvent
    <2> QED BY <1>1, <2>1, <2>2 DEF Remembers, Histories
  <1>4. CASE e.event = "BUFFER"
    <2> DEFINE q == Append(b.buffers, e.n)
    <2>1. Remember(b, e) = [b EXCEPT !.buffers = q]
      BY <1>4 DEF Remember
    <2>2. After(w, e) = [w EXCEPT !.last = e.n]
      BY <1>4, AfterEvent
    <2>3. w.track /\ e.n # 0 /\ (w.last = 0 \/ e.n = w.last + 1)
      BY <1>4 DEF MayFollow
    <2>4. InOrder(q) /\ q[Len(q)] = e.n
      <3>1. InOrder(b.buffers) /\ (b.buffers # << >> => e.n = b.buffers[Len(b.buffers)] + 1)
        BY <2>3 DEF Remembers
      <3> QED BY <1>0, <3>1, AppendKeeps
    <2> HIDE DEF q
    <2> QED BY <2>1, <2>2, <2>3, <2>4 DEF Remembers, Histories, Marks
  <1>5. CASE e.event = "FLUSH"
    <2>1. Remember(b, e) = [b EXCEPT !.buffers = << >>]
      BY <1>5 DEF Remember
    <2>2. After(w, e) = [w EXCEPT !.last = 0]
      BY <1>5, AfterEvent
    <2> QED BY <1>1, <2>1, <2>2 DEF Remembers, Histories, Marks
  <1>6. CASE e.event = "TRACK_END"
    <2>1. Remember(b, e) = [b EXCEPT !.trackEnd = TRUE]
      BY <1>6 DEF Remember
    <2>2. After(w, e) = [w EXCEPT !.end = TRUE]
      BY <1>6, AfterEvent
    <2> QED BY <2>1, <2>2 DEF Remembers, Histories, Marks
  <1>7. CASE e.event \in {"WAITING", "ACQUIRE_DONE", "REBUFFER"}
    <2>1. Remember(b, e) = b
      BY <1>7 DEF Remember
    <2>2. After(w, e) = w
      BY <1>7, AfterEvent
    <2> QED BY <2>1, <2>2
  <1> QED BY <1>0, <1>2, <1>3, <1>4, <1>5, <1>6, <1>7 DEF EventNames
-----------------------------------------------------------------------------
(* What is left to show of a step of buffer_thread's loop. *)
LEMMA BufferStays ==
  ASSUME AudioInv, IndInv', UNCHANGED <<lost, failed, dev, view, calls, stops, app, str>>,
         buf.pc = "loop", buf'.pc = "loop", buf'.overtook = buf.overtook,
         buf'.dropped = buf.dropped, SameSignals, HistoryFollows'
  PROVE  AudioInv'
  <1>1. AppsKept /\ NoNewTrack
    BY AppsSame DEF AudioInv
  <1>2. TokensOK'
    BY <1>1, TokensKept DEF AudioInv, TokensOK
  <1>3. HandshakeOK'
    BY HandshakeKept DEF AudioInv
  <1>4. CallsOK' /\ StopsOK'
    BY StopsKept DEF AudioInv
  <1>5. RefillFollows'
    BY DEF RefillFollows
  <1>6. AudioOK'
    BY <1>1, AudioKept, SoundSame DEF AudioInv, SameSignals
  <1> QED BY <1>2, <1>3, <1>4, <1>5, <1>6 DEF AudioInv

(* buffer_thread's table, and what it forgets of the history. *)
LEMMA BufferForgets ==
  ASSUME AudioInv, IndInv', BufferPlayers \/ BufferStates
  PROVE  AudioInv'
  <1>0. /\ buf \in Histories /\ ch \in Channels /\ buf.pc = "loop"
        /\ buf.buffers \in Seq(Nat)
        /\ UNCHANGED <<lost, failed, dev, view, calls, stops, app, str>>
    BY DEF BufferPlayers, BufferStates, BufferAt, AudioInv, IndInv, ThreadsOK, Histories
  <1>1. /\ ch'.events = ch.events /\ ch'.bufEvent = ch.bufEvent /\ SameSignals
    BY <1>0 DEF BufferPlayers, BufferStates, Channels, SameSignals
  <1>2. /\ buf'.pc = "loop" /\ buf'.overtook = buf.overtook /\ buf'.dropped = buf.dropped
        /\ buf'.track = buf.track /\ buf'.trackEnd = buf.trackEnd
        /\ buf'.buffers = buf.buffers \/ \E k \in Nat : buf'.buffers = LastOf(buf.buffers, k)
    <2>1. CASE BufferPlayers
      BY <1>0, <2>1 DEF BufferPlayers, Histories
    <2>2. CASE buf' = buf
      BY <1>0, <2>2
    <2>3. ASSUME NEW p \in buf.streaming, NEW k \in Amounts(view[p].free),
                 buf' = [buf EXCEPT !.buffers = LastOf(@, k)]
          PROVE  /\ buf'.pc = "loop" /\ buf'.overtook = buf.overtook
                 /\ buf'.dropped = buf.dropped
                 /\ buf'.track = buf.track /\ buf'.trackEnd = buf.trackEnd
                 /\ \E i \in Nat : buf'.buffers = LastOf(buf.buffers, i)
      <3> DEFINE q == LastOf(buf.buffers, k)
      <3>3. k \in Nat
        BY AmountsType
      <3>4. buf' = [buf EXCEPT !.buffers = q]
        BY <2>3
      <3> HIDE DEF q
      <3>5. /\ buf'.pc = "loop" /\ buf'.overtook = buf.overtook
            /\ buf'.dropped = buf.dropped /\ buf'.buffers = q
            /\ buf'.track = buf.track /\ buf'.trackEnd = buf.trackEnd
        BY <1>0, <3>4 DEF Histories
      <3> QED BY <3>3, <3>5 DEF q
    <2> QED BY <2>1, <2>2, <2>3 DEF BufferStates
  <1>3. ASSUME NEW w \in Marks, Remembers(buf, w) PROVE Remembers(buf, w)'
    <2>1. CASE buf'.buffers = buf.buffers
      BY <1>2, <1>3, <2>1 DEF Remembers
    <2>2. CASE \E k \in Nat : buf'.buffers = LastOf(buf.buffers, k)
      <3>1. PICK k \in Nat : buf'.buffers = LastOf(buf.buffers, k)
        BY <2>2
      <3>2. PICK q \in Seq(Nat) : q = LastOf(buf.buffers, k)
        BY <1>0, <1>3, LastOfKeeps DEF Remembers
      <3>3. /\ InOrder(q)
            /\ q # << >> => buf.buffers # << >> /\ q[Len(q)] = buf.buffers[Len(buf.buffers)]
        BY <1>0, <1>3, <3>2, LastOfKeeps DEF Remembers
      <3>4. buf'.buffers = q
        BY <3>1, <3>2
      <3> QED BY <1>2, <1>3, <3>3, <3>4 DEF Remembers
    <2> QED BY <1>2, <2>1, <2>2
  <1>4. HistoryFollows'
    <2>1. PICK y \in Marks : Reaches(ch.events, y) /\ Expects(y)
      BY DEF AudioInv, HistoryFollows
    <2>2. PICK w \in Marks, x \in Marks : Remembers(buf, w) /\ AtHand(w, x) /\ Path(ch.events, x, y)
      BY <2>1 DEF Reaches
    <2>3. Remembers(buf, w)' /\ AtHand(w, x)' /\ Path(ch.events, x, y)'
      BY <1>1, <1>3, <2>2 DEF AtHand
    <2>4. Expects(y)'
      BY <1>0, <2>1 DEF Expects, InTrack
    <2> QED BY <2>3, <2>4 DEF HistoryFollows, Reaches
  <1> QED BY <1>0, <1>1, <1>2, <1>4, BufferStays

(* What it remembers of an event. *)
LEMMA BufferRemembers ==
  ASSUME AudioInv, IndInv', BufferEvent
  PROVE  AudioInv'
  <1>0. /\ buf \in Histories /\ ch \in Channels /\ buf.pc = "loop" /\ ch.bufEvent # None
        /\ UNCHANGED <<lost, failed, dev, view, calls, stops, app, str>>
        /\ buf' = Remember(buf, ch.bufEvent) /\ ch' = [ch EXCEPT !.bufEvent = None]
    BY DEF BufferEvent, BufferAt, AudioInv, IndInv, ThreadsOK
  <1>1. ch'.events = ch.events /\ ch'.bufEvent = None /\ SameSignals
    BY <1>0 DEF Channels, SameSignals
  <1>2. PICK e \in Events : e = ch.bufEvent
    BY <1>0 DEF Channels, Maybe
  <1>3. PICK y \in Marks : Reaches(ch.events, y) /\ Expects(y)
    BY DEF AudioInv, HistoryFollows
  <1>4. PICK w \in Marks, x \in Marks : Remembers(buf, w) /\ AtHand(w, x) /\ Path(ch.events, x, y)
    BY <1>3 DEF Reaches
  <1>5. MayFollow(w, e) /\ x = After(w, e)
    BY <1>0, <1>2, <1>4 DEF AtHand
  <1>6. /\ Remembers(buf', x)
        /\ buf'.pc = buf.pc /\ buf'.dropped = buf.dropped /\ buf'.overtook = buf.overtook
    BY <1>0, <1>2, <1>4, <1>5, RememberSays
  <1>7. HistoryFollows'
    <2>1. Remembers(buf, x)' /\ AtHand(x, x)' /\ Path(ch.events, x, y)'
      BY <1>1, <1>4, <1>6 DEF AtHand
    <2>2. Expects(y)'
      BY <1>0, <1>3 DEF Expects, InTrack
    <2> QED BY <2>1, <2>2 DEF HistoryFollows, Reaches
  <1> QED BY <1>0, <1>1, <1>6, <1>7, BufferStays

(* do_rebuffer begins: unless it overtakes events of the history, the history *)
(* is what was sent.                                                          *)
LEMMA BufferRequestAudio ==
  ASSUME AudioInv, IndInv', BufferRequest
  PROVE  AudioInv'
  <1>0. /\ buf \in Histories /\ ch \in Channels /\ str \in Streams /\ buf.pc = "loop"
        /\ ch.bufStreaming = None /\ ch.bufStates = None /\ ch.bufEvent = None
        /\ Runs(BufferThread) /\ ch.events \in Seq(Events)
        /\ UNCHANGED <<lost, failed, dev, view, calls, app, str>>
    BY DEF BufferRequest, BufferAt, AudioInv, IndInv, ThreadsOK, Channels
  <1>1. ch.rebufferRequest /\ str.pc = "rebuffer" /\ ~ch.rebufferDone
    BY <1>0, BufferRuns DEF AudioInv, HandshakeOK
  <1> DEFINE o == buf.overtook \/ Overtakes
             ps == str.players
             k == str.cookie
  <1>2. /\ buf' = [buf EXCEPT !.pc = "stopping", !.players = ps, !.overtook = o]
        /\ ch' = [ch EXCEPT !.rebufferRequest = FALSE, !.cookie = k]
        /\ stops' = WantStops(ps)
    BY DEF BufferRequest
  <1>3. o \in BOOLEAN
    BY Zenon
  <1>4. o <=> buf.overtook \/ Overtakes
    OBVIOUS
  <1>5. ps = str.players /\ ps \in Tables
    BY <1>0 DEF Streams
  <1> HIDE DEF o, ps, k
  <1>6. /\ buf'.pc = "stopping" /\ buf'.players = ps /\ buf'.overtook = o
        /\ buf'.track = buf.track /\ buf'.trackEnd = buf.trackEnd /\ buf'.buffers = buf.buffers
        /\ buf'.dropped = buf.dropped
    BY <1>0, <1>2 DEF Histories
  <1>7. /\ ch'.events = ch.events /\ ch'.bufEvent = ch.bufEvent /\ ~ch'.rebufferRequest
        /\ ch'.rebufferDone = ch.rebufferDone
    BY <1>0, <1>2 DEF Channels
  <1>8. AppsKept /\ NoNewTrack /\ SameStream /\ SameHistory
    BY <1>0, <1>6, <1>7, AppsSame DEF AudioInv, SameStream, SameHistory
  <1>9. TokensOK'
    BY <1>0, <1>8, TokensKept DEF AudioInv, TokensOK
  <1>10. HandshakeOK'
    BY <1>0, <1>1, <1>5, <1>6, <1>7 DEF HandshakeOK
  <1>11. CallsOK' /\ StopsOK'
    <2>1. \A p \in Players : stops[p] = "none" /\ stops'[p] \in {"wanted", "none"}
      BY <1>0, <1>1, <1>2 DEF AudioInv, StopsOK, WantStops
    <2>2. CallsOK'
      BY <1>0 DEF AudioInv, CallsOK
    <2>3. \A p \in Players : \A i \in DOMAIN calls[p] : calls[p][i] # "stop"
      BY <2>1 DEF AudioInv, StopsOK
    <2>4. StopsOK'
      BY <1>0, <1>6, <2>1, <2>3 DEF StopsOK
    <2> QED BY <2>2, <2>4
  <1>12. \A m \in Marks : Expects(m) => Expects(m)'
    BY <1>0, <1>8, ExpectsKept
  <1>13. HistoryFollows'
    BY <1>7, <1>8, <1>12, HistoryKept DEF AudioInv
  <1>14. RefillFollows'
    <2> SUFFICES ASSUME ~buf'.overtook
                 PROVE  (\E w \in Marks : Remembers(buf, w) /\ Expects(w))'
      BY DEF RefillFollows
    <2>1. \A i \in DOMAIN ch.events : ~OfHistory(ch.events[i])
      BY <1>4, <1>6 DEF Overtakes
    <2>2. PICK y \in Marks : Reaches(ch.events, y) /\ Expects(y)
      BY DEF AudioInv, HistoryFollows
    <2>3. PICK w \in Marks, x \in Marks : Remembers(buf, w) /\ AtHand(w, x) /\ Path(ch.events, x, y)
      BY <2>2 DEF Reaches
    <2>4. x = w
      BY <1>0, <2>3 DEF AtHand
    <2>5. Like(w, y)
      BY <1>0, <2>1, <2>3, <2>4, PathPlain
    <2>6. Expects(w)
      BY <1>1, <2>2, <2>5 DEF Expects, Like
    <2>7. Remembers(buf, w)'
      BY <1>6, <2>3 DEF Remembers
    <2>8. Expects(w)'
      BY <1>12, <2>6
    <2> QED BY <2>7, <2>8
  <1>15. AudioOK'
    <2>1. BeginsKnown'
      BY <1>0, SoundSame DEF AudioInv
    <2>2. StartsKnown' /\ StreamKnown'
      BY <1>0, <1>1, <1>7 DEF StartsKnown, StreamKnown
    <2>3. RefillKnown'
      <3>1. ASSUME NEW p \in str'.players PROVE Refilled(p)'
        <4>1. p \in Players /\ p \in buf'.players /\ stops'[p] = "wanted"
          BY <1>0, <1>2, <1>5, <1>6, <3>1 DEF Tables, WantStops
        <4> QED BY <1>6, <4>1 DEF Refilled
      <3> QED BY <1>6, <3>1 DEF RefillKnown
    <2>4. InPlace'
      BY <1>0, <1>4, <1>6 DEF AudioInv, AudioOK, InPlace, AudioIsInPlace
    <2> QED BY <2>1, <2>2, <2>3, <2>4 DEF AudioOK
  <1> QED BY <1>9, <1>10, <1>11, <1>13, <1>14, <1>15 DEF AudioInv
-----------------------------------------------------------------------------
(* What is left to show of a step of do_rebuffer. *)
LEMMA RebufferLeaves ==
  ASSUME AudioInv, IndInv', buf.pc # "loop", UNCHANGED <<lost, calls, app, str>>, SameHistory,
         ch'.events = ch.events, ch'.rebufferRequest = ch.rebufferRequest,
         buf'.overtook = buf.overtook,
         \/ buf'.pc # "loop" /\ ~ch'.rebufferDone /\ buf'.players \subseteq buf.players
         \/ buf'.pc = "loop" /\ ch'.rebufferDone,
         CallsOK', StopsOK', BeginsKnown', RefillKnown', InPlace',
         ~buf.overtook /\ ch'.rebufferDone => \A p \in str.players : Fine(p)' => InStep(p)'
  PROVE  AudioInv'
  <1>0. str.pc = "rebuffer" /\ ~ch.rebufferRequest /\ buf.players \subseteq str.players
    BY DEF AudioInv, HandshakeOK
  <1>1. AppsKept /\ NoNewTrack /\ SameStream
    BY AppsSame DEF AudioInv, SameStream
  <1>2. TokensOK'
    BY <1>1, TokensKept DEF AudioInv, TokensOK
  <1>3. HandshakeOK'
    BY <1>0 DEF HandshakeOK
  <1>4. \A m \in Marks : Expects(m) => Expects(m)'
    BY <1>1, ExpectsKept
  <1>5. HistoryFollows'
    BY <1>4, HistoryKept DEF AudioInv
  <1>6. RefillFollows'
    BY <1>1, RefillKept DEF AudioInv, SameHistory
  <1>7. StartsKnown' /\ StreamKnown'
    BY <1>0 DEF StartsKnown, StreamKnown
  <1> QED BY <1>2, <1>3, <1>5, <1>6, <1>7 DEF AudioInv, AudioOK

\* What do_rebuffer leaves alone of the history and of the channels.
Carries(b, c) ==
    /\ b \in Histories /\ b.track = buf.track /\ b.trackEnd = buf.trackEnd
    /\ b.buffers = buf.buffers /\ b.overtook = buf.overtook /\ b.players \subseteq buf.players
    /\ c \in Channels /\ c.events = ch.events /\ c.bufEvent = ch.bufEvent
    /\ c.rebufferRequest = ch.rebufferRequest /\ c.rebufferDone = ch.rebufferDone

(* The returns of do_rebuffer. *)
LEMMA ReturnsSays ==
  ASSUME NEW b, NEW c, Carries(b, c), RebufferReturns(b, c)
  PROVE  /\ SameHistory /\ ch'.events = ch.events
         /\ ch'.rebufferRequest = ch.rebufferRequest /\ ch'.rebufferDone
         /\ buf'.pc = "loop" /\ buf'.overtook = buf.overtook /\ buf'.dropped = b.dropped
  <1> DEFINE d == [c EXCEPT !.rebufferDone = TRUE]
             Fix(x) == IF x = Live THEN b.players ELSE x
             s1 == Fix(d.streaming)
             s2 == Fix(d.bufStreaming)
             s3 == Fix(d.plyStreaming)
  <1>1. /\ buf' = [b EXCEPT !.pc = "loop", !.players = {}, !.misses = 0, !.next = 1]
        /\ ch' = [d EXCEPT !.streaming = s1, !.bufStreaming = s2, !.plyStreaming = s3]
    BY DEF RebufferReturns, Settled
  <1>2. /\ d \in Channels /\ d.rebufferDone = TRUE /\ d.events = c.events
        /\ d.bufEvent = c.bufEvent /\ d.rebufferRequest = c.rebufferRequest
    BY DEF Carries, Channels
  <1> HIDE DEF d, s1, s2, s3
  <1>3. /\ ch'.rebufferDone = TRUE /\ ch'.events = c.events
        /\ ch'.bufEvent = c.bufEvent /\ ch'.rebufferRequest = c.rebufferRequest
    BY <1>1, <1>2 DEF Channels
  <1>4. /\ buf'.pc = "loop" /\ buf'.overtook = b.overtook /\ buf'.dropped = b.dropped
        /\ buf'.track = b.track /\ buf'.trackEnd = b.trackEnd /\ buf'.buffers = b.buffers
    BY <1>1 DEF Carries, Histories
  <1> QED BY <1>3, <1>4 DEF SameHistory, Carries

(* do_rebuffer goes on, with players that are where it expects them. *)
LEMMA RebufferMoves ==
  ASSUME AudioInv, IndInv', buf.pc # "loop", UNCHANGED <<lost, calls, app, str>>,
         NEW b, NEW c, Carries(b, c), NEW pc \in {"match", "begin", "buffer", "return"},
         RebufferGoesOn(b, c, pc), CallsOK', BeginsKnown',
         \A p \in Players : \A i \in DOMAIN calls[p] : calls[p][i] = "stop" => stops'[p] = "called",
         \A p \in Players : stops'[p] = "none",
         ~buf.overtook =>
           /\ \A p \in Players : dev'[p].bad => p \in b.dropped
           /\ \A p \in str.players : Healthy(p)' /\ p \notin b.dropped =>
                /\ p \in b.players
                /\ pc \in {"match", "begin"} => dev'[p].st = "started"
                /\ pc = "buffer" =>
                     /\ dev'[p].st = "streaming" /\ dev'[p].token = str.owner
                     /\ dev'[p].last = IF b.next = 1 THEN 0 ELSE buf.buffers[b.next - 1]
                /\ pc = "return" => InStep(p)',
         pc \in {"begin", "buffer"} => buf.track,
         pc = "buffer" => b.next <= Len(buf.buffers) + 1
  PROVE  AudioInv'
  <1>0. str.pc = "rebuffer" /\ ~ch.rebufferDone
    BY DEF AudioInv, HandshakeOK
  <1>1. StopsOK'
    BY DEF AudioInv, StopsOK
  <1>2. CASE b.players = {} \/ pc = "return"
    <2>1. RebufferReturns(b, c)
      BY <1>2 DEF RebufferGoesOn
    <2>2. /\ SameHistory /\ ch'.events = ch.events
          /\ ch'.rebufferRequest = ch.rebufferRequest /\ ch'.rebufferDone
          /\ buf'.pc = "loop" /\ buf'.overtook = buf.overtook /\ buf'.dropped = b.dropped
      BY <2>1, ReturnsSays
    <2>3. RefillKnown' /\ InPlace'
      BY <2>2 DEF RefillKnown, InPlace, AudioIsInPlace
    <2>4. ASSUME ~buf.overtook, NEW p \in str.players, Fine(p)' PROVE InStep(p)'
      <3>1. Healthy(p)' /\ p \notin b.dropped
        BY <2>2, <2>4 DEF Fine
      <3> QED BY <1>2, <2>4, <3>1
    <2> QED BY <1>1, <2>2, <2>3, <2>4, RebufferLeaves
  <1>3. CASE ~(b.players = {} \/ pc = "return")
    <2>1. buf' = [b EXCEPT !.pc = pc] /\ ch' = c /\ pc \in {"match", "begin", "buffer"}
      BY <1>3 DEF RebufferGoesOn
    <2>2. /\ buf'.pc = pc /\ buf'.players = b.players /\ buf'.next = b.next
          /\ buf'.dropped = b.dropped /\ buf'.overtook = buf.overtook
          /\ buf'.buffers = buf.buffers /\ buf'.track = buf.track /\ buf'.trackEnd = buf.trackEnd
      BY <2>1 DEF Carries, Histories
    <2>3. /\ SameHistory /\ ch'.events = ch.events /\ ch'.rebufferDone = ch.rebufferDone
          /\ ch'.rebufferRequest = ch.rebufferRequest /\ buf'.players \subseteq buf.players
      BY <2>1, <2>2 DEF Carries, SameHistory
    <2>4. ASSUME ~buf.overtook, NEW p \in str.players, Fine(p)' PROVE Refilled(p)'
      <3>1. Healthy(p)' /\ p \notin b.dropped
        BY <2>2, <2>4 DEF Fine
      <3> QED BY <2>1, <2>2, <2>4, <3>1 DEF Refilled
    <2>5. RefillKnown'
      BY <2>1, <2>2, <2>4 DEF RefillKnown
    <2>6. InPlace'
      BY <2>2 DEF InPlace, AudioIsInPlace
    <2> QED BY <1>0, <1>1, <2>1, <2>2, <2>3, <2>5, <2>6, RebufferLeaves
  <1> QED BY <1>2, <1>3

(* What do_rebuffer may rely on. *)
LEMMA RefillSays ==
  ASSUME AudioInv, buf.pc # "loop", ~buf.overtook
  PROVE  /\ \A p \in Players : dev[p].bad => p \in buf.dropped
         /\ \A p \in str.players : Fine(p) => Refilled(p)
         /\ \E w \in Marks : Remembers(buf, w) /\ Expects(w)
  BY DEF AudioInv, AudioOK, InPlace, AudioIsInPlace, RefillKnown, RefillFollows

(* Nothing is being stopped once do_rebuffer matches cookies. *)
LEMMA StoppedAll ==
  ASSUME AudioInv, buf.pc \in {"match", "begin", "buffer"}
  PROVE  /\ str.pc = "rebuffer" /\ \A p \in Players : stops[p] = "none"
         /\ \A p \in Players : \A i \in DOMAIN calls[p] : calls[p][i] = "stop" => stops[p] = "called"
  BY DEF AudioInv, HandshakeOK, StopsOK

(* When there is no track to send again, no app is in one. *)
LEMMA NoTrackNoApp ==
  ASSUME AudioInv, buf.pc # "loop", ~buf.overtook, ~buf.track
  PROVE  \A a \in Apps : ~InTrack(a)
  <1>1. PICK w \in Marks : Remembers(buf, w) /\ Expects(w)
    BY RefillSays
  <1>2. str.pc = "rebuffer" /\ ~w.track
    BY <1>1 DEF AudioInv, HandshakeOK, Remembers
  <1> QED BY <1>1, <1>2 DEF Expects
-----------------------------------------------------------------------------
\* The two histories differ in how often do_rebuffer has waited at most.
SameButMisses(b, d) ==
    /\ b.track = d.track /\ b.trackEnd = d.trackEnd /\ b.buffers = d.buffers
    /\ b.overtook = d.overtook /\ b.players = d.players /\ b.dropped = d.dropped
    /\ b.next = d.next

(* What dropping players and counting misses change. *)
LEMMA DroppedSays ==
  ASSUME NEW b \in Histories, NEW gone \in Tables
  PROVE  /\ Drop(b, gone).players = b.players \ gone
         /\ Drop(b, gone).dropped = b.dropped \cup gone
         /\ Drop(b, gone).track = b.track /\ Drop(b, gone).trackEnd = b.trackEnd
         /\ Drop(b, gone).buffers = b.buffers /\ Drop(b, gone).overtook = b.overtook
         /\ Drop(b, gone).next = b.next
         /\ SameButMisses(Missed(b), b) /\ SameButMisses([b EXCEPT !.misses = 0], b)
  <1>1. SameButMisses([b EXCEPT !.misses = 0], b)
    BY DEF SameButMisses, Histories
  <1>2. SameButMisses(Missed(b), b)
    <2> DEFINE k == b.misses + 1
    <2>1. Missed(b) = [b EXCEPT !.misses = k]
      BY DEF Missed
    <2> HIDE DEF k
    <2> QED BY <2>1 DEF SameButMisses, Histories
  <1>3. /\ Drop(b, gone).players = b.players \ gone
        /\ Drop(b, gone).dropped = b.dropped \cup gone
        /\ Drop(b, gone).track = b.track /\ Drop(b, gone).trackEnd = b.trackEnd
        /\ Drop(b, gone).buffers = b.buffers /\ Drop(b, gone).overtook = b.overtook
        /\ Drop(b, gone).next = b.next
    <2> DEFINE ps == b.players \ gone
               ds == b.dropped \cup gone
    <2>1. Drop(b, gone) = [b EXCEPT !.players = ps, !.dropped = ds]
      BY DEF Drop
    <2> HIDE DEF ps, ds
    <2>2. /\ Drop(b, gone).players = ps /\ Drop(b, gone).dropped = ds
          /\ Drop(b, gone).track = b.track /\ Drop(b, gone).trackEnd = b.trackEnd
          /\ Drop(b, gone).buffers = b.buffers /\ Drop(b, gone).overtook = b.overtook
          /\ Drop(b, gone).next = b.next
      BY <2>1 DEF Histories
    <2> QED BY <2>2 DEF ps, ds
  <1> QED BY <1>1, <1>2, <1>3

(* What telling the others changes. *)
LEMMA TellDropSays ==
  ASSUME NEW c \in Channels, NEW gone
  PROVE  /\ TellDrop(c, gone) \in Channels
         /\ TellDrop(c, gone).events = c.events /\ TellDrop(c, gone).bufEvent = c.bufEvent
         /\ TellDrop(c, gone).rebufferRequest = c.rebufferRequest
         /\ TellDrop(c, gone).rebufferDone = c.rebufferDone
  <1>1. Live \in Maybe(Tables \cup {Live})
    BY DEF Maybe
  <1> QED BY <1>1 DEF TellDrop, Channels

(* A report is taken. *)
LEMMA StatesTaken ==
  ASSUME ch \in Channels, NEW c, c = [ch EXCEPT !.bufStates = None]
  PROVE  /\ c \in Channels /\ c.events = ch.events /\ c.bufEvent = ch.bufEvent
         /\ c.rebufferRequest = ch.rebufferRequest /\ c.rebufferDone = ch.rebufferDone
  <1>1. None \in Maybe(States)
    BY DEF Maybe
  <1> QED BY <1>1 DEF Channels

(* "wait until cookie matches for all players" *)
LEMMA RebufferMatchesAudio ==
  ASSUME AudioInv, IndInv', RebufferMatches
  PROVE  AudioInv'
  <1> DEFINE c      == [ch EXCEPT !.bufStates = None]
             gone   == buf.players \ (ch.bufStates.matched \cup ch.bufStates.other)
             rest   == buf.players \ ch.bufStates.matched
             onward == IF buf.track THEN "begin" ELSE "return"
             b1 == [buf EXCEPT !.misses = 0]
             b2 == Missed(Drop(buf, gone))
             b3 == [Drop(buf, rest) EXCEPT !.misses = 0]
             t  == TellDrop(c, gone)
  <1>0. /\ buf \in Histories /\ ch \in Channels /\ buf.pc = "match" /\ buf.players \in Tables
        /\ UNCHANGED <<lost, failed, dev, view, calls, stops, app, str>>
        /\ str.players \in Tables
    BY DEF RebufferMatches, BufferAt, AudioInv, IndInv, ThreadsOK, Histories, Streams
  <1>1. \/ RebufferGoesOn(b1, c, onward)
        \/ RebufferGoesOn(b2, t, "match")
        \/ RebufferGoesOn(b3, t, onward)
    BY DEF RebufferMatches
  <1>2. gone \in Tables /\ rest \in Tables
    BY <1>0 DEF Tables
  <1>3. /\ c \in Channels /\ c.events = ch.events /\ c.bufEvent = ch.bufEvent
        /\ c.rebufferRequest = ch.rebufferRequest /\ c.rebufferDone = ch.rebufferDone
    BY <1>0, StatesTaken
  <1> HIDE DEF c, gone, rest
  <1>4. /\ t \in Channels /\ t.events = ch.events /\ t.bufEvent = ch.bufEvent
        /\ t.rebufferRequest = ch.rebufferRequest /\ t.rebufferDone = ch.rebufferDone
    BY <1>3, TellDropSays
  <1>5. /\ Carries(b1, c) /\ b1.players = buf.players /\ b1.dropped = buf.dropped
    <2>1. b1 \in Histories /\ SameButMisses(b1, buf)
      BY <1>0, <1>2, <1>3, Dropped, DroppedSays
    <2> QED BY <1>3, <2>1 DEF Carries, SameButMisses
  <1>6. /\ Carries(b2, t) /\ b2.players = buf.players \ gone
        /\ b2.dropped = buf.dropped \cup gone
    <2> DEFINE d == Drop(buf, gone)
    <2>1. /\ d \in Histories /\ d.players = buf.players \ gone /\ d.dropped = buf.dropped \cup gone
          /\ d.track = buf.track /\ d.trackEnd = buf.trackEnd /\ d.buffers = buf.buffers
          /\ d.overtook = buf.overtook
      BY <1>0, <1>2, <1>3, Dropped, DroppedSays
    <2> HIDE DEF d
    <2>2. b2 \in Histories /\ SameButMisses(b2, d)
      BY <1>2, <1>3, <2>1, Dropped, DroppedSays DEF d
    <2> QED BY <1>4, <2>1, <2>2 DEF Carries, SameButMisses
  <1>7. /\ Carries(b3, t) /\ b3.players = buf.players \ rest
        /\ b3.dropped = buf.dropped \cup rest
    <2> DEFINE d == Drop(buf, rest)
    <2>1. /\ d \in Histories /\ d.players = buf.players \ rest /\ d.dropped = buf.dropped \cup rest
          /\ d.track = buf.track /\ d.trackEnd = buf.trackEnd /\ d.buffers = buf.buffers
          /\ d.overtook = buf.overtook
      BY <1>0, <1>2, <1>3, Dropped, DroppedSays
    <2> HIDE DEF d
    <2>2. b3 \in Histories /\ SameButMisses(b3, d)
      BY <1>2, <1>3, <2>1, Dropped, DroppedSays DEF d
    <2> QED BY <1>4, <2>1, <2>2 DEF Carries, SameButMisses
  <1>8. /\ onward \in {"begin", "return"} /\ (onward = "begin" => buf.track)
        /\ onward = "return" => ~buf.track
    OBVIOUS
  <1> HIDE DEF b1, b2, b3, t, onward
  <1>9. ASSUME NEW b, NEW d, NEW pc \in {"match", "begin", "return"}, NEW ps,
               Carries(b, d), RebufferGoesOn(b, d, pc), pc = "begin" => buf.track,
               pc = "return" => ~buf.track,
               b.players = buf.players \ ps, b.dropped = buf.dropped \cup ps
        PROVE  AudioInv'
    <2>1. /\ \A p \in Players : stops'[p] = "none"
          /\ \A p \in Players : \A i \in DOMAIN calls[p] :
               calls[p][i] = "stop" => stops'[p] = "called"
      BY <1>0, StoppedAll
    <2>2. BeginsKnown' /\ CallsOK'
      BY <1>0, SoundSame DEF AudioInv, CallsOK
    <2>3. ASSUME ~buf.overtook, NEW p \in Players, dev'[p].bad PROVE p \in b.dropped
      BY <1>0, <1>9, <2>3, RefillSays
    <2>4. ASSUME ~buf.overtook, NEW p \in str.players, Healthy(p)', p \notin b.dropped
          PROVE  p \in b.players /\ dev'[p].st = "started" /\ (pc = "return" => InStep(p)')
      <3>1. Fine(p)
        BY <1>0, <1>9, <2>4 DEF Fine, Healthy
      <3>2. p \in buf.players /\ dev[p].st = "started"
        BY <1>0, <2>4, <3>1, RefillSays DEF Refilled
      <3>3. pc = "return" => \A a \in Apps : ~InTrack(a)'
        BY <1>0, <1>9, <2>4, NoTrackNoApp DEF InTrack
      <3>4. p \in b.players
        BY <1>9, <2>4, <3>2
      <3> QED BY <1>0, <3>2, <3>3, <3>4 DEF InStep
    <2>5. pc # "buffer" /\ buf.pc # "loop" /\ pc \in {"match", "begin", "buffer", "return"}
      BY <1>0
    <2>6. UNCHANGED <<lost, calls, app, str>>
      BY <1>0
    <2> QED BY <1>9, <2>1, <2>2, <2>3, <2>4, <2>5, <2>6, RebufferMoves
  <1>10. CASE RebufferGoesOn(b1, c, onward)
    <2>1. b1.players = buf.players \ {} /\ b1.dropped = buf.dropped \cup {}
      BY <1>5
    <2> QED BY <1>5, <1>8, <1>9, <1>10, <2>1
  <1>11. CASE RebufferGoesOn(b2, t, "match")
    BY <1>6, <1>9, <1>11
  <1>12. CASE RebufferGoesOn(b3, t, onward)
    BY <1>7, <1>8, <1>9, <1>12
  <1> QED BY <1>1, <1>10, <1>11, <1>12

(* stop_players of a rebuffer: the players that stopped are started again, the *)
(* others have failed.                                                        *)
LEMMA RebufferStopsAudio ==
  ASSUME AudioInv, IndInv', RebufferStops
  PROVE  AudioInv'
  <1> DEFINE ok == Answered("ok")
             ps == buf.players \ StopFailed
             b  == [buf EXCEPT !.players = ps]
  <1>0. /\ buf \in Histories /\ ch \in Channels /\ buf.pc = "stopping" /\ buf.players \in Tables
        /\ UNCHANGED <<lost, view, calls, app, str>> /\ str.players \in Tables
        /\ dev \in [Players -> Devices] /\ stops \in [Players -> StopStates]
    BY DEF RebufferStops, BufferAt, AudioInv, IndInv, ThreadsOK, Histories, Streams, DevicesOK, GroupOK
  <1>1. /\ dev' = [p \in Players |-> IF p \in Wrote(ok) THEN GetStart(dev[p]) ELSE dev[p]]
        /\ failed' = failed \cup (ok \cap lost)
        /\ stops' = [p \in Players |-> IF Stopped(p) THEN "none" ELSE stops[p]]
        /\ IF AllStopped THEN RebufferGoesOn(b, ch, "match") ELSE buf' = b /\ UNCHANGED <<ch, ply>>
    BY DEF RebufferStops, CountStops, WriteTo
  <1>2. ok = {p \in Players : stops[p] = "ok"} /\ Wrote(ok) = ok \ (lost \cup failed)
    BY DEF Answered, Wrote
  <1>3. /\ ps = buf.players \ StopFailed /\ ps \in Tables
        /\ \A p \in StopFailed : stops[p] = "error" \/ p \in lost \cup failed
    BY <1>0 DEF Tables, StopFailed, Answered, Wrote
  <1> HIDE DEF ok, ps
  <1>4. /\ Carries(b, ch) /\ b.players = ps /\ b.dropped = buf.dropped /\ b.pc = "stopping"
    <2>1. /\ b \in Histories /\ b.players = ps /\ b.dropped = buf.dropped /\ b.pc = "stopping"
          /\ b.track = buf.track /\ b.trackEnd = buf.trackEnd /\ b.buffers = buf.buffers
          /\ b.overtook = buf.overtook
      BY <1>0, <1>3 DEF Histories
    <2> QED BY <1>0, <1>3, <2>1 DEF Carries
  <1> HIDE DEF b
  <1>5. \A p \in Players : /\ dev'[p].bad = dev[p].bad
                           /\ p \in Wrote(ok) => dev'[p].st = "started"
                           /\ p \notin Wrote(ok) => dev'[p] = dev[p]
                           /\ Sure(view[p].canBegin, dev'[p])
    <2>1. \A p \in Players : dev[p] \in Devices /\ 0 \in Nat /\ Sure(view[p].canBegin, dev[p])
      BY <1>0 DEF AudioInv, AudioOK, BeginsKnown, Sure
    <2>2. \A p \in Players : dev'[p] = IF p \in Wrote(ok) THEN GetStart(dev[p]) ELSE dev[p]
      BY <1>1
    <2>3. \A p \in Players : /\ GetStart(dev[p]).st = "started" /\ GetStart(dev[p]).bad = dev[p].bad
                             /\ Sure(view[p].canBegin, GetStart(dev[p]))
      BY <2>1, CommandEffects, SureAfter
    <2> QED BY <2>1, <2>2, <2>3
  <1>6. \A p \in Players : stops'[p] = IF stops[p] \in {"ok", "error"} THEN "none" ELSE stops[p]
    BY <1>1 DEF Stopped
  <1>7. ASSUME ~buf.overtook, NEW p \in str.players, Healthy(p)', p \notin buf.dropped
        PROVE  p \in ps /\ (stops'[p] = "none" => dev'[p].st = "started")
    <2>1. p \in Players /\ Healthy(p) /\ Fine(p)
      BY <1>0, <1>1, <1>7 DEF Tables, Healthy, Fine
    <2>2. stops[p] # "error"
      BY <2>1 DEF AudioInv, StopsOK
    <2>3. Refilled(p)
      BY <1>0, <1>7, <2>1, RefillSays
    <2>4. p \in ps
      BY <1>3, <2>1, <2>2, <2>3 DEF Refilled, Healthy
    <2>5. CASE stops[p] = "ok"
      BY <1>2, <1>5, <2>1, <2>4, <2>5 DEF Healthy
    <2>6. CASE stops[p] # "ok"
      <3>1. p \notin Wrote(ok) /\ (stops'[p] = "none" => stops[p] = "none")
        BY <1>2, <1>6, <2>1, <2>2, <2>6
      <3> QED BY <1>0, <1>5, <2>1, <2>3, <2>4, <3>1 DEF Refilled
    <2> QED BY <2>5, <2>6
  <1>8. BeginsKnown'
    BY <1>0, <1>5 DEF BeginsKnown, Sure, CanBegin
  <1>9. CallsOK'
    BY <1>0 DEF AudioInv, CallsOK
  <1>10. \A p \in Players : \A i \in DOMAIN calls[p] : calls[p][i] = "stop" => stops'[p] = "called"
    BY <1>6 DEF AudioInv, StopsOK
  <1>11. ~buf.overtook => \A p \in Players : dev'[p].bad => p \in buf.dropped
    BY <1>0, <1>5, RefillSays
  <1>12. CASE AllStopped
    <2>1. RebufferGoesOn(b, ch, "match")
      BY <1>1, <1>12
    <2>2. \A p \in Players : stops'[p] = "none"
      BY <1>0, <1>6, <1>12 DEF AllStopped, StopStates
    <2>3. \A p \in str.players : p \in Players
      BY <1>0 DEF Tables
    <2>4. UNCHANGED <<lost, calls, app, str>> /\ buf.pc # "loop"
      BY <1>0
    <2> QED BY <1>4, <1>7, <1>8, <1>9, <1>10, <1>11, <2>1, <2>2, <2>3, <2>4, RebufferMoves
  <1>13. CASE ~AllStopped
    <2>1. buf' = b /\ ch' = ch
      BY <1>1, <1>13
    <2>2. /\ buf'.pc = "stopping" /\ buf'.players = ps /\ buf'.dropped = buf.dropped
          /\ SameHistory /\ buf'.overtook = buf.overtook /\ ps \subseteq buf.players
      BY <1>3, <1>4, <2>1 DEF Carries, SameHistory
    <2>3. StopsOK'
      <3>1. \A p \in Players : stops'[p] # "error"
        BY <1>6
      <3>2. \A p \in Players : \A i, j \in DOMAIN calls[p] :
              calls[p][i] = "stop" /\ calls[p][j] = "stop" => i = j
        BY DEF AudioInv, StopsOK
      <3> QED BY <1>0, <1>10, <2>2, <3>1, <3>2 DEF StopsOK
    <2>4. RefillKnown'
      <3>1. ASSUME ~buf.overtook, NEW p \in str.players, Fine(p)' PROVE Refilled(p)'
        <4>1. p \in ps /\ (stops'[p] = "none" => dev'[p].st = "started")
          BY <1>7, <2>2, <3>1 DEF Fine
        <4> QED BY <2>2, <4>1 DEF Refilled
      <3> QED BY <1>0, <2>2, <3>1 DEF RefillKnown
    <2>5. InPlace'
      BY <1>11, <2>2 DEF InPlace, AudioIsInPlace
    <2>6. ~ch'.rebufferDone
      BY <1>0, <2>1 DEF AudioInv, HandshakeOK
    <2> QED BY <1>0, <1>8, <1>9, <2>1, <2>2, <2>3, <2>4, <2>5, <2>6, RebufferLeaves
  <1> QED BY <1>12, <1>13

(* The waits of do_rebuffer: those that are taken out of its table are dropped. *)
LEMMA RebufferWaitsAudio ==
  ASSUME AudioInv, IndInv', buf.pc \in {"begin", "buffer"}, NEW able, RebufferWaits(able),
         UNCHANGED <<lost, calls, stops, app, str>>
  PROVE  AudioInv'
  <1> DEFINE gone == buf.players \ ch.bufStates.matched
             left == Drop(buf, gone)
             slow == IF buf.misses + 1 >= MissLimit THEN left.players \ able ELSE {}
             c == [ch EXCEPT !.bufStates = None]
             t == TellDrop(c, gone)
             d == Drop(left, slow)
             b == Missed(d)
             pc == buf.pc
  <1>0. /\ buf \in Histories /\ ch \in Channels /\ buf.players \in Tables
        /\ str.players \in Tables
    BY DEF AudioInv, IndInv, ThreadsOK, Histories, Streams
  <1>1. /\ RebufferGoesOn(b, t, pc) /\ failed' = failed \cup slow /\ UNCHANGED <<dev, view>>
    BY DEF RebufferWaits
  <1>2. gone \in Tables
    BY <1>0 DEF Tables
  <1>3. /\ c \in Channels /\ c.events = ch.events /\ c.bufEvent = ch.bufEvent
        /\ c.rebufferRequest = ch.rebufferRequest /\ c.rebufferDone = ch.rebufferDone
    BY <1>0, StatesTaken
  <1> HIDE DEF c, gone
  <1>4. /\ t \in Channels /\ t.events = ch.events /\ t.bufEvent = ch.bufEvent
        /\ t.rebufferRequest = ch.rebufferRequest /\ t.rebufferDone = ch.rebufferDone
    BY <1>3, TellDropSays
  <1>5. /\ left \in Histories /\ left.players = buf.players \ gone
        /\ left.dropped = buf.dropped \cup gone
        /\ left.track = buf.track /\ left.trackEnd = buf.trackEnd /\ left.buffers = buf.buffers
        /\ left.overtook = buf.overtook /\ left.next = buf.next
    BY <1>0, <1>2, <1>3, Dropped, DroppedSays
  <1> HIDE DEF left
  <1>6. slow \in Tables
    BY <1>5 DEF Histories, Tables
  <1> HIDE DEF slow
  <1>7. /\ d \in Histories /\ d.players = left.players \ slow
        /\ d.dropped = left.dropped \cup slow
        /\ d.track = buf.track /\ d.trackEnd = buf.trackEnd /\ d.buffers = buf.buffers
        /\ d.overtook = buf.overtook /\ d.next = buf.next
    BY <1>3, <1>5, <1>6, Dropped, DroppedSays, ZenonT(60)
  <1> HIDE DEF d
  <1>8. b \in Histories /\ SameButMisses(b, d)
    BY <1>3, <1>6, <1>7, Dropped, DroppedSays
  <1> HIDE DEF b, t
  <1>9. /\ Carries(b, t) /\ b.players = (buf.players \ gone) \ slow
        /\ b.dropped = (buf.dropped \cup gone) \cup slow /\ b.next = buf.next
    BY <1>4, <1>5, <1>7, <1>8 DEF Carries, SameButMisses
  <1>10. /\ \A p \in Players : stops'[p] = "none"
         /\ \A p \in Players : \A i \in DOMAIN calls[p] :
              calls[p][i] = "stop" => stops'[p] = "called"
    BY StoppedAll
  <1>11. BeginsKnown' /\ CallsOK'
    BY <1>1, SoundSame DEF AudioInv, CallsOK
  <1>12. ASSUME ~buf.overtook, NEW p \in Players, dev'[p].bad PROVE p \in b.dropped
    BY <1>1, <1>9, <1>12, RefillSays
  <1>13. ASSUME ~buf.overtook, NEW p \in str.players, Healthy(p)', p \notin b.dropped
         PROVE  /\ p \in b.players
                /\ pc = "begin" => dev'[p].st = "started"
                /\ pc = "buffer" =>
                     /\ dev'[p].st = "streaming" /\ dev'[p].token = str.owner
                     /\ dev'[p].last = IF b.next = 1 THEN 0 ELSE buf.buffers[b.next - 1]
    <2>1. Fine(p)
      BY <1>1, <1>9, <1>13 DEF Fine, Healthy
    <2>2. Refilled(p)
      BY <1>13, <2>1, RefillSays
    <2> QED BY <1>1, <1>9, <1>13, <2>2 DEF Refilled
  <1>14. buf.track /\ (pc = "buffer" => b.next <= Len(buf.buffers) + 1)
    BY <1>9 DEF AudioInv, AudioOK, RefillKnown
  <1>15. pc \in {"begin", "buffer"}
    OBVIOUS
  <1>16. buf.pc # "loop"
    OBVIOUS
  <1> HIDE DEF pc
  <1> QED BY <1>1, <1>9, <1>10, <1>11, <1>12, <1>13, <1>14, <1>15, <1>16, RebufferMoves

(* The players that a command of do_rebuffer reaches are where it expects them. *)
LEMMA RefillReaches ==
  ASSUME AudioInv, buf.pc # "loop", ~buf.overtook, NEW p \in Wrote(buf.players),
         p \notin buf.dropped
  PROVE  p \in str.players /\ Refilled(p) /\ ~dev[p].bad
  <1>1. p \in buf.players /\ Healthy(p) /\ buf.players \subseteq str.players
    BY DEF Wrote, Healthy, AudioInv, HandshakeOK
  <1>2. p \in str.players /\ p \in Players
    BY <1>1 DEF AudioInv, IndInv, ThreadsOK, Streams, Tables
  <1> QED BY <1>1, <1>2, RefillSays DEF Fine

(* do_rebuffer begins the track again. *)
LEMMA RebufferBeginsAudio ==
  ASSUME AudioInv, IndInv', RebufferBegins
  PROVE  AudioInv'
  <1>0. /\ buf \in Histories /\ ch \in Channels /\ buf.pc = "begin" /\ buf.players \in Tables
        /\ UNCHANGED <<lost, calls, stops, app, str>> /\ str.players \in Tables
        /\ str.owner \in Nat /\ view \in [Players -> Views] /\ dev \in [Players -> Devices]
    BY DEF RebufferBegins, BufferAt, AudioInv, IndInv, ThreadsOK, Histories, Streams, DevicesOK
  <1>1. CASE ~AllCanBegin(buf.players)
    <2>1. PICK able : RebufferWaits(able)
      BY <1>1 DEF RebufferBegins
    <2>2. buf.pc \in {"begin", "buffer"}
      BY <1>0
    <2> QED BY <1>0, <2>1, <2>2, RebufferWaitsAudio
  <1>2. CASE AllCanBegin(buf.players)
    <2> DEFINE ps == Wrote(buf.players)
               one == 1
               b == [buf EXCEPT !.players = ps, !.next = one, !.misses = 0]
    <2>1. /\ RebufferGoesOn(b, ch, "buffer") /\ view' = SpendBegin(buf.players)
          /\ dev' = [p \in Players |-> IF p \in ps THEN GetBegin(dev[p], str.owner) ELSE dev[p]]
          /\ failed' = failed \cup (buf.players \cap lost)
      BY <1>2 DEF RebufferBegins, WriteTo
    <2>2. /\ ps \in Tables /\ one \in Nat \ {0} /\ one = 1 /\ ps = Wrote(buf.players)
          /\ ps \subseteq buf.players
      BY <1>0 DEF Wrote, Tables
    <2> HIDE DEF ps, one
    <2>3. /\ Carries(b, ch) /\ b.players = ps /\ b.dropped = buf.dropped /\ b.next = 1
      <3>1. /\ b \in Histories /\ b.players = ps /\ b.dropped = buf.dropped /\ b.next = one
            /\ b.track = buf.track /\ b.trackEnd = buf.trackEnd /\ b.buffers = buf.buffers
            /\ b.overtook = buf.overtook
        BY <1>0, <2>2 DEF Histories
      <3> QED BY <1>0, <2>2, <3>1 DEF Carries
    <2> HIDE DEF b
    <2>4. \A p \in Players : /\ dev'[p] = IF p \in ps THEN GetBegin(dev[p], str.owner) ELSE dev[p]
                             /\ view'[p].canBegin = IF p \in buf.players THEN FALSE
                                                                         ELSE view[p].canBegin
      BY <1>0, <2>1 DEF SpendBegin, Views
    <2>5. BeginsKnown'
      BY <2>2, <2>4 DEF AudioInv, AudioOK, BeginsKnown, CanBegin
    <2>6. CallsOK'
      BY <1>0 DEF AudioInv, CallsOK
    <2>7. /\ \A p \in Players : stops'[p] = "none"
          /\ \A p \in Players : \A i \in DOMAIN calls[p] :
               calls[p][i] = "stop" => stops'[p] = "called"
      BY <1>0, StoppedAll
    <2>8. ASSUME ~buf.overtook, NEW p \in Players, dev'[p].bad PROVE p \in b.dropped
      <3>1. CASE p \notin ps
        BY <1>0, <2>3, <2>4, <2>8, <3>1, RefillSays
      <3>2. CASE p \in ps
        <4> SUFFICES ASSUME p \notin buf.dropped PROVE FALSE
          BY <2>3
        <4>1. Refilled(p) /\ ~dev[p].bad
          BY <1>0, <2>2, <2>8, <3>2, RefillReaches
        <4>2. dev[p].st = "started"
          BY <1>0, <4>1 DEF Refilled
        <4>3. dev[p] \in Devices /\ 0 \in Nat
          BY <1>0
        <4>4. dev[p].bad \/ dev[p].st = "stopped" \/ ~CanBegin(dev[p])
          <5>1. GetBegin(dev[p], str.owner).bad
            BY <2>4, <2>8, <3>2
          <5>2. PICK d \in Devices : d = dev[p]
            BY <4>3
          <5> QED BY <1>0, <4>3, <5>1, <5>2, CommandFaults
        <4> QED BY <4>1, <4>2, <4>4 DEF CanBegin
      <3> QED BY <3>1, <3>2
    <2>9. ASSUME ~buf.overtook, NEW p \in str.players, Healthy(p)', p \notin b.dropped
          PROVE  /\ p \in b.players /\ dev'[p].st = "streaming" /\ dev'[p].token = str.owner
                 /\ dev'[p].last = IF b.next = 1 THEN 0 ELSE buf.buffers[b.next - 1]
      <3>1. Healthy(p) /\ Fine(p) /\ p \in Players
        BY <1>0, <2>1, <2>3, <2>9 DEF Fine, Healthy, Tables
      <3>2. p \in buf.players
        BY <1>0, <2>9, <3>1, RefillSays DEF Refilled
      <3>3. p \in ps
        BY <2>2, <3>1, <3>2 DEF Wrote, Healthy
      <3>4. dev[p] \in Devices /\ 0 \in Nat
        BY <1>0, <3>1
      <3>5. /\ GetBegin(dev[p], str.owner).st = "streaming"
            /\ GetBegin(dev[p], str.owner).token = str.owner
            /\ GetBegin(dev[p], str.owner).last = 0
        BY <1>0, <3>4, CommandEffects
      <3> QED BY <2>3, <2>4, <3>1, <3>3, <3>5
    <2>10. buf.track /\ b.next <= Len(buf.buffers) + 1
      <3>1. Len(buf.buffers) \in Nat
        BY <1>0, LenProperties DEF Histories
      <3> QED BY <1>0, <2>3, <3>1 DEF AudioInv, AudioOK, RefillKnown
    <2>11. buf.pc # "loop" /\ UNCHANGED <<lost, calls, app, str>>
      BY <1>0
    <2> QED BY <2>1, <2>3, <2>5, <2>6, <2>7, <2>8, <2>9, <2>10, <2>11, RebufferMoves
  <1> QED BY <1>1, <1>2

(* do_rebuffer sends the next chunk of the history. *)
LEMMA RebufferChunkAudio ==
  ASSUME AudioInv, IndInv', buf.pc = "buffer", buf.next <= Len(buf.buffers),
         AllCanBuffer(buf.players),
         WriteTo(buf.players, LAMBDA d : GetChunk(d, str.owner, buf.buffers[buf.next])),
         view' = SpendChunk(buf.players),
         RebufferGoesOn([buf EXCEPT !.players = Wrote(@), !.next = @ + 1, !.misses = 0],
                        ch, "buffer"),
         UNCHANGED <<lost, calls, stops, app, str>>
  PROVE  AudioInv'
  <1> DEFINE ps == Wrote(buf.players)
             n == buf.buffers[buf.next]
             k == buf.next + 1
             b == [buf EXCEPT !.players = ps, !.next = k, !.misses = 0]
  <1>0. /\ buf \in Histories /\ ch \in Channels /\ buf.players \in Tables
        /\ str.players \in Tables /\ buf.players \subseteq Players
        /\ str.owner \in Nat /\ view \in [Players -> Views] /\ dev \in [Players -> Devices]
        /\ buf.next \in Nat \ {0} /\ buf.buffers \in Seq(Nat)
    BY DEF AudioInv, IndInv, ThreadsOK, Histories, Streams, DevicesOK, Tables
  <1>1. /\ RebufferGoesOn(b, ch, "buffer")
        /\ dev' = [p \in Players |-> IF p \in ps THEN GetChunk(dev[p], str.owner, n) ELSE dev[p]]
        /\ failed' = failed \cup (buf.players \cap lost)
    BY DEF WriteTo
  <1>2. /\ Len(buf.buffers) \in Nat /\ DOMAIN buf.buffers = 1 .. Len(buf.buffers)
    BY <1>0, LenProperties
  <1>3. buf.next \in 1 .. Len(buf.buffers) /\ k \in Nat \ {0} /\ k = buf.next + 1
    BY <1>0, <1>2
  <1>4. n \in Nat /\ n = buf.buffers[buf.next]
    BY <1>0, <1>3, ElementOfSeq
  <1>5. ps \in Tables /\ ps = Wrote(buf.players) /\ ps \subseteq buf.players
    BY <1>0 DEF Wrote, Tables
  <1> HIDE DEF ps, k, n
  <1>6. Carries(b, ch) /\ b.players = ps /\ b.dropped = buf.dropped /\ b.next = k
    <2>1. /\ b \in Histories /\ b.players = ps /\ b.dropped = buf.dropped /\ b.next = k
          /\ b.track = buf.track /\ b.trackEnd = buf.trackEnd /\ b.buffers = buf.buffers
          /\ b.overtook = buf.overtook
      BY <1>0, <1>3, <1>5 DEF Histories
    <2> QED BY <1>0, <1>5, <2>1 DEF Carries
  <1> HIDE DEF b
  <1>7. \A p \in Players : /\ dev'[p] = IF p \in ps THEN GetChunk(dev[p], str.owner, n) ELSE dev[p]
                           /\ view'[p].canBegin = view[p].canBegin
    <2>1. \A p \in Players : view'[p] = IF p \in buf.players THEN [view[p] EXCEPT !.free = @ - 1]
                                                             ELSE view[p]
      BY DEF SpendChunk
    <2>2. \A p \in Players : \A j : [view[p] EXCEPT !.free = j].canBegin = view[p].canBegin
      BY <1>0 DEF Views
    <2> QED BY <1>1, <2>1, <2>2, ZenonT(60)
  <1>8. BeginsKnown'
    <2>1. \A p \in Players : dev[p] \in Devices /\ Sure(view[p].canBegin, dev[p])
      BY <1>0 DEF AudioInv, AudioOK, BeginsKnown, Sure
    <2>2. \A p \in Players : Sure(view[p].canBegin, GetChunk(dev[p], str.owner, n))
      BY <1>0, <1>4, <2>1, SureAfter
    <2>3. \A p \in Players : Sure(view'[p].canBegin, dev'[p])
      BY <1>7, <2>1, <2>2
    <2> QED BY <2>3 DEF BeginsKnown, Sure, CanBegin
  <1>9. /\ CallsOK' /\ \A p \in Players : stops'[p] = "none"
        /\ \A p \in Players : \A i \in DOMAIN calls[p] : calls[p][i] = "stop" => stops'[p] = "called"
    BY StoppedAll DEF AudioInv, CallsOK
  <1>10. ASSUME ~buf.overtook, NEW p \in Players, dev'[p].bad PROVE p \in b.dropped
    <2>1. CASE p \notin ps
      BY <1>6, <1>7, <1>10, <2>1, RefillSays
    <2>2. CASE p \in ps
      <3> SUFFICES ASSUME p \notin buf.dropped PROVE FALSE
        BY <1>6
      <3>1. Refilled(p) /\ ~dev[p].bad
        BY <1>5, <1>10, <2>2, RefillReaches
      <3>2. /\ dev[p].st = "streaming" /\ dev[p].token = str.owner
            /\ dev[p].last = IF buf.next = 1 THEN 0 ELSE buf.buffers[buf.next - 1]
        BY <3>1 DEF Refilled
      <3>3. dev[p].fill # Capacity
        <4>1. view[p].free > 0
          BY <1>5, <2>2 DEF AllCanBuffer
        <4>2. /\ view[p].free \in Nat /\ dev[p].fill \in Nat /\ Capacity \in Nat
              /\ view[p].free + dev[p].fill <= Capacity
          BY <1>0, ConstantsAssumption DEF AudioInv, IndInv, DevicesOK, Room, Views, Devices
        <4> QED BY <4>1, <4>2
      <3>4. dev[p].last = 0 \/ n = dev[p].last + 1
        <4>1. PICK w \in Marks : Remembers(buf, w)
          BY <1>10, RefillSays
        <4>2. CASE buf.next # 1
          <5>1. PICK i \in DOMAIN buf.buffers : i = buf.next - 1 /\ buf.next = i + 1
            BY <1>2, <1>3, <4>2
          <5>2. buf.buffers[buf.next] = buf.buffers[i] + 1
            BY <1>2, <1>3, <4>1, <5>1 DEF Remembers, InOrder
          <5> QED BY <1>4, <3>2, <4>2, <5>1, <5>2
        <4> QED BY <3>2, <4>2
      <3>5. dev[p] \in Devices
        BY <1>0
      <3>6. \/ dev[p].bad \/ dev[p].st # "streaming" \/ dev[p].token # str.owner
            \/ dev[p].fill = Capacity \/ (dev[p].last # 0 /\ n # dev[p].last + 1)
        BY <1>0, <1>4, <1>7, <1>10, <2>2, <3>5, CommandFaults
      <3> QED BY <3>1, <3>2, <3>3, <3>4, <3>6
    <2> QED BY <2>1, <2>2
  <1>11. ASSUME ~buf.overtook, NEW p \in str.players, Healthy(p)', p \notin b.dropped
         PROVE  /\ p \in b.players /\ dev'[p].st = "streaming" /\ dev'[p].token = str.owner
                /\ dev'[p].last = IF b.next = 1 THEN 0 ELSE buf.buffers[b.next - 1]
    <2>1. Healthy(p) /\ Fine(p) /\ p \in Players
      BY <1>0, <1>1, <1>6, <1>11 DEF Fine, Healthy, Tables
    <2>2. /\ p \in buf.players /\ dev[p].st = "streaming" /\ dev[p].token = str.owner
      BY <1>11, <2>1, RefillSays DEF Refilled
    <2>3. p \in ps
      BY <1>5, <2>1, <2>2 DEF Wrote, Healthy
    <2>4. dev[p] \in Devices
      BY <1>0, <2>1
    <2>5. /\ GetChunk(dev[p], str.owner, n).st = dev[p].st
          /\ GetChunk(dev[p], str.owner, n).token = dev[p].token
          /\ GetChunk(dev[p], str.owner, n).last = n
      BY <1>0, <1>4, <2>4, CommandEffects
    <2>6. k # 1 /\ k - 1 = buf.next
      BY <1>3
    <2> QED BY <1>4, <1>6, <1>7, <2>1, <2>2, <2>3, <2>5, <2>6
  <1>12. buf.track /\ b.next <= Len(buf.buffers) + 1
    BY <1>2, <1>3, <1>6 DEF AudioInv, AudioOK, RefillKnown
  <1>13. buf.pc # "loop"
    OBVIOUS
  <1> QED BY <1>1, <1>6, <1>8, <1>9, <1>10, <1>11, <1>12, <1>13, RebufferMoves

(* do_rebuffer has sent the history: the players are where the owner's next   *)
(* command expects them.                                                      *)
LEMMA RebufferReturnsAudio ==
  ASSUME AudioInv, IndInv', buf.pc = "buffer", buf.next > Len(buf.buffers),
         UNCHANGED <<lost, view, calls, stops, app, str>>, NEW b, Carries(b, ch),
         b.dropped = buf.dropped, RebufferReturns(b, ch),
         \/ ~buf.trackEnd /\ UNCHANGED <<dev, failed>>
         \/ buf.trackEnd /\ WriteTo(buf.players, GetEnd)
  PROVE  AudioInv'
  <1>0. /\ buf \in Histories /\ buf.players \in Tables /\ str.players \in Tables
        /\ dev \in [Players -> Devices] /\ buf.next \in Nat \ {0} /\ buf.buffers \in Seq(Nat)
        /\ buf.track /\ buf.next <= Len(buf.buffers) + 1 /\ str.pc = "rebuffer"
    BY DEF AudioInv, IndInv, ThreadsOK, Histories, Streams, DevicesOK, AudioOK, RefillKnown,
           HandshakeOK
  <1>1. Len(buf.buffers) \in Nat /\ buf.next = Len(buf.buffers) + 1
    <2>1. Len(buf.buffers) \in Nat
      BY <1>0, LenProperties
    <2> QED BY <1>0, <2>1
  <1>2. /\ SameHistory /\ ch'.events = ch.events
        /\ ch'.rebufferRequest = ch.rebufferRequest /\ ch'.rebufferDone
        /\ buf'.pc = "loop" /\ buf'.overtook = buf.overtook /\ buf'.dropped = buf.dropped
    BY ReturnsSays
  <1>3. CallsOK' /\ StopsOK'
    <2>1. failed \subseteq failed'
      BY DEF WriteTo
    <2> QED BY <1>0, <2>1, StopsKept DEF AudioInv
  <1>4. RefillKnown'
    BY <1>2 DEF RefillKnown
  <1>5. ~buf.overtook => ~str.beginNow
    <2> SUFFICES ASSUME ~buf.overtook PROVE ~str.beginNow
      OBVIOUS
    <2>1. PICK w \in Marks : Remembers(buf, w) /\ Expects(w)
      BY RefillSays
    <2> QED BY <1>0, <2>1 DEF Remembers, Expects
  <1>6. CASE ~buf.trackEnd /\ UNCHANGED <<dev, failed>>
    <2>1. BeginsKnown' /\ InPlace'
      BY <1>2, <1>6 DEF AudioInv, AudioOK, BeginsKnown, InPlace, AudioIsInPlace, CanBegin
    <2>2. ASSUME ~buf.overtook, NEW p \in str.players, Fine(p)' PROVE InStep(p)'
      <3>1. Fine(p)
        BY <1>2, <1>6, <2>2 DEF Fine, Healthy
      <3>2. /\ dev[p].st = "streaming" /\ dev[p].token = str.owner
            /\ dev[p].last = IF buf.next = 1 THEN 0 ELSE buf.buffers[buf.next - 1]
        BY <2>2, <3>1, RefillSays DEF Refilled
      <3>3. PICK w \in Marks : Remembers(buf, w) /\ Expects(w)
        BY <2>2, RefillSays
      <3>4. ASSUME NEW a \in Apps, InTrack(a)
            PROVE  dev[p].last = 0 \/ dev[p].last + 1 = app[a].next
        <4>1. w.last = 0 \/ w.last + 1 = app[a].next
          BY <1>0, <3>3, <3>4 DEF Expects
        <4>2. CASE buf.buffers = << >>
          <5>1. buf.next = 1
            BY <1>1, <4>2
          <5> QED BY <3>2, <5>1
        <4>3. CASE buf.buffers # << >>
          <5>1. Len(buf.buffers) # 0
            BY <1>0, <4>3, EmptySeq
          <5>2. buf.next # 1 /\ buf.next - 1 = Len(buf.buffers)
            BY <1>1, <5>1
          <5>3. w.last # 0 /\ w.last = buf.buffers[Len(buf.buffers)]
            BY <3>3, <4>3 DEF Remembers
          <5> QED BY <3>2, <4>1, <5>2, <5>3
        <4> QED BY <4>2, <4>3
      <3> QED BY <1>5, <1>6, <2>2, <3>2, <3>4 DEF InStep, InTrack
    <2>3. buf.pc # "loop"
      OBVIOUS
    <2> QED BY <1>2, <1>3, <1>4, <2>1, <2>2, <2>3, RebufferLeaves
  <1>7. CASE buf.trackEnd /\ WriteTo(buf.players, GetEnd)
    <2> DEFINE ps == Wrote(buf.players)
    <2>1. /\ dev' = [p \in Players |-> IF p \in ps THEN GetEnd(dev[p]) ELSE dev[p]]
          /\ failed' = failed \cup (buf.players \cap lost)
      BY <1>7 DEF WriteTo
    <2>2. ps = Wrote(buf.players)
      OBVIOUS
    <2> HIDE DEF ps
    <2>3. \A p \in Players : /\ dev'[p] = IF p \in ps THEN GetEnd(dev[p]) ELSE dev[p]
                             /\ dev[p] \in Devices /\ Sure(view[p].canBegin, dev[p])
      BY <1>0, <2>1 DEF AudioInv, AudioOK, BeginsKnown, Sure
    <2>4. \A p \in Players : /\ GetEnd(dev[p]).st = "ended" /\ Sure(view[p].canBegin, GetEnd(dev[p]))
                             /\ GetEnd(dev[p]).bad => dev[p].bad \/ dev[p].st # "streaming"
      <3>1. 0 \in Nat
        OBVIOUS
      <3> QED BY <2>3, <3>1, CommandEffects, CommandFaults, SureAfter
    <2>5. BeginsKnown'
      <3>1. \A p \in Players : Sure(view'[p].canBegin, dev'[p])
        BY <2>3, <2>4
      <3> QED BY <3>1 DEF BeginsKnown, Sure, CanBegin
    <2>6. ASSUME ~buf.overtook, NEW p \in Players, dev'[p].bad PROVE p \in buf.dropped
      <3>1. CASE p \notin ps
        BY <2>3, <2>6, <3>1, RefillSays
      <3>2. CASE p \in ps
        <4> SUFFICES ASSUME p \notin buf.dropped PROVE FALSE
          OBVIOUS
        <4>1. Refilled(p) /\ ~dev[p].bad
          BY <2>2, <2>6, <3>2, RefillReaches
        <4> QED BY <2>3, <2>4, <2>6, <3>2, <4>1 DEF Refilled
      <3> QED BY <3>1, <3>2
    <2>7. InPlace'
      BY <1>2, <2>6 DEF InPlace, AudioIsInPlace
    <2>8. ASSUME ~buf.overtook, NEW p \in str.players, Fine(p)' PROVE InStep(p)'
      <3>1. Healthy(p) /\ Fine(p) /\ p \in Players
        BY <1>0, <1>2, <2>1, <2>8 DEF Fine, Healthy, Tables
      <3>2. p \in ps
        BY <2>2, <2>8, <3>1, RefillSays DEF Refilled, Wrote, Healthy
      <3>3. dev'[p].st = "ended"
        BY <2>3, <2>4, <3>1, <3>2
      <3>4. PICK w \in Marks : Remembers(buf, w) /\ Expects(w)
        BY <2>8, RefillSays
      <3>5. \A a \in Apps : ~InTrack(a)'
        BY <1>0, <1>7, <3>4 DEF Remembers, Expects, InTrack
      <3> QED BY <1>5, <2>8, <3>3, <3>5 DEF InStep
    <2>9. buf.pc # "loop"
      OBVIOUS
    <2> QED BY <1>2, <1>3, <1>4, <2>5, <2>7, <2>8, <2>9, RebufferLeaves
  <1> QED BY <1>6, <1>7

(* do_rebuffer sends the history. *)
LEMMA RebufferBuffersAudio ==
  ASSUME AudioInv, IndInv', RebufferBuffers
  PROVE  AudioInv'
  <1>0. /\ buf \in Histories /\ ch \in Channels /\ buf.pc = "buffer" /\ buf.players \in Tables
        /\ UNCHANGED <<lost, calls, stops, app, str>>
        /\ buf.next \in Nat \ {0} /\ buf.trackEnd \in BOOLEAN /\ Len(buf.buffers) \in Nat
    BY LenProperties
    DEF RebufferBuffers, BufferAt, AudioInv, IndInv, ThreadsOK, Histories
  <1>1. CASE buf.next > Len(buf.buffers) /\ ~buf.trackEnd
    <2>1. ~(buf.next <= Len(buf.buffers))
      BY <1>0, <1>1
    <2>2. RebufferReturns(buf, ch) /\ UNCHANGED <<dev, failed, view>>
      BY <1>1, <2>1, Zenon DEF RebufferBuffers
    <2>3. Carries(buf, ch)
      BY <1>0 DEF Carries
    <2> QED BY <1>0, <1>1, <2>2, <2>3, RebufferReturnsAudio
  <1>2. CASE buf.next > Len(buf.buffers) /\ buf.trackEnd
    <2> DEFINE ps == Wrote(buf.players)
               b == [buf EXCEPT !.players = ps]
    <2>1. ~(buf.next <= Len(buf.buffers))
      BY <1>0, <1>2
    <2>2. WriteTo(buf.players, GetEnd) /\ RebufferReturns(b, ch) /\ view' = view
      BY <1>2, <2>1, Zenon DEF RebufferBuffers
    <2>3. ps \in Tables /\ ps \subseteq buf.players
      BY <1>0 DEF Wrote, Tables
    <2> HIDE DEF ps
    <2>4. Carries(b, ch) /\ b.dropped = buf.dropped
      BY <1>0, <2>3 DEF Carries, Histories
    <2> HIDE DEF b
    <2> QED BY <1>0, <1>2, <2>2, <2>4, RebufferReturnsAudio
  <1>3. CASE buf.next <= Len(buf.buffers) /\ AllCanBuffer(buf.players)
    <2>1. ~(buf.next > Len(buf.buffers))
      BY <1>0, <1>3
    <2>2. /\ WriteTo(buf.players, LAMBDA d : GetChunk(d, str.owner, buf.buffers[buf.next]))
          /\ view' = SpendChunk(buf.players)
          /\ RebufferGoesOn([buf EXCEPT !.players = Wrote(@), !.next = @ + 1, !.misses = 0],
                            ch, "buffer")
      BY <1>3, <2>1, Zenon DEF RebufferBuffers
    <2> QED BY <1>0, <1>3, <2>2, RebufferChunkAudio
  <1>4. CASE buf.next <= Len(buf.buffers) /\ ~AllCanBuffer(buf.players)
    <2>1. ~(buf.next > Len(buf.buffers))
      BY <1>0, <1>4
    <2>2. PICK able : RebufferWaits(able)
      BY <1>4, <2>1, Zenon DEF RebufferBuffers
    <2>3. buf.pc \in {"begin", "buffer"}
      BY <1>0
    <2> QED BY <1>0, <2>2, <2>3, RebufferWaitsAudio
  <1>5. buf.next > Len(buf.buffers) \/ buf.next <= Len(buf.buffers)
    BY <1>0
  <1> QED BY <1>1, <1>2, <1>3, <1>4, <1>5

(* Every step of buffer_thread. *)
LEMMA BufferAudio ==
  ASSUME AudioInv, IndInv', BufferStep
  PROVE  AudioInv'
  BY BufferForgets, BufferRemembers, BufferRequestAudio, RebufferStopsAudio, RebufferMatchesAudio,
     RebufferBeginsAudio, RebufferBuffersAudio DEF BufferStep
-----------------------------------------------------------------------------
(* Init: nothing was sent, and the only event says so. *)
LEMMA InitAudio == Init => AudioInv
  <1> SUFFICES ASSUME Init PROVE AudioInv
    OBVIOUS
  <1>0. IndInv
    BY InitInv
  <1>1. /\ str.pc = "waiting" /\ buf.pc = "loop" /\ ~ch.rebufferRequest /\ ~ch.rebufferDone
        /\ str.owner = 0 /\ buf.track = FALSE /\ buf.trackEnd = FALSE /\ buf.buffers = << >>
        /\ ch.bufEvent = None /\ ch.events = <<Event("WAITING", 0)>>
    BY DEF Init
  <1>2. TokensOK
    <2>1. \A a \in Apps : app[a].token = 0 /\ app[a].next = 1 /\ app[a].req = None
      BY DEF Init
    <2>2. None \notin {"track_begin", "buffer", "track_end"}
      BY ConstantsAssumption DEF Requests
    <2> QED BY <1>1, <2>1, <2>2 DEF TokensOK
  <1>3. HandshakeOK
    BY <1>1 DEF HandshakeOK
  <1>4. CallsOK /\ StopsOK
    <2>1. << >> \in Seq(CallNames)
      BY EmptySeq
    <2>2. CallsOK
      BY <2>1 DEF Init, CallsOK, CallNames
    <2>3. \A p \in Players : calls[p] = << >> /\ stops[p] = "none"
      BY DEF Init
    <2>4. StopsOK
      BY <2>3 DEF StopsOK
    <2> QED BY <2>2, <2>4
  <1>5. HistoryFollows
    <2> DEFINE m == [track |-> FALSE, end |-> FALSE, last |-> 0]
    <2>1. m \in Marks /\ ~m.track /\ ~m.end /\ m.last = 0 /\ m.track = FALSE /\ m.end = FALSE
      BY DEF Marks
    <2>2. PICK e \in Events : e = Event("WAITING", 0) /\ e.event = "WAITING"
      <3>1. Passes(ch) /\ "WAITING" \in EventNames
        BY <1>0, TakingPasses DEF EventNames
      <3> QED BY <3>1, TellPasses
    <2> HIDE DEF m
    <2>3. Remembers(buf, m)
      <3>1. InOrder(<< >>)
        BY DEF InOrder
      <3> QED BY <1>1, <2>1, <3>1 DEF Remembers
    <2>4. AtHand(m, m)
      BY <1>1 DEF AtHand
    <2>5. MayFollow(m, e) /\ After(m, e) = m
      BY <2>1, <2>2, AfterEvent DEF MayFollow
    <2>6. ch.events = Append(<< >>, e) /\ << >> \in Seq(Events)
      BY <1>1, <2>2, EmptySeq
    <2>7. Path(ch.events, m, m)
      <3>1. Path(<< >>, m, m)
        BY <2>1, PathStays
      <3>2. Path(Append(<< >>, e), m, After(m, e))
        BY <2>5, <2>6, <3>1, PathGrows
      <3> QED BY <2>5, <2>6, <3>2
    <2>8. Expects(m)
      BY <1>1 DEF Expects
    <2> QED BY <2>1, <2>3, <2>4, <2>7, <2>8 DEF HistoryFollows, Reaches
  <1>6. RefillFollows
    BY <1>1 DEF RefillFollows
  <1>7. AudioOK
    <2>1. \A p \in Players : dev[p] = NewDevice
      BY DEF Init
    <2>2. NewDevice.st = "stopped" /\ NewDevice.bad = FALSE
      BY DEF NewDevice
    <2>3. BeginsKnown /\ InPlace
      BY <2>1, <2>2 DEF BeginsKnown, InPlace, AudioIsInPlace, CanBegin
    <2> QED BY <1>1, <2>3 DEF AudioOK, StartsKnown, StreamKnown, RefillKnown
  <1> QED BY <1>0, <1>2, <1>3, <1>4, <1>5, <1>6, <1>7 DEF AudioInv

(* Every step keeps the audio in place. *)
LEMMA NextAudio == AudioInv /\ [Next]_vars => AudioInv'
  <1> SUFFICES ASSUME AudioInv, [Next]_vars PROVE AudioInv'
    OBVIOUS
  <1>0. IndInv'
    BY NextInv DEF AudioInv
  <1>1. CASE UNCHANGED vars
    <2>1. UNCHANGED <<lost, failed, dev, view, calls, stops, app, ch, str, buf>>
      BY <1>1 DEF vars
    <2> QED BY <1>0, <2>1, QuietStep DEF SameSignals
  <1>2. CASE Environment
    BY <1>0, <1>2, EnvironmentAudio
  <1>3. CASE ThreadStep
    BY <1>0, <1>3, MultsAudio, PollAudio, StreamAudio, BufferAudio, PlayAudio, StopCallsAudio
    DEF ThreadStep
  <1> QED BY <1>1, <1>2, <1>3 DEF Next

(* In every interleaving of the distributor's passes: only the owner of the   *)
(* stream has its token; stream_thread's rebuffer and do_rebuffer never run   *)
(* apart; a player is told to stop once, by the thread that waits for it; the *)
(* history of buffer_thread, with the events on their way to it, is what      *)
(* stream_thread sent; and each player's device is where the next command of  *)
(* handle_stream_command or do_rebuffer expects it.                           *)
THEOREM AudioInductive == Spec => []AudioInv
  BY InitAudio, NextAudio, PTL DEF Spec

(* Whatever joins, leaves, flushes, acquires and broken connections           *)
(* interleave, a player gets a track's audio in order, of the session it      *)
(* began the track in and no more than it has room for                        *)
(* (handle_stream_command, do_rebuffer), unless a rebuffer has dropped the    *)
(* player, or a request for a rebuffer has overtaken an event that says what  *)
(* do_rebuffer is to send.  The second exception is real: events go to        *)
(* buffer_thread one per pass, rebuffer_request_ch goes directly.             *)
THEOREM AudioStaysInPlace == Spec => [](~buf.overtook => AudioIsInPlace)
  <1>1. AudioInv => (~buf.overtook => AudioIsInPlace)
    BY DEF AudioInv, AudioOK, InPlace
  <1> QED BY <1>1, AudioInductive, PTL
-----------------------------------------------------------------------------
(* That the history has what some player has yet to play.  First, what the    *)
(* history and the events on their way to it hold together.                   *)

\* No event of P after the i-th empties the history.
NoClear(P, i) == \A j \in (i + 1) .. Len(P) : ~Clears(P[j])

\* Chunk n is among the events of P, and will stay in the history.
ToCome(P, n) == \E i \in DOMAIN P : P[i].event = "BUFFER" /\ P[i].n = n /\ NoClear(P, i)

\* Chunk n is in the history q or comes to it with the events of P.
HeldIn(q, P, n) == (NoClear(P, 0) /\ \E i \in DOMAIN q : q[i] = n) \/ ToCome(P, n)

\* The chunks to come are those from m + 1 to l, in order, and the history has
\* the ones up to m; l is 0 when there is nothing since the track began.
Rising(P) == \A i, j \in DOMAIN P : /\ i < j /\ P[i].event = "BUFFER" /\ P[j].event = "BUFFER"
                                    /\ NoClear(P, i)
                                    => P[i].n < P[j].n
Window(q, P, m, l) ==
    /\ m <= l
    /\ \A n \in Nat : ToCome(P, n) <=> m < n /\ n <= l
    /\ NoClear(P, 0) => Len(q) <= m /\ \A i \in DOMAIN q : q[i] = m - Len(q) + i
    /\ Rising(P)
    /\ NoClear(P, 0) /\ l = 0 => q = << >>

(* The chunks that a window holds. *)
LEMMA WindowHolds ==
  ASSUME NEW q \in Seq(Nat), NEW P \in Seq(Events), NEW m \in Nat, NEW l \in Nat,
         Window(q, P, m, l), NEW n \in Nat
  PROVE  HeldIn(q, P, n) <=> (m < n /\ n <= l) \/ (NoClear(P, 0) /\ m - Len(q) < n /\ n <= m)
  <1>1. Len(q) \in Nat /\ DOMAIN q = 1 .. Len(q)
    BY LenProperties
  <1>2. ASSUME NoClear(P, 0)
        PROVE  (\E i \in DOMAIN q : q[i] = n) <=> (m - Len(q) < n /\ n <= m)
    <2>1. \A i \in 1 .. Len(q) : q[i] = m - Len(q) + i
      BY <1>1, <1>2 DEF Window
    <2>2. ASSUME m - Len(q) < n, n <= m PROVE \E i \in DOMAIN q : q[i] = n
      <3>1. n - m + Len(q) \in 1 .. Len(q)
        BY <1>1, <2>2
      <3>2. q[n - m + Len(q)] = n
        BY <1>1, <2>1, <3>1
      <3> QED BY <1>1, <3>1, <3>2
    <2> QED BY <1>1, <2>1, <2>2
  <1>3. ToCome(P, n) <=> m < n /\ n <= l
    BY DEF Window
  <1> QED BY <1>2, <1>3 DEF HeldIn

(* An event that is put. *)
LEMMA OneMore ==
  ASSUME NEW P \in Seq(Events), NEW e \in Events
  PROVE  /\ Append(P, e) \in Seq(Events)
         /\ Clears(e) => \A i \in 0 .. Len(P) : ~NoClear(Append(P, e), i)
         /\ ~Clears(e) => \A i \in 0 .. Len(P) : NoClear(Append(P, e), i) <=> NoClear(P, i)
         /\ NoClear(Append(P, e), Len(P) + 1)
         /\ \A n \in Nat : ToCome(Append(P, e), n) <=>
              (~Clears(e) /\ ToCome(P, n)) \/ (e.event = "BUFFER" /\ e.n = n)
  <1> DEFINE k == Len(P)
             R == Append(P, e)
  <1>1. /\ k \in Nat /\ DOMAIN P = 1 .. k /\ R \in Seq(Events) /\ Len(R) = k + 1
        /\ DOMAIN R = 1 .. (k + 1) /\ R[k + 1] = e /\ \A i \in 1 .. k : R[i] = P[i]
    BY AppendProperties, LenProperties
  <1> HIDE DEF R, k
  <1>2. Clears(e) => \A i \in 0 .. k : ~NoClear(R, i)
    BY <1>1 DEF NoClear
  <1>3. ASSUME ~Clears(e), NEW i \in 0 .. k PROVE NoClear(R, i) <=> NoClear(P, i)
    <2>1. \A j \in (i + 1) .. k : j \in 1 .. k
      BY <1>1
    <2>2. \A j \in (i + 1) .. (k + 1) : j = k + 1 \/ j \in (i + 1) .. k
      BY <1>1
    <2>3. \A j \in (i + 1) .. k : j \in (i + 1) .. (k + 1)
      BY <1>1
    <2> QED BY <1>1, <1>3, <2>1, <2>2, <2>3 DEF NoClear, k
  <1>4. NoClear(R, k + 1)
    BY <1>1 DEF NoClear
  <1>5. ASSUME NEW n \in Nat
        PROVE  ToCome(R, n) <=> (~Clears(e) /\ ToCome(P, n)) \/ (e.event = "BUFFER" /\ e.n = n)
    <2>1. ASSUME ToCome(R, n)
          PROVE  (~Clears(e) /\ ToCome(P, n)) \/ (e.event = "BUFFER" /\ e.n = n)
      <3>1. PICK i \in 1 .. (k + 1) : R[i].event = "BUFFER" /\ R[i].n = n /\ NoClear(R, i)
        BY <1>1, <2>1 DEF ToCome
      <3>2. CASE i = k + 1
        BY <1>1, <3>1, <3>2
      <3>3. CASE i \in 1 .. k
        <4>1. i \in 0 .. k
          BY <1>1, <3>3
        <4>2. ~Clears(e) /\ NoClear(P, i)
          BY <1>2, <1>3, <3>1, <4>1
        <4> QED BY <1>1, <3>1, <3>3, <4>2 DEF ToCome
      <3> QED BY <1>1, <3>1, <3>2, <3>3
    <2>2. ASSUME ~Clears(e), ToCome(P, n) PROVE ToCome(R, n)
      <3>1. PICK i \in 1 .. k : P[i].event = "BUFFER" /\ P[i].n = n /\ NoClear(P, i)
        BY <1>1, <2>2 DEF ToCome
      <3>2. i \in 0 .. k /\ i \in 1 .. (k + 1)
        BY <1>1, <3>1
      <3> QED BY <1>1, <1>3, <2>2, <3>1, <3>2 DEF ToCome
    <2>3. ASSUME e.event = "BUFFER", e.n = n PROVE ToCome(R, n)
      <3>1. k + 1 \in 1 .. (k + 1)
        BY <1>1
      <3> QED BY <1>1, <1>4, <2>3, <3>1 DEF ToCome
    <2> QED BY <2>1, <2>2, <2>3
  <1> QED BY <1>1, <1>2, <1>3, <1>4, <1>5 DEF R, k

(* The window after it. *)
LEMMA WindowGrows ==
  ASSUME NEW q \in Seq(Nat), NEW P \in Seq(Events), NEW m \in Nat, NEW l \in Nat,
         Window(q, P, m, l), NEW e \in Events
  PROVE  /\ ~Clears(e) /\ e.event # "BUFFER" => Window(q, Append(P, e), m, l)
         /\ Clears(e) => Window(q, Append(P, e), 0, 0)
         /\ e.event = "BUFFER" /\ e.n # 0 /\ e.n = l + 1 => Window(q, Append(P, e), m, e.n)
         /\ e.event = "BUFFER" /\ e.n # 0 /\ l = 0 => Window(q, Append(P, e), e.n - 1, e.n)
  <1> DEFINE k == Len(P)
             R == Append(P, e)
  <1>1. /\ k \in Nat /\ DOMAIN P = 1 .. k /\ R \in Seq(Events) /\ Len(R) = k + 1
        /\ DOMAIN R = 1 .. (k + 1) /\ R[k + 1] = e /\ \A i \in 1 .. k : R[i] = P[i]
    BY AppendProperties, LenProperties
  <1>2. /\ Clears(e) => \A i \in 0 .. k : ~NoClear(R, i)
        /\ ~Clears(e) => \A i \in 0 .. k : NoClear(R, i) <=> NoClear(P, i)
        /\ \A n \in Nat : ToCome(R, n) <=>
             (~Clears(e) /\ ToCome(P, n)) \/ (e.event = "BUFFER" /\ e.n = n)
    BY OneMore
  <1> HIDE DEF R, k
  <1>3. 0 \in 0 .. k /\ \A i \in 1 .. k : i \in 0 .. k
    BY <1>1
  <1>4. /\ \A n \in Nat : ToCome(P, n) <=> m < n /\ n <= l
        /\ NoClear(P, 0) => Len(q) <= m /\ \A i \in DOMAIN q : q[i] = m - Len(q) + i
        /\ Rising(P) /\ m <= l /\ (NoClear(P, 0) /\ l = 0 => q = << >>)
    BY DEF Window
  <1>5. e.n \in Nat /\ (e.event = "BUFFER" => ~Clears(e))
    BY ConstantsAssumption DEF Events, Clears
  <1>6. ASSUME e.event = "BUFFER" => \A n \in Nat : ToCome(P, n) => n < e.n PROVE Rising(R)
    <2> SUFFICES ASSUME NEW i \in 1 .. (k + 1), NEW j \in 1 .. (k + 1), i < j,
                        R[i].event = "BUFFER", R[j].event = "BUFFER", NoClear(R, i)
                 PROVE  R[i].n < R[j].n
      BY <1>1 DEF Rising
    <2>1. i \in 1 .. k /\ i \in 0 .. k
      BY <1>1
    <2>2. ~Clears(e) /\ NoClear(P, i)
      BY <1>2, <2>1
    <2>3. CASE j \in 1 .. k
      BY <1>1, <1>4, <2>1, <2>2, <2>3 DEF Rising
    <2>4. CASE j = k + 1
      <3>1. P[i].n \in Nat
        <4>1. P[i] \in Events
          BY <1>1, <2>1, ElementOfSeq DEF k
        <4> QED BY <4>1, ConstantsAssumption DEF Events
      <3>2. ToCome(P, P[i].n)
        BY <1>1, <2>1, <2>2 DEF ToCome
      <3> QED BY <1>1, <1>6, <2>1, <2>4, <3>1, <3>2
    <2> QED BY <1>1, <2>3, <2>4
  <1>7. ASSUME ~Clears(e), e.event # "BUFFER" PROVE Window(q, R, m, l)
    BY <1>2, <1>3, <1>4, <1>6, <1>7 DEF Window
  <1>8. ASSUME Clears(e) PROVE Window(q, R, 0, 0)
    BY <1>2, <1>3, <1>5, <1>6, <1>8 DEF Window
  <1>9. ASSUME e.event = "BUFFER", e.n # 0, e.n = l + 1 PROVE Window(q, R, m, e.n)
    BY <1>2, <1>3, <1>4, <1>5, <1>6, <1>9 DEF Window
  <1>10. ASSUME e.event = "BUFFER", e.n # 0, l = 0 PROVE Window(q, R, e.n - 1, e.n)
    <2>1. \A n \in Nat : ~ToCome(P, n)
      BY <1>4, <1>10
    <2>2. NoClear(P, 0) => DOMAIN q = {}
      <3>1. DOMAIN << >> = {}
        OBVIOUS
      <3> QED BY <1>4, <1>10, <3>1
    <2> QED BY <1>2, <1>3, <1>4, <1>5, <1>6, <1>10, <2>1, <2>2 DEF Window
  <1> QED BY <1>7, <1>8, <1>9, <1>10 DEF R

(* The first event is taken. *)
LEMMA OneLess ==
  ASSUME NEW R \in Seq(Events), NEW e \in Events
  PROVE  /\ << e >> \o R \in Seq(Events) /\ Len(<< e >> \o R) = Len(R) + 1
         /\ (<< e >> \o R)[1] = e /\ \A i \in 1 .. Len(R) : (<< e >> \o R)[i + 1] = R[i]
         /\ \A i \in 0 .. Len(R) : NoClear(<< e >> \o R, i + 1) <=> NoClear(R, i)
         /\ NoClear(<< e >> \o R, 0) <=> ~Clears(e) /\ NoClear(R, 0)
         /\ \A n \in Nat : ToCome(<< e >> \o R, n) <=>
              ToCome(R, n) \/ (e.event = "BUFFER" /\ e.n = n /\ NoClear(R, 0))
  <1> DEFINE k == Len(R)
             P == << e >> \o R
  <1>0. << e >> \in Seq(Events) /\ Len(<< e >>) = 1 /\ << e >>[1] = e
    OBVIOUS
  <1>1. /\ k \in Nat /\ DOMAIN R = 1 .. k /\ P \in Seq(Events) /\ Len(P) = k + 1
        /\ DOMAIN P = 1 .. (k + 1)
    BY <1>0, ConcatProperties, LenProperties
  <1>2. \A i \in 1 .. 1 + k : P[i] = IF i <= 1 THEN << e >>[i] ELSE R[i - 1]
    BY <1>0, ConcatProperties
  <1> HIDE DEF P, k
  <1>3. P[1] = e
    <2>1. 1 \in 1 .. 1 + k
      BY <1>1
    <2> QED BY <1>0, <1>2, <2>1
  <1>4. ASSUME NEW i \in 1 .. k PROVE P[i + 1] = R[i]
    <2>1. i + 1 \in 1 .. 1 + k /\ ~(i + 1 <= 1) /\ (i + 1) - 1 = i
      BY <1>1
    <2> QED BY <1>2, <2>1
  <1>5. ASSUME NEW i \in 0 .. k PROVE NoClear(P, i + 1) <=> NoClear(R, i)
    <2>1. \A j \in (i + 1) .. k : j \in 1 .. k /\ j + 1 \in (i + 2) .. (k + 1)
      BY <1>1
    <2>2. \A j \in (i + 2) .. (k + 1) : j - 1 \in (i + 1) .. k /\ (j - 1) + 1 = j
      BY <1>1
    <2>3. i + 1 + 1 = i + 2
      BY <1>1
    <2>4. NoClear(P, i + 1) <=> \A j \in (i + 2) .. (k + 1) : ~Clears(P[j])
      BY <1>1, <2>3 DEF NoClear
    <2>5. NoClear(R, i) <=> \A j \in (i + 1) .. k : ~Clears(R[j])
      BY DEF NoClear, k
    <2> QED BY <1>4, <2>1, <2>2, <2>4, <2>5
  <1>6. NoClear(P, 0) <=> ~Clears(e) /\ NoClear(R, 0)
    <2>1. 0 \in 0 .. k /\ 0 + 1 = 1 /\ 1 + 1 = 2
      BY <1>1
    <2>2. NoClear(P, 0) <=> \A j \in 1 .. (k + 1) : ~Clears(P[j])
      BY <1>1, <2>1 DEF NoClear
    <2>3. NoClear(P, 1) <=> \A j \in 2 .. (k + 1) : ~Clears(P[j])
      BY <1>1, <2>1 DEF NoClear
    <2>4. \A j \in 1 .. (k + 1) : j = 1 \/ j \in 2 .. (k + 1)
      BY <1>1
    <2>5. 1 \in 1 .. (k + 1) /\ \A j \in 2 .. (k + 1) : j \in 1 .. (k + 1)
      BY <1>1
    <2>6. NoClear(P, 1) <=> NoClear(R, 0)
      BY <1>5, <2>1
    <2> QED BY <1>3, <2>2, <2>3, <2>4, <2>5, <2>6
  <1>7. ASSUME NEW n \in Nat
        PROVE  ToCome(P, n) <=>
                 ToCome(R, n) \/ (e.event = "BUFFER" /\ e.n = n /\ NoClear(R, 0))
    <2>1. NoClear(P, 1) <=> NoClear(R, 0)
      <3>1. 0 \in 0 .. k /\ 0 + 1 = 1
        BY <1>1
      <3> QED BY <1>5, <3>1
    <2>2. ASSUME ToCome(P, n)
          PROVE  ToCome(R, n) \/ (e.event = "BUFFER" /\ e.n = n /\ NoClear(R, 0))
      <3>1. PICK i \in 1 .. (k + 1) : P[i].event = "BUFFER" /\ P[i].n = n /\ NoClear(P, i)
        BY <1>1, <2>2 DEF ToCome
      <3>2. CASE i = 1
        BY <1>3, <2>1, <3>1, <3>2
      <3>3. CASE i # 1
        <4>1. PICK j \in 1 .. k : i = j + 1 /\ j \in 0 .. k
          <5>1. i - 1 \in 1 .. k /\ i = (i - 1) + 1 /\ i - 1 \in 0 .. k
            BY <1>1, <3>3
          <5> QED BY <5>1
        <4> QED BY <1>1, <1>4, <1>5, <3>1, <4>1 DEF ToCome
      <3> QED BY <3>2, <3>3
    <2>3. ASSUME ToCome(R, n) PROVE ToCome(P, n)
      <3>1. PICK i \in 1 .. k : R[i].event = "BUFFER" /\ R[i].n = n /\ NoClear(R, i)
        BY <1>1, <2>3 DEF ToCome
      <3>2. i \in 0 .. k /\ i + 1 \in 1 .. (k + 1)
        BY <1>1
      <3> QED BY <1>1, <1>4, <1>5, <3>1, <3>2 DEF ToCome
    <2>4. ASSUME e.event = "BUFFER", e.n = n, NoClear(R, 0) PROVE ToCome(P, n)
      <3>1. 1 \in 1 .. (k + 1)
        BY <1>1
      <3> QED BY <1>1, <1>3, <2>1, <2>4, <3>1 DEF ToCome
    <2> QED BY <2>2, <2>3, <2>4
  <1> QED BY <1>1, <1>3, <1>4, <1>5, <1>6, <1>7 DEF P, k

(* What buffer_thread keeps of an event. *)
LEMMA BuffersAfter ==
  ASSUME NEW b \in Histories, NEW e \in Events
  PROVE  /\ Remember(b, e).buffers \in Seq(Nat)
         /\ Clears(e) => Remember(b, e).buffers = << >>
         /\ e.event = "BUFFER" => Remember(b, e).buffers = Append(b.buffers, e.n)
         /\ ~Clears(e) /\ e.event # "BUFFER" => Remember(b, e).buffers = b.buffers
  <1>0. e.n \in Nat /\ e.event \in EventNames /\ b.buffers \in Seq(Nat)
    BY ConstantsAssumption DEF Events, EventNames, Histories
  <1>1. CASE e.event = "ACQUIRE_STARTED"
    <2>1. Remember(b, e) = [b EXCEPT !.track = FALSE, !.buffers = << >>, !.trackEnd = FALSE]
      BY <1>1 DEF Remember
    <2> QED BY <1>1, <2>1 DEF Histories, Clears
  <1>2. CASE e.event = "TRACK_BEGIN"
    <2>1. Remember(b, e) = [b EXCEPT !.track = TRUE, !.buffers = << >>, !.trackEnd = FALSE]
      BY <1>2 DEF Remember
    <2> QED BY <1>2, <2>1 DEF Histories, Clears
  <1>3. CASE e.event = "BUFFER"
    <2> DEFINE q == Append(b.buffers, e.n)
    <2>1. Remember(b, e) = [b EXCEPT !.buffers = q]
      BY <1>3 DEF Remember
    <2>2. q \in Seq(Nat)
      BY <1>0, AppendProperties
    <2> HIDE DEF q
    <2>3. Remember(b, e).buffers = q
      BY <2>1 DEF Histories
    <2> QED BY <1>3, <2>2, <2>3 DEF q, Clears
  <1>4. CASE e.event = "FLUSH"
    <2>1. Remember(b, e) = [b EXCEPT !.buffers = << >>]
      BY <1>4 DEF Remember
    <2> QED BY <1>4, <2>1 DEF Histories, Clears
  <1>5. CASE e.event = "TRACK_END"
    <2>1. Remember(b, e) = [b EXCEPT !.trackEnd = TRUE]
      BY <1>5 DEF Remember
    <2> QED BY <1>0, <1>5, <2>1 DEF Histories, Clears
  <1>6. CASE e.event \in {"WAITING", "ACQUIRE_DONE", "REBUFFER"}
    <2>1. Remember(b, e) = b
      BY <1>6 DEF Remember
    <2> QED BY <1>0, <1>6, <2>1 DEF Clears
  <1> QED BY <1>0, <1>1, <1>2, <1>3, <1>4, <1>5, <1>6 DEF EventNames

(* The window when buffer_thread has taken an event. *)
LEMMA WindowTaken ==
  ASSUME NEW b \in Histories, NEW R \in Seq(Events), NEW e \in Events, NEW m \in Nat, NEW l \in Nat,
         Window(b.buffers, << e >> \o R, m, l)
  PROVE  /\ \E k \in Nat : Window(Remember(b, e).buffers, R, k, l)
         /\ \A n \in Nat : HeldIn(b.buffers, << e >> \o R, n) => HeldIn(Remember(b, e).buffers, R, n)
  <1> DEFINE P == << e >> \o R
             q == b.buffers
             r == Remember(b, e).buffers
             c == Len(q)
             s == Len(R)
  <1>0. /\ e.n \in Nat /\ q \in Seq(Nat) /\ c \in Nat /\ DOMAIN q = 1 .. c
        /\ s \in Nat /\ DOMAIN R = 1 .. s
    BY ConstantsAssumption, LenProperties DEF Events, Histories
  <1>1. /\ P \in Seq(Events) /\ Len(P) = s + 1 /\ P[1] = e
        /\ \A i \in 1 .. s : P[i + 1] = R[i]
        /\ \A i \in 0 .. s : NoClear(P, i + 1) <=> NoClear(R, i)
        /\ NoClear(P, 0) <=> ~Clears(e) /\ NoClear(R, 0)
        /\ \A n \in Nat : ToCome(P, n) <=>
             ToCome(R, n) \/ (e.event = "BUFFER" /\ e.n = n /\ NoClear(R, 0))
    BY OneLess
  <1>2. DOMAIN P = 1 .. (s + 1)
    BY <1>1, LenProperties
  <1>3. /\ r \in Seq(Nat)
        /\ Clears(e) => r = << >>
        /\ e.event = "BUFFER" => r = Append(q, e.n)
        /\ ~Clears(e) /\ e.event # "BUFFER" => r = q
    BY BuffersAfter
  <1>4. /\ m <= l /\ \A n \in Nat : ToCome(P, n) <=> m < n /\ n <= l
        /\ NoClear(P, 0) => c <= m /\ \A i \in DOMAIN q : q[i] = m - c + i
        /\ Rising(P) /\ (NoClear(P, 0) /\ l = 0 => q = << >>)
    BY DEF Window
  <1> HIDE DEF P, q, r, c, s
  <1>5. Rising(R)
    <2> SUFFICES ASSUME NEW i \in 1 .. s, NEW j \in 1 .. s, i < j, R[i].event = "BUFFER",
                        R[j].event = "BUFFER", NoClear(R, i)
                 PROVE  R[i].n < R[j].n
      BY <1>0 DEF Rising
    <2>1. /\ i + 1 \in 1 .. (s + 1) /\ j + 1 \in 1 .. (s + 1) /\ i + 1 < j + 1 /\ i \in 0 .. s
      BY <1>0
    <2>2. NoClear(P, i + 1) /\ P[i + 1] = R[i] /\ P[j + 1] = R[j]
      BY <1>1, <2>1
    <2> QED BY <1>2, <1>4, <2>1, <2>2 DEF Rising
  <1>6. CASE e.event # "BUFFER" \/ ~NoClear(R, 0)
    <2>1. \A n \in Nat : ToCome(R, n) <=> m < n /\ n <= l
      BY <1>1, <1>4, <1>6
    <2>2. CASE Clears(e)
      <3>1. DOMAIN << >> = {}
        OBVIOUS
      <3>4. r = << >> /\ DOMAIN r = {}
        BY <1>3, <2>2, <3>1
      <3>2. Window(r, R, m, l)
        BY <1>4, <1>5, <2>1, <3>4 DEF Window
      <3>3. \A n \in Nat : HeldIn(q, P, n) => HeldIn(r, R, n)
        BY <1>1, <1>6, <2>2 DEF HeldIn
      <3> QED BY <3>2, <3>3 DEF P, q, r
    <2>3. CASE ~Clears(e) /\ e.event # "BUFFER"
      <3>1. r = q
        BY <1>3, <2>3
      <3>2. Window(r, R, m, l)
        BY <1>1, <1>4, <1>5, <2>1, <2>3, <3>1 DEF Window, c
      <3>3. \A n \in Nat : HeldIn(q, P, n) => HeldIn(r, R, n)
        BY <1>1, <1>6, <2>3, <3>1 DEF HeldIn
      <3> QED BY <3>2, <3>3 DEF P, q, r
    <2>4. CASE ~NoClear(R, 0)
      <3>1. Window(r, R, m, l)
        BY <1>4, <1>5, <2>1, <2>4 DEF Window
      <3>2. \A n \in Nat : HeldIn(q, P, n) => HeldIn(r, R, n)
        BY <1>1, <2>4 DEF HeldIn
      <3> QED BY <3>1, <3>2 DEF P, q, r
    <2> QED BY <1>6, <2>2, <2>3, <2>4
  <1>7. CASE e.event = "BUFFER" /\ NoClear(R, 0)
    <2> DEFINE x == e.n
    <2>1. ~Clears(e) /\ NoClear(P, 0) /\ r = Append(q, x)
      BY <1>1, <1>3, <1>7 DEF Clears
    <2>2. ToCome(P, x) /\ m < x /\ x <= l
      BY <1>0, <1>1, <1>4, <1>7
    <2>3. NoClear(P, 1) /\ 1 \in 1 .. (s + 1)
      <3>1. 0 \in 0 .. s /\ 0 + 1 = 1 /\ 1 \in 1 .. (s + 1)
        BY <1>0
      <3> QED BY <1>1, <1>7, <3>1
    <2>4. ASSUME NEW n \in Nat, ToCome(R, n) PROVE x < n
      <3>1. PICK i \in 1 .. s : R[i].event = "BUFFER" /\ R[i].n = n
        BY <1>0, <2>4 DEF ToCome
      <3>2. i + 1 \in 1 .. (s + 1) /\ 1 < i + 1
        BY <1>0
      <3>3. P[i + 1] = R[i] /\ P[1] = e
        BY <1>1
      <3> QED BY <1>2, <1>4, <1>7, <2>3, <3>1, <3>2, <3>3 DEF Rising
    <2>5. x = m + 1
      <3>1. m + 1 \in Nat /\ ToCome(P, m + 1)
        BY <1>0, <1>4, <2>2
      <3>2. ToCome(R, m + 1) \/ x = m + 1
        BY <1>1, <3>1
      <3> QED BY <1>0, <2>2, <2>4, <3>1, <3>2
    <2>6. \A n \in Nat : ToCome(R, n) <=> x < n /\ n <= l
      BY <1>0, <1>1, <1>4, <2>2, <2>4, <2>5
    <2>7. /\ Len(r) = c + 1 /\ DOMAIN r = 1 .. (c + 1) /\ r[c + 1] = x
          /\ \A i \in 1 .. c : r[i] = q[i]
      <3>1. x \in Nat
        BY <1>0
      <3> HIDE DEF x
      <3>2. Len(Append(q, x)) = c + 1 /\ Append(q, x)[c + 1] = x
            /\ \A i \in 1 .. c : Append(q, x)[i] = q[i]
        BY <1>0, <3>1, AppendProperties DEF c
      <3>3. DOMAIN r = 1 .. Len(r)
        BY <1>3, LenProperties
      <3> QED BY <2>1, <3>2, <3>3
    <2>8. \A i \in DOMAIN r : r[i] = x - Len(r) + i
      <3>1. \A i \in 1 .. c : r[i] = x - Len(r) + i
        <4> SUFFICES ASSUME NEW i \in 1 .. c PROVE r[i] = x - Len(r) + i
          OBVIOUS
        <4>1. r[i] = q[i] /\ q[i] = m - c + i
          BY <1>0, <1>4, <2>1, <2>7
        <4>2. m - c + i = (m + 1) - (c + 1) + i
          BY <1>0
        <4> QED BY <2>5, <2>7, <4>1, <4>2
      <3>2. r[c + 1] = x - Len(r) + (c + 1)
        BY <1>0, <2>7
      <3> QED BY <1>0, <2>7, <3>1, <3>2
    <2>9. l # 0
      BY <1>0, <2>2
    <2>10. Window(r, R, x, l)
      <3>1. Len(r) <= x
        BY <1>0, <1>4, <2>1, <2>5, <2>7
      <3> QED BY <1>5, <2>2, <2>6, <2>8, <2>9, <3>1 DEF Window
    <2>11. ASSUME NEW n \in Nat, HeldIn(q, P, n) PROVE HeldIn(r, R, n)
      <3>1. CASE ToCome(P, n)
        <4>1. ToCome(R, n) \/ n = x
          BY <1>1, <3>1
        <4>2. c + 1 \in DOMAIN r
          BY <1>0, <2>7
        <4> QED BY <1>7, <2>7, <4>1, <4>2 DEF HeldIn
      <3>2. CASE \E i \in DOMAIN q : q[i] = n
        <4>1. PICK i \in 1 .. c : q[i] = n
          BY <1>0, <3>2
        <4>2. i \in DOMAIN r /\ r[i] = n
          BY <1>0, <2>7, <4>1
        <4> QED BY <1>7, <4>2 DEF HeldIn
      <3> QED BY <2>11, <3>1, <3>2 DEF HeldIn
    <2> QED BY <1>0, <2>10, <2>11 DEF P, q, r
  <1> QED BY <1>6, <1>7

(* The window when the history is cut down to its last k chunks, which are    *)
(* among the last k of the track.                                             *)
LEMMA WindowPruned ==
  ASSUME NEW q \in Seq(Nat), NEW P \in Seq(Events), NEW m \in Nat, NEW l \in Nat, NEW k \in Nat,
         Window(q, P, m, l)
  PROVE  /\ LastOf(q, k) \in Seq(Nat) /\ Window(LastOf(q, k), P, m, l)
         /\ Len(q) > k /\ NoClear(P, 0) =>
              l # 0 /\ \A n \in Nat : l - k < n /\ n <= l => HeldIn(LastOf(q, k), P, n)
         /\ Len(q) <= k \/ ~NoClear(P, 0) =>
              \A n \in Nat : HeldIn(q, P, n) => HeldIn(LastOf(q, k), P, n)
  <1>0. Len(q) \in Nat /\ DOMAIN q = 1 .. Len(q)
    BY LenProperties
  <1>1. CASE Len(q) <= k
    BY <1>0, <1>1 DEF LastOf
  <1>2. CASE ~(Len(q) <= k)
    <2> DEFINE c == Len(q)
               f == c - k + 1
               r == SubSeq(q, f, c)
    <2>1. /\ c \in Nat /\ f \in Nat /\ f >= 2 /\ c - f + 1 = k /\ c > k
          /\ \A i \in f .. c : i \in 1 .. c
      BY <1>0, <1>2
    <2>2. LastOf(q, k) = r
      BY <1>2 DEF LastOf
    <2>3. \A i \in f .. c : q[i] \in Nat
      BY <2>1, ElementOfSeq
    <2> HIDE DEF f
    <2>4. r \in Seq(Nat) /\ Len(r) = IF f <= c THEN c - f + 1 ELSE 0
      BY <2>1, <2>3, SubSeqProperties
    <2>5. \A i \in 1 .. (c - f + 1) : r[i] = q[f + i - 1]
      BY <2>1, <2>3, SubSeqProperties
    <2>6. /\ m <= l /\ \A n \in Nat : ToCome(P, n) <=> m < n /\ n <= l
          /\ NoClear(P, 0) => c <= m /\ \A i \in DOMAIN q : q[i] = m - c + i
          /\ Rising(P) /\ (NoClear(P, 0) /\ l = 0 => q = << >>)
      BY DEF Window
    <2>7. DOMAIN q = 1 .. c /\ q # << >>
      <3>1. Len(<< >>) = 0
        OBVIOUS
      <3> QED BY <1>0, <2>1, <3>1
    <2> HIDE DEF c, r
    <2>8. Len(r) = k /\ DOMAIN r = 1 .. k
      <3>1. Len(r) = k
        BY <2>1, <2>4
      <3> QED BY <2>4, <3>1, LenProperties
    <2>9. NoClear(P, 0) => l # 0
      BY <2>6, <2>7
    <2>10. NoClear(P, 0) => \A i \in DOMAIN r : r[i] = m - Len(r) + i
      <3> SUFFICES ASSUME NoClear(P, 0), NEW i \in 1 .. k PROVE r[i] = m - k + i
        BY <2>8
      <3>1. i \in 1 .. (c - f + 1) /\ f + i - 1 \in 1 .. c /\ f + i - 1 = c - k + i
        BY <2>1
      <3>2. q[f + i - 1] = m - c + (f + i - 1)
        BY <2>6, <2>7, <3>1
      <3>3. r[i] = q[f + i - 1]
        BY <2>5, <3>1
      <3>4. q[f + i - 1] = m - c + (c - k + i)
        BY <3>1, <3>2
      <3>5. m - c + (c - k + i) = m - k + i
        BY <2>1
      <3> QED BY <3>3, <3>4, <3>5
    <2>11. Window(r, P, m, l)
      <3>1. NoClear(P, 0) => Len(r) <= m
        BY <2>1, <2>6, <2>8
      <3> QED BY <2>6, <2>9, <2>10, <3>1 DEF Window
    <2>12. ASSUME NoClear(P, 0), NEW n \in Nat, l - k < n, n <= l PROVE HeldIn(r, P, n)
      <3>1. (m < n /\ n <= l) \/ (m - Len(r) < n /\ n <= m)
        BY <2>6, <2>8, <2>12
      <3> QED BY <2>4, <2>11, <2>12, <3>1, WindowHolds
    <2>13. ASSUME ~NoClear(P, 0), NEW n \in Nat, HeldIn(q, P, n) PROVE HeldIn(r, P, n)
      BY <2>13 DEF HeldIn
    <2> QED BY <1>2, <2>2, <2>4, <2>9, <2>11, <2>12, <2>13
  <1> QED BY <1>1, <1>2
-----------------------------------------------------------------------------
\* Nothing has gone wrong that the history cannot make up for: no player has
\* left, broken or been dropped, and no rebuffer has overtaken an event.
Good == ~buf.overtook /\ buf.dropped = {} /\ group.added \subseteq group.table \ lost

\* A player breaks only in the table, and fails only when it is broken or dropped.
Up == lost \subseteq group.added /\ group.table \subseteq group.added /\ (Good => failed = {})

\* What a step of do_rebuffer makes of its state and the channels: a player
\* only leaves its table when it is dropped or broken.
Refills(b, c) ==
    /\ Carries(b, c) /\ b.streaming = buf.streaming /\ buf.dropped \subseteq b.dropped
    /\ buf.players \subseteq b.players \cup b.dropped \cup lost \cup failed
    /\ c.streamPlayers = ch.streamPlayers /\ c.bufStreaming = ch.bufStreaming
    /\ b.dropped = {} => c.streaming = ch.streaming

(* The parts of do_rebuffer's state that a step leaves alone. *)
LEMMA RefillsSame ==
  ASSUME AudioInv, buf.pc # "loop", NEW b \in Histories,
         b.track = buf.track, b.trackEnd = buf.trackEnd, b.buffers = buf.buffers,
         b.overtook = buf.overtook, b.streaming = buf.streaming, b.dropped = buf.dropped,
         b.players \subseteq buf.players, buf.players \subseteq b.players \cup lost \cup failed
  PROVE  Refills(b, ch)
  BY DEF AudioInv, IndInv, ThreadsOK, Refills, Carries

(* stop_players of a rebuffer. *)
LEMMA StopsSay ==
  ASSUME AudioInv, RebufferStops
  PROVE  \E b : /\ Refills(b, ch) /\ b.pc = "stopping"
                /\ IF AllStopped THEN RebufferGoesOn(b, ch, "match") ELSE buf' = b /\ ch' = ch
  <1> DEFINE ps == buf.players \ StopFailed
             b  == [buf EXCEPT !.players = ps]
  <1>0. buf \in Histories /\ buf.players \in Tables /\ buf.pc = "stopping"
    BY DEF AudioInv, IndInv, ThreadsOK, Histories, RebufferStops, BufferAt
  <1>1. IF AllStopped THEN RebufferGoesOn(b, ch, "match") ELSE buf' = b /\ ch' = ch
    BY DEF RebufferStops
  <1>2. ps \in Tables /\ ps \subseteq buf.players
    BY <1>0 DEF Tables
  <1>3. buf.players \subseteq ps \cup lost \cup failed
    <2>1. ASSUME NEW p \in StopFailed PROVE p \in lost \cup failed
      BY <2>1 DEF AudioInv, StopsOK, StopFailed, Answered, Wrote, Healthy
    <2> QED BY <2>1
  <1> HIDE DEF ps
  <1>4. /\ b \in Histories /\ b.track = buf.track /\ b.trackEnd = buf.trackEnd
        /\ b.buffers = buf.buffers /\ b.overtook = buf.overtook /\ b.streaming = buf.streaming
        /\ b.dropped = buf.dropped /\ b.players = ps /\ b.pc = "stopping"
    BY <1>0, <1>2 DEF Histories
  <1> HIDE DEF b
  <1>5. Refills(b, ch)
    BY <1>0, <1>2, <1>3, <1>4, RefillsSame
  <1> QED BY <1>1, <1>4, <1>5

(* Players are dropped, and the others told. *)
LEMMA DropRefills ==
  ASSUME AudioInv, buf.pc # "loop", NEW c, c = [ch EXCEPT !.bufStates = None],
         NEW gone \in Tables, NEW told \in Tables, told \subseteq gone,
         NEW b \in Histories, SameButMisses(b, Drop(buf, gone)), b.streaming = buf.streaming
  PROVE  Refills(b, TellDrop(c, told))
  <1>0. buf \in Histories /\ ch \in Channels
    BY DEF AudioInv, IndInv, ThreadsOK
  <1>1. /\ c \in Channels /\ c.events = ch.events /\ c.bufEvent = ch.bufEvent
        /\ c.rebufferRequest = ch.rebufferRequest /\ c.rebufferDone = ch.rebufferDone
        /\ c.streamPlayers = ch.streamPlayers /\ c.bufStreaming = ch.bufStreaming
        /\ c.streaming = ch.streaming
    <2>1. /\ c \in Channels /\ c.events = ch.events /\ c.bufEvent = ch.bufEvent
          /\ c.rebufferRequest = ch.rebufferRequest /\ c.rebufferDone = ch.rebufferDone
      BY <1>0, StatesTaken
    <2>2. /\ c.streamPlayers = ch.streamPlayers /\ c.bufStreaming = ch.bufStreaming
          /\ c.streaming = ch.streaming
      BY <1>0 DEF Channels
    <2> QED BY <2>1, <2>2
  <1> DEFINE t == TellDrop(c, told)
  <1>2. /\ t \in Channels /\ t.events = ch.events /\ t.bufEvent = ch.bufEvent
        /\ t.rebufferRequest = ch.rebufferRequest /\ t.rebufferDone = ch.rebufferDone
    BY <1>1, TellDropSays
  <1>3. /\ t.streamPlayers = ch.streamPlayers /\ t.bufStreaming = ch.bufStreaming
        /\ told = {} => t.streaming = ch.streaming
    BY <1>1 DEF TellDrop, Channels
  <1> HIDE DEF t
  <1>4. /\ b.players = buf.players \ gone /\ b.dropped = buf.dropped \cup gone
        /\ b.track = buf.track /\ b.trackEnd = buf.trackEnd /\ b.buffers = buf.buffers
        /\ b.overtook = buf.overtook
    BY <1>0, DroppedSays DEF SameButMisses
  <1>5. b.dropped = {} => told = {}
    BY <1>4
  <1> QED BY <1>2, <1>3, <1>4, <1>5 DEF Refills, Carries, t

(* What dropping and counting leave of the table that buffer_thread has. *)
LEMMA DropStreaming ==
  ASSUME NEW b \in Histories, NEW gone \in Tables
  PROVE  /\ Drop(b, gone).streaming = b.streaming /\ Missed(b).streaming = b.streaming
         /\ [b EXCEPT !.misses = 0].streaming = b.streaming
         /\ Drop(b, {}).players = b.players /\ Drop(b, {}).dropped = b.dropped
  BY DEF Drop, Missed, Histories

(* The wait for the cookies. *)
LEMMA MatchesSay ==
  ASSUME AudioInv, RebufferMatches
  PROVE  \E b, c : \E pc \in {"match", "begin", "return"} :
           /\ Refills(b, c) /\ RebufferGoesOn(b, c, pc) /\ (pc = "return" => ~buf.track)
  <1> DEFINE c      == [ch EXCEPT !.bufStates = None]
             gone   == buf.players \ (ch.bufStates.matched \cup ch.bufStates.other)
             rest   == buf.players \ ch.bufStates.matched
             onward == IF buf.track THEN "begin" ELSE "return"
             b1 == [buf EXCEPT !.misses = 0]
             b2 == Missed(Drop(buf, gone))
             b3 == [Drop(buf, rest) EXCEPT !.misses = 0]
  <1>0. buf \in Histories /\ ch \in Channels /\ buf.players \in Tables /\ buf.pc = "match"
    BY DEF AudioInv, IndInv, ThreadsOK, Histories, RebufferMatches, BufferAt
  <1>1. \/ RebufferGoesOn(b1, c, onward)
        \/ RebufferGoesOn(b2, TellDrop(c, gone), "match")
        \/ RebufferGoesOn(b3, TellDrop(c, gone), onward)
    BY DEF RebufferMatches
  <1>2. gone \in Tables /\ rest \in Tables /\ gone \subseteq rest /\ {} \in Tables
    BY <1>0 DEF Tables
  <1> HIDE DEF gone, rest
  <1>3. onward \in {"match", "begin", "return"} /\ (onward = "return" => ~buf.track)
    OBVIOUS
  <1>4. CASE RebufferGoesOn(b1, c, onward)
    <2>1. b1 \in Histories /\ SameButMisses(b1, buf) /\ b1.streaming = buf.streaming
      BY <1>0, <1>2, Dropped, DroppedSays, DropStreaming
    <2>2. SameButMisses(b1, Drop(buf, {}))
      <3>1. /\ Drop(buf, {}).players = buf.players /\ Drop(buf, {}).dropped = buf.dropped
            /\ Drop(buf, {}).track = buf.track /\ Drop(buf, {}).trackEnd = buf.trackEnd
            /\ Drop(buf, {}).buffers = buf.buffers /\ Drop(buf, {}).overtook = buf.overtook
            /\ Drop(buf, {}).next = buf.next
        BY <1>0, <1>2, DroppedSays, DropStreaming
      <3> QED BY <2>1, <3>1 DEF SameButMisses
    <2>3. Refills(b1, TellDrop(c, {}))
      BY <1>0, <1>2, <2>1, <2>2, DropRefills
    <2>4. TellDrop(c, {}) = c
      BY DEF TellDrop
    <2> QED BY <1>3, <1>4, <2>3, <2>4
  <1>5. CASE RebufferGoesOn(b2, TellDrop(c, gone), "match")
    <2>1. Drop(buf, gone) \in Histories
      BY <1>0, <1>2, Dropped
    <2>2. b2 \in Histories /\ SameButMisses(b2, Drop(buf, gone)) /\ b2.streaming = buf.streaming
      BY <1>0, <1>2, <2>1, Dropped, DroppedSays, DropStreaming
    <2>3. Refills(b2, TellDrop(c, gone))
      BY <1>0, <1>2, <2>2, DropRefills
    <2> QED BY <1>5, <2>3
  <1>6. CASE RebufferGoesOn(b3, TellDrop(c, gone), onward)
    <2>1. Drop(buf, rest) \in Histories
      BY <1>0, <1>2, Dropped
    <2>2. b3 \in Histories /\ SameButMisses(b3, Drop(buf, rest)) /\ b3.streaming = buf.streaming
      BY <1>0, <1>2, <2>1, Dropped, DroppedSays, DropStreaming
    <2>3. Refills(b3, TellDrop(c, gone))
      BY <1>0, <1>2, <2>2, DropRefills
    <2> QED BY <1>3, <1>6, <2>3
  <1> QED BY <1>1, <1>4, <1>5, <1>6

(* The waits for room. *)
LEMMA WaitsSay ==
  ASSUME AudioInv, buf.pc \in {"begin", "buffer"}, NEW able, RebufferWaits(able)
  PROVE  \E b, c : /\ Refills(b, c) /\ RebufferGoesOn(b, c, buf.pc) /\ b.next = buf.next
                   /\ failed' \subseteq failed \cup b.dropped /\ UNCHANGED <<dev, view>>
  <1> DEFINE c    == [ch EXCEPT !.bufStates = None]
             gone == buf.players \ ch.bufStates.matched
             left == Drop(buf, gone)
             slow == IF buf.misses + 1 >= MissLimit THEN left.players \ able ELSE {}
             d    == Drop(left, slow)
             b    == Missed(d)
             all  == gone \cup slow
  <1>0. buf \in Histories /\ ch \in Channels /\ buf.players \in Tables
    BY DEF AudioInv, IndInv, ThreadsOK, Histories
  <1>1. /\ RebufferGoesOn(b, TellDrop(c, gone), buf.pc) /\ failed' = failed \cup slow
        /\ UNCHANGED <<dev, view>>
    BY DEF RebufferWaits
  <1>2. gone \in Tables /\ {} \in Tables
    BY <1>0 DEF Tables
  <1> HIDE DEF gone
  <1>3. left \in Histories /\ left.streaming = buf.streaming /\ left.players \in Tables
    <2>1. left \in Histories /\ left.streaming = buf.streaming
      BY <1>0, <1>2, Dropped, DropStreaming
    <2> QED BY <2>1 DEF Histories
  <1>4. SameButMisses(left, Drop(buf, gone))
    BY DEF SameButMisses
  <1>5. /\ left.players = buf.players \ gone /\ left.dropped = buf.dropped \cup gone
        /\ left.track = buf.track /\ left.trackEnd = buf.trackEnd /\ left.buffers = buf.buffers
        /\ left.overtook = buf.overtook /\ left.next = buf.next
    BY <1>0, <1>2, DroppedSays
  <1>6. slow \in Tables
    BY <1>2, <1>3 DEF Tables
  <1> HIDE DEF left, slow
  <1>7. d \in Histories /\ d.streaming = buf.streaming
    BY <1>0, <1>3, <1>6, Dropped, DropStreaming
  <1>8. /\ d.players = left.players \ slow /\ d.dropped = left.dropped \cup slow
        /\ d.track = left.track /\ d.trackEnd = left.trackEnd /\ d.buffers = left.buffers
        /\ d.overtook = left.overtook /\ d.next = left.next
    BY <1>3, <1>6, DroppedSays
  <1> HIDE DEF d
  <1>9. b \in Histories /\ SameButMisses(b, d) /\ b.streaming = buf.streaming
    BY <1>0, <1>2, <1>7, Dropped, DroppedSays, DropStreaming
  <1> HIDE DEF b
  <1>10. all \in Tables /\ gone \subseteq all /\ slow \subseteq all
    BY <1>2, <1>6 DEF Tables
  <1>11. SameButMisses(b, Drop(buf, all))
    <2>1. /\ Drop(buf, all).players = buf.players \ all
          /\ Drop(buf, all).dropped = buf.dropped \cup all
          /\ Drop(buf, all).track = buf.track /\ Drop(buf, all).trackEnd = buf.trackEnd
          /\ Drop(buf, all).buffers = buf.buffers /\ Drop(buf, all).overtook = buf.overtook
          /\ Drop(buf, all).next = buf.next
      BY <1>0, <1>10, DroppedSays
    <2>2. d.players = buf.players \ all /\ d.dropped = buf.dropped \cup all
      BY <1>5, <1>8
    <2> QED BY <1>5, <1>8, <1>9, <2>1, <2>2 DEF SameButMisses
  <1>12. Refills(b, TellDrop(c, gone))
    BY <1>0, <1>2, <1>9, <1>10, <1>11, DropRefills
  <1>13. b.next = buf.next /\ slow \subseteq b.dropped
    BY <1>5, <1>8, <1>9 DEF SameButMisses
  <1> QED BY <1>1, <1>12, <1>13

(* The track_begin, and a chunk, of a rebuffer. *)
LEMMA SentRefills ==
  ASSUME AudioInv, buf.pc # "loop", NEW k \in Nat \ {0}
  PROVE  /\ Refills([buf EXCEPT !.players = Wrote(@), !.next = k, !.misses = 0], ch)
         /\ [buf EXCEPT !.players = Wrote(@), !.next = k, !.misses = 0].next = k
         /\ Refills([buf EXCEPT !.players = Wrote(@)], ch)
         /\ Refills(buf, ch)
  <1> DEFINE ps == Wrote(buf.players)
             b1 == [buf EXCEPT !.players = ps, !.next = k, !.misses = 0]
             b2 == [buf EXCEPT !.players = ps]
  <1>0. buf \in Histories /\ buf.players \in Tables
    BY DEF AudioInv, IndInv, ThreadsOK, Histories
  <1>1. ps \in Tables /\ ps \subseteq buf.players /\ buf.players \subseteq ps \cup lost \cup failed
    BY <1>0 DEF Tables, Wrote
  <1> HIDE DEF ps
  <1>2. /\ b1 \in Histories /\ b1.track = buf.track /\ b1.trackEnd = buf.trackEnd
        /\ b1.buffers = buf.buffers /\ b1.overtook = buf.overtook
        /\ b1.streaming = buf.streaming /\ b1.dropped = buf.dropped /\ b1.players = ps
        /\ b1.next = k
    BY <1>0, <1>1 DEF Histories
  <1>3. /\ b2 \in Histories /\ b2.track = buf.track /\ b2.trackEnd = buf.trackEnd
        /\ b2.buffers = buf.buffers /\ b2.overtook = buf.overtook
        /\ b2.streaming = buf.streaming /\ b2.dropped = buf.dropped /\ b2.players = ps
    BY <1>0, <1>1 DEF Histories
  <1> HIDE DEF b1, b2
  <1>4. Refills(b1, ch) /\ Refills(b2, ch)
    BY <1>1, <1>2, <1>3, RefillsSame
  <1>5. Refills(buf, ch)
    BY <1>0, RefillsSame
  <1> QED BY <1>2, <1>4, <1>5 DEF b1, b2, ps

(* What a step of do_rebuffer makes of the state. *)
LEMMA GoesOnSays ==
  ASSUME NEW b, NEW c, NEW pc \in {"match", "begin", "buffer", "return"}, Refills(b, c),
         RebufferGoesOn(b, c, pc)
  PROVE  /\ buf'.streaming = buf.streaming /\ buf'.buffers = buf.buffers
         /\ buf'.overtook = buf.overtook /\ buf'.dropped = b.dropped
         /\ ch'.streamPlayers = ch.streamPlayers /\ ch'.events = ch.events
         /\ ch'.bufEvent = ch.bufEvent
         /\ ch'.bufStreaming \in {ch.bufStreaming, b.players}
         /\ ch.bufStreaming = None => ch'.bufStreaming = None
         /\ b.dropped = {} => /\ ch'.streaming \in {ch.streaming, b.players}
                              /\ ch.streaming = None => ch'.streaming = None
         /\ b.players = {} \/ pc = "return" => buf'.pc = "loop" /\ ch'.rebufferDone
         /\ b.players # {} /\ pc # "return" =>
              buf'.pc = pc /\ buf'.next = b.next /\ ch'.rebufferDone = ch.rebufferDone
  <1>0. b \in Histories /\ c \in Channels /\ None # Live
    BY ConstantsAssumption DEF Refills, Carries
  <1>1. CASE b.players = {} \/ pc = "return"
    <2> DEFINE d == [c EXCEPT !.rebufferDone = TRUE]
               Fix(x) == IF x = Live THEN b.players ELSE x
               s1 == Fix(d.streaming)
               s2 == Fix(d.bufStreaming)
               s3 == Fix(d.plyStreaming)
    <2>1. /\ buf' = [b EXCEPT !.pc = "loop", !.players = {}, !.misses = 0, !.next = 1]
          /\ ch' = [d EXCEPT !.streaming = s1, !.bufStreaming = s2, !.plyStreaming = s3]
      BY <1>1 DEF RebufferGoesOn, RebufferReturns, Settled
    <2>2. /\ d \in Channels /\ d.rebufferDone = TRUE /\ d.events = c.events
          /\ d.bufEvent = c.bufEvent /\ d.streamPlayers = c.streamPlayers
          /\ d.streaming = c.streaming /\ d.bufStreaming = c.bufStreaming
      BY <1>0 DEF Channels
    <2>3. /\ s1 \in {c.streaming, b.players} /\ s2 \in {c.bufStreaming, b.players}
          /\ c.streaming = None => s1 = None
          /\ c.bufStreaming = None => s2 = None
      BY <1>0, <2>2
    <2> HIDE DEF d, s1, s2, s3
    <2>4. /\ ch'.rebufferDone = TRUE /\ ch'.events = c.events /\ ch'.bufEvent = c.bufEvent
          /\ ch'.streamPlayers = c.streamPlayers /\ ch'.streaming = s1 /\ ch'.bufStreaming = s2
      BY <2>1, <2>2 DEF Channels
    <2>5. /\ buf'.pc = "loop" /\ buf'.overtook = b.overtook /\ buf'.dropped = b.dropped
          /\ buf'.streaming = b.streaming /\ buf'.buffers = b.buffers
      BY <1>0, <2>1 DEF Histories
    <2> QED BY <1>1, <2>3, <2>4, <2>5 DEF Refills, Carries
  <1>2. CASE ~(b.players = {} \/ pc = "return")
    <2>1. buf' = [b EXCEPT !.pc = pc] /\ ch' = c
      BY <1>2 DEF RebufferGoesOn
    <2>2. /\ buf'.pc = pc /\ buf'.overtook = b.overtook /\ buf'.dropped = b.dropped
          /\ buf'.streaming = b.streaming /\ buf'.buffers = b.buffers /\ buf'.next = b.next
      BY <1>0, <2>1 DEF Histories
    <2> QED BY <1>2, <2>1, <2>2 DEF Refills, Carries
  <1> QED BY <1>1, <1>2

(* A rebuffer drops players and fails them, and forgets neither. *)
LEMMA RebufferGood ==
  ASSUME AudioInv, RebufferStops \/ RebufferMatches \/ RebufferBegins \/ RebufferBuffers
  PROVE  /\ buf'.overtook = buf.overtook /\ buf.dropped \subseteq buf'.dropped
         /\ failed' \subseteq failed \cup lost \cup buf'.dropped
         /\ UNCHANGED <<group, lost>>
  <1> DEFINE Goal == /\ buf'.overtook = buf.overtook /\ buf.dropped \subseteq buf'.dropped
                     /\ failed' \subseteq failed \cup lost \cup buf'.dropped
  <1>0. UNCHANGED <<group, lost>>
    BY DEF RebufferStops, RebufferMatches, RebufferBegins, RebufferBuffers
  <1>1. ASSUME NEW b, NEW c, NEW pc \in {"match", "begin", "buffer", "return"}, Refills(b, c),
               RebufferGoesOn(b, c, pc), failed' \subseteq failed \cup lost \cup b.dropped
        PROVE  Goal
    <2>1. buf'.overtook = buf.overtook /\ buf'.dropped = b.dropped
      BY <1>1, GoesOnSays
    <2>2. buf.dropped \subseteq b.dropped
      BY <1>1 DEF Refills
    <2> QED BY <1>1, <2>1, <2>2
  <1> SUFFICES Goal
    BY <1>0
  <1> HIDE DEF Goal
  <1>2. CASE RebufferStops
    <2>1. failed' \subseteq failed \cup lost
      BY <1>2 DEF RebufferStops, CountStops, WriteTo
    <2>2. PICK b : /\ Refills(b, ch)
                   /\ IF AllStopped THEN RebufferGoesOn(b, ch, "match") ELSE buf' = b /\ ch' = ch
      BY <1>2, StopsSay
    <2>3. CASE RebufferGoesOn(b, ch, "match")
      <3>1. failed' \subseteq failed \cup lost \cup b.dropped
        BY <2>1
      <3> QED BY <1>1, <2>2, <2>3, <3>1, Zenon
    <2>4. CASE buf' = b
      BY <2>1, <2>2, <2>4 DEF Refills, Carries, Goal
    <2> QED BY <2>2, <2>3, <2>4
  <1>3. CASE RebufferMatches
    <2>1. failed' = failed
      BY <1>3 DEF RebufferMatches
    <2>2. PICK b, c : \E pc \in {"match", "begin", "return"} :
                        Refills(b, c) /\ RebufferGoesOn(b, c, pc)
      BY <1>3, MatchesSay
    <2>3. failed' \subseteq failed \cup lost \cup b.dropped
      BY <2>1
    <2> QED BY <1>1, <2>2, <2>3, Zenon
  <1>4. ASSUME NEW able, RebufferWaits(able), buf.pc \in {"begin", "buffer"} PROVE Goal
    <2>1. PICK b, c : /\ Refills(b, c) /\ RebufferGoesOn(b, c, buf.pc)
                      /\ failed' \subseteq failed \cup b.dropped
      BY <1>4, WaitsSay
    <2>2. failed' \subseteq failed \cup lost \cup b.dropped /\ buf.pc \in {"match", "begin", "buffer", "return"}
      BY <1>4, <2>1
    <2> QED BY <1>1, <2>1, <2>2, Zenon
  <1>5. CASE RebufferBegins
    <2>1. buf.pc = "begin"
      BY <1>5 DEF RebufferBegins, BufferAt
    <2>2. CASE AllCanBegin(buf.players)
      <3> DEFINE b == [buf EXCEPT !.players = Wrote(@), !.next = 1, !.misses = 0]
      <3>1. RebufferGoesOn(b, ch, "buffer") /\ failed' = failed \cup (buf.players \cap lost)
        BY <1>5, <2>2 DEF RebufferBegins, WriteTo
      <3>2. Refills(b, ch)
        <4>1. 1 \in Nat \ {0} /\ buf.pc # "loop"
          BY <2>1
        <4> QED BY <4>1, SentRefills, Zenon
      <3> HIDE DEF b
      <3>3. failed' \subseteq failed \cup lost \cup b.dropped
        BY <3>1
      <3> QED BY <1>1, <3>1, <3>2, <3>3, Zenon
    <2>3. CASE ~AllCanBegin(buf.players)
      <3>1. RebufferWaits({p \in Players : view[p].canBegin})
        BY <1>5, <2>3 DEF RebufferBegins
      <3> QED BY <1>4, <2>1, <3>1, Zenon
    <2> QED BY <2>2, <2>3
  <1>6. CASE RebufferBuffers
    <2>0. buf.pc = "buffer" /\ buf.next \in Nat /\ Len(buf.buffers) \in Nat
      BY <1>6, LenProperties DEF RebufferBuffers, BufferAt, AudioInv, IndInv, ThreadsOK, Histories
    <2>1. \/ RebufferReturns(buf, ch) /\ UNCHANGED <<dev, failed, view>>
          \/ WriteTo(buf.players, GetEnd) /\ RebufferReturns([buf EXCEPT !.players = Wrote(@)], ch)
          \/ /\ failed' = failed \cup (buf.players \cap lost)
             /\ RebufferGoesOn([buf EXCEPT !.players = Wrote(@), !.next = @ + 1, !.misses = 0],
                               ch, "buffer")
          \/ RebufferWaits({p \in Players : view[p].free > 0})
      <3>1. \/ buf.next > Len(buf.buffers) /\ ~buf.trackEnd
            \/ buf.next > Len(buf.buffers) /\ buf.trackEnd
            \/ buf.next <= Len(buf.buffers) /\ AllCanBuffer(buf.players)
            \/ buf.next <= Len(buf.buffers) /\ ~AllCanBuffer(buf.players)
        BY <2>0
      <3> QED BY <1>6, <3>1 DEF RebufferBuffers, WriteTo
    <2>2. CASE RebufferReturns(buf, ch) /\ UNCHANGED <<dev, failed, view>>
      <3>1. RebufferGoesOn(buf, ch, "return")
        BY <2>2 DEF RebufferGoesOn
      <3>2. Refills(buf, ch)
        <4>1. 1 \in Nat \ {0} /\ buf.pc # "loop"
          BY <2>0
        <4> QED BY <4>1, SentRefills, Zenon
      <3>3. failed' \subseteq failed \cup lost \cup buf.dropped
        BY <2>2
      <3> QED BY <1>1, <3>1, <3>2, <3>3, Zenon
    <2>3. CASE WriteTo(buf.players, GetEnd) /\ RebufferReturns([buf EXCEPT !.players = Wrote(@)], ch)
      <3> DEFINE b == [buf EXCEPT !.players = Wrote(@)]
      <3>1. RebufferGoesOn(b, ch, "return") /\ failed' \subseteq failed \cup lost
        BY <2>3 DEF RebufferGoesOn, WriteTo
      <3>2. Refills(b, ch)
        <4>1. 1 \in Nat \ {0} /\ buf.pc # "loop"
          BY <2>0
        <4> QED BY <4>1, SentRefills, Zenon
      <3> HIDE DEF b
      <3>3. failed' \subseteq failed \cup lost \cup b.dropped
        BY <3>1
      <3> QED BY <1>1, <3>1, <3>2, <3>3, Zenon
    <2>4. CASE /\ failed' = failed \cup (buf.players \cap lost)
               /\ RebufferGoesOn([buf EXCEPT !.players = Wrote(@), !.next = @ + 1, !.misses = 0],
                                 ch, "buffer")
      <3> DEFINE k == buf.next + 1
                 b == [buf EXCEPT !.players = Wrote(@), !.next = k, !.misses = 0]
      <3>1. k \in Nat \ {0}
        BY <2>0
      <3>2. RebufferGoesOn(b, ch, "buffer")
        BY <2>4
      <3> HIDE DEF k
      <3>3. Refills(b, ch)
        BY <2>0, <3>1, SentRefills
      <3> HIDE DEF b
      <3>4. failed' \subseteq failed \cup lost \cup b.dropped
        BY <2>4
      <3> QED BY <1>1, <3>2, <3>3, <3>4, Zenon
    <2>5. CASE RebufferWaits({p \in Players : view[p].free > 0})
      BY <1>4, <2>0, <2>5, Zenon
    <2> QED BY <2>1, <2>2, <2>3, <2>4, <2>5
  <1> QED BY <1>2, <1>3, <1>5, <1>6

(* The other steps of buffer_thread. *)
LEMMA HistoryGood ==
  ASSUME AudioInv, BufferPlayers \/ BufferStates \/ BufferEvent \/ BufferRequest
  PROVE  /\ buf.overtook => buf'.overtook
         /\ buf.dropped = buf'.dropped /\ UNCHANGED <<group, lost, failed>>
  <1>0. buf \in Histories
    BY DEF AudioInv, IndInv, ThreadsOK
  <1>1. UNCHANGED <<group, lost, failed>>
    BY DEF BufferPlayers, BufferStates, BufferEvent, BufferRequest
  <1>2. CASE BufferPlayers
    BY <1>0, <1>1, <1>2 DEF BufferPlayers, Histories
  <1>3. CASE BufferStates
    BY <1>0, <1>1, <1>3 DEF BufferStates, Histories
  <1>4. CASE BufferEvent
    BY <1>0, <1>1, <1>4 DEF BufferEvent, Remember, Histories
  <1>5. CASE BufferRequest
    <2>1. (buf.overtook \/ Overtakes) \in BOOLEAN
      BY Zenon
    <2> DEFINE o == buf.overtook \/ Overtakes
    <2>2. buf' = [buf EXCEPT !.pc = "stopping", !.players = str.players, !.overtook = o]
      BY <1>5 DEF BufferRequest
    <2>3. buf.overtook => o
      OBVIOUS
    <2> HIDE DEF o
    <2> QED BY <1>0, <1>1, <2>2, <2>3 DEF Histories
  <1> QED BY <1>2, <1>3, <1>4, <1>5

(* A thread's step keeps the players up, or is marked. *)
LEMMA UpKept ==
  ASSUME Up, UNCHANGED <<group, lost>>, buf.overtook => buf'.overtook,
         buf.dropped \subseteq buf'.dropped, failed' \subseteq failed \cup lost \cup buf'.dropped
  PROVE  Up' /\ (Good' => Good)
  BY DEF Up, Good

(* Who joins is added, who leaves or breaks is marked. *)
LEMMA UpNext ==
  ASSUME AudioInv, Up, [Next]_vars
  PROVE  Up' /\ (Good' => Good)
  <1>0. group \in Groups /\ lost \in Tables /\ failed \in Tables
    BY DEF AudioInv, IndInv, GroupOK
  <1>1. ASSUME UNCHANGED <<group, lost, failed, buf>> PROVE Up' /\ (Good' => Good)
    BY <1>1 DEF Up, Good
  <1>2. CASE UNCHANGED vars
    BY <1>1, <1>2 DEF vars
  <1>3. ASSUME NEW ps \in Tables, Publish(ps), ps = group.table \cup (ps \ group.added)
                                               \/ ~(group.table \subseteq ps)
        PROVE  Up' /\ (Good' => Good)
    <2>1. /\ group'.table = ps /\ group'.added = group.added \cup ps
          /\ UNCHANGED <<lost, failed, buf>>
      <3> DEFINE k == IF ps = group.table \ failed THEN group.changes ELSE group.changes + 1
                 as == group.added \cup ps
      <3>1. /\ group' = [group EXCEPT !.table = ps, !.added = as, !.changes = k]
            /\ UNCHANGED <<lost, failed, buf>>
        BY <1>3 DEF Publish
      <3> HIDE DEF k, as
      <3>2. group'.table = ps /\ group'.added = as
        BY <1>0, <3>1 DEF Groups
      <3> QED BY <3>1, <3>2 DEF as
    <2> QED BY <1>0, <1>3, <2>1 DEF Up, Good
  <1>4. CASE Environment
    <2>1. ASSUME NEW p \in Players, AddPlayer(p) PROVE Up' /\ (Good' => Good)
      <3> DEFINE ps == group.table \cup {p}
      <3>1. ps \in Tables
        BY <1>0 DEF Tables, Groups
      <3>2. Publish(ps) /\ p \notin group.added
        BY <2>1 DEF AddPlayer
      <3>3. ps = group.table \cup (ps \ group.added)
        BY <3>2 DEF Up
      <3> QED BY <1>3, <3>1, <3>2, <3>3
    <2>2. ASSUME NEW p \in Players, RemovePlayer(p) PROVE Up' /\ (Good' => Good)
      <3> DEFINE ps == group.table \ {p}
      <3>1. ps \in Tables
        BY <1>0 DEF Tables, Groups
      <3>2. Publish(ps) /\ p \in group.table
        BY <2>2 DEF RemovePlayer
      <3> QED BY <1>3, <3>1, <3>2
    <2>3. CASE DropFailed
      <3> DEFINE ps == group.table \ failed
      <3>1. ps \in Tables
        BY <1>0 DEF Tables, Groups
      <3>2. Publish(ps) /\ ~(group.table \subseteq ps)
        BY <2>3 DEF DropFailed
      <3> QED BY <1>3, <3>1, <3>2
    <2>4. ASSUME NEW p \in Players, ConnectionLost(p) PROVE Up' /\ (Good' => Good)
      <3>1. lost' = lost \cup {p} /\ p \in group.table /\ UNCHANGED <<group, failed, buf>>
        BY <2>4 DEF ConnectionLost
      <3> QED BY <3>1 DEF Up, Good
    <2>5. ASSUME NEW p \in Players, CallFails(p) PROVE Up' /\ (Good' => Good)
      <3>1. failed' = failed \cup {p} /\ p \in lost \cup failed /\ UNCHANGED <<group, lost, buf>>
        BY <2>5 DEF CallFails
      <3> QED BY <3>1 DEF Up, Good
    <2>6. ASSUME NEW p \in Players, Serve(p) \/ DevicePlays(p) PROVE Up' /\ (Good' => Good)
      BY <1>1, <2>6 DEF Serve, DevicePlays
    <2>7. CASE PollTimer \/ TrackEndTimer
      BY <1>1, <2>7 DEF PollTimer, TrackEndTimer
    <2>8. ASSUME NEW a \in Apps, NEW method \in Methods, Ask(a, method)
          PROVE  Up' /\ (Good' => Good)
      BY <1>1, <2>8 DEF Ask
    <2>9. ASSUME NEW method \in {"pause", "resume"}, Control(method)
          PROVE  Up' /\ (Good' => Good)
      BY <1>1, <2>9 DEF Control
    <2> QED BY <1>4, <2>1, <2>2, <2>3, <2>4, <2>5, <2>6, <2>7, <2>8, <2>9 DEF Environment
  <1>5. CASE StatesMultStep \/ StreamingMultStep \/ EventMultStep \/ PollStep \/ PlayStep \/ StopCalls
    BY <1>1, <1>5 DEF StatesMultStep, StreamingMultStep, EventMultStep, PollStep, PollTakes,
                      PollAsks, PollCounts, PlayStep, PlayPlayers, PlayStates, PlayCommand,
                      PlayEvent, StopCalls
  <1>6. CASE StreamStep
    <2>1. UNCHANGED <<group, lost, buf>>
      BY <1>6, StreamPlace
    <2>2. failed' \subseteq failed \cup lost
      <3>1. CASE WaitingPlayers \/ WaitingAcquire \/ WaitingCommand \/ AcquireStops
        BY <3>1 DEF WaitingPlayers, WaitingAcquire, WaitingCommand, AcquireStops, CountStops, WriteTo
      <3>2. CASE LoopPlayers \/ LoopAcquire \/ InvalidToken \/ HandleCan
        BY <3>2 DEF LoopPlayers, LoopAcquire, InvalidToken, HandleCan
      <3>3. CASE HandleTrackBegin \/ HandleBuffer \/ WaitPlayers \/ WaitStates
        BY <3>3 DEF HandleTrackBegin, HandleBuffer, WaitPlayers, WaitStates, PerformOrWait,
                    Perform, WriteTo
      <3>4. CASE HandleFlush \/ HandleTrackEnd
        BY <3>4 DEF HandleFlush, HandleTrackEnd, WriteTo
      <3>5. CASE WaitAcquire \/ RebufferCommand \/ RebufferDone
        BY <3>5 DEF WaitAcquire, RebufferCommand, RebufferDone
      <3> QED BY <1>6, <3>1, <3>2, <3>3, <3>4, <3>5 DEF StreamStep
    <2> QED BY <2>1, <2>2, UpKept
  <1>7. CASE BufferStep
    <2>1. CASE BufferPlayers \/ BufferStates \/ BufferEvent \/ BufferRequest
      BY <2>1, HistoryGood, UpKept
    <2>2. CASE RebufferStops \/ RebufferMatches \/ RebufferBegins \/ RebufferBuffers
      BY <2>2, RebufferGood, UpKept
    <2> QED BY <1>7, <2>1, <2>2 DEF BufferStep
  <1> QED BY <1>2, <1>4, <1>5, <1>6, <1>7 DEF Next, ThreadStep
-----------------------------------------------------------------------------
\* The table that stream_thread streams to, or will after a rebuffer.
Wanted(s) == IF s.needRebuffer THEN s.rebufferPlayers ELSE s.players

\* The tables of players on their way, each within the next: s is stream_thread,
\* c the channels, bs the table of buffer_thread and t that of players_thread.
Chain(s, c, bs, t) ==
    /\ bs \subseteq s.players
    /\ c.bufStreaming # None => c.bufStreaming \in SUBSET s.players
    /\ c.streaming # None => c.streaming \in SUBSET s.players
    /\ s.players \subseteq Wanted(s) /\ Wanted(s) \subseteq t
    /\ s.new # None => Wanted(s) \subseteq s.new /\ s.new \subseteq t /\ s.pc = "wait"
    /\ c.streamPlayers # None =>
         /\ Wanted(s) \subseteq c.streamPlayers /\ c.streamPlayers \subseteq t
         /\ s.new # None => s.new \subseteq c.streamPlayers
    /\ s.pc = "waiting" => ~s.needRebuffer
    /\ s.pc # "waiting" => s.players # {}

\* A device that has been stopped has no last chunk, and one that has chunks
\* knows the first of them; s is the stop that is waited for.
Sane(d, s) ==
    /\ d.st \in {"stopped", "started"} => d.last = 0
    /\ s = "ok" => d.last = 0
    /\ d.fill > 0 \/ d.last > 0 => d.first > 0
DevicesSane == \A p \in Players : Sane(dev[p], stops[p])

\* The history, with what is on its way to it, has what player p has not decoded.
Covered(p) == \A n \in Undecoded(p) : HeldIn(buf.buffers, Pending, n)

\* A track_begin waits; all players have got what was sent; nothing was sent
\* since the track or the session began.
Beginning == str.pc = "wait" /\ app[str.cmd].req = "track_begin"
Level == str.pc = "loop" \/ (str.pc = "wait" /\ ~Beginning) \/ ch.rebufferDone
Quiet == Beginning \/ str.pc \in {"waiting", "stopping"}

Even(m, l) ==
    /\ Window(buf.buffers, Pending, m, l)
    /\ Level => (\A p \in str.players : dev[p].last = l) /\ \E p \in str.players : Covered(p)
    /\ Quiet => l = 0
KeptOK == \E m, l \in Nat : Even(m, l)

\* While do_rebuffer runs the history is complete, and sent from its beginning.
RefillOK ==
    /\ buf.pc # "loop" \/ ch.rebufferDone => \A i \in DOMAIN Pending : ~OfHistory(Pending[i])
    /\ buf.pc = "buffer" =>
         \A p \in str.players : dev[p].last # 0 => dev[p].first = buf.buffers[1]

KeptInv == Chain(str, ch, buf.streaming, group.table) /\ DevicesSane /\ KeptOK /\ RefillOK

\* A step in which nothing goes wrong.
Steady == /\ AudioInv /\ AudioInv' /\ KeptInv /\ Good /\ Good'
          /\ lost = {} /\ failed = {} /\ lost' = {} /\ failed' = {}

(* The types that the invariants give. *)
LEMMA SteadyTypes ==
  ASSUME AudioInv
  PROVE  /\ buf \in Histories /\ ch \in Channels /\ str \in Streams /\ dev \in [Players -> Devices]
         /\ view \in [Players -> Views] /\ app \in [Apps -> Sessions] /\ group \in Groups
         /\ stops \in [Players -> StopStates] /\ buf.buffers \in Seq(Nat)
         /\ ch.events \in Seq(Events) /\ ch.bufEvent \in Maybe(Events) /\ Pending \in Seq(Events)
         /\ str.players \in Tables
  <1>1. /\ buf \in Histories /\ ch \in Channels /\ str \in Streams /\ dev \in [Players -> Devices]
        /\ view \in [Players -> Views] /\ app \in [Apps -> Sessions] /\ group \in Groups
        /\ stops \in [Players -> StopStates]
    BY DEF AudioInv, IndInv, ThreadsOK, DevicesOK, SessionsOK, GroupOK
  <1>2. /\ buf.buffers \in Seq(Nat) /\ ch.events \in Seq(Events) /\ ch.bufEvent \in Maybe(Events)
        /\ str.players \in Tables
    BY <1>1 DEF Histories, Channels, Streams
  <1>3. Pending \in Seq(Events)
    <2>1. CASE ch.bufEvent = None
      BY <1>2, <2>1, ConcatEmptySeq DEF Pending
    <2>2. CASE ch.bufEvent # None
      <3>1. <<ch.bufEvent>> \in Seq(Events)
        BY <1>2, <2>2 DEF Maybe
      <3> QED BY <1>2, <2>2, <3>1, ConcatProperties DEF Pending
    <2> QED BY <2>1, <2>2
  <1> QED BY <1>1, <1>2, <1>3

(* An event goes to the end of a queue that has another before it. *)
LEMMA AppendAfter ==
  ASSUME NEW h \in Seq(Events), NEW q \in Seq(Events), NEW e \in Events
  PROVE  h \o Append(q, e) = Append(h \o q, e)
  <1> DEFINE g == <<e>>
  <1>1. g \in Seq(Events) /\ h \o q \in Seq(Events)
    BY ConcatProperties
  <1>2. Append(q, e) = q \o g /\ Append(h \o q, e) = (h \o q) \o g
    BY <1>1, AppendIsConcat
  <1> HIDE DEF g
  <1>3. (h \o q) \o g = h \o (q \o g)
    BY <1>1, ConcatAssociative
  <1> QED BY <1>2, <1>3

(* The events that buffer_thread has yet to take, after a step. *)
LEMMA PendingSteps ==
  ASSUME AudioInv
  PROVE  /\ ch'.events = ch.events /\ ch'.bufEvent = ch.bufEvent => Pending' = Pending
         /\ \A e \in Events : ch'.events = Append(ch.events, e) /\ ch'.bufEvent = ch.bufEvent =>
              Pending' = Append(Pending, e)
         /\ (/\ ch.bufEvent = None /\ ch.events # << >>
             /\ ch'.bufEvent = Head(ch.events) /\ ch'.events = Tail(ch.events))
            => Pending' = Pending
         /\ ch.bufEvent # None => Pending = <<ch.bufEvent>> \o ch.events
         /\ (ch'.bufEvent = None /\ ch'.events = ch.events) => Pending' = ch.events
  <1>0. /\ ch.events \in Seq(Events) /\ ch.bufEvent \in Maybe(Events) /\ None \notin Events
    BY SteadyTypes, MessagesAssumption
  <1>1. ch'.events = ch.events /\ ch'.bufEvent = ch.bufEvent => Pending' = Pending
    BY DEF Pending
  <1>2. ASSUME NEW e \in Events, ch'.events = Append(ch.events, e), ch'.bufEvent = ch.bufEvent
        PROVE  Pending' = Append(Pending, e)
    <2> DEFINE h == IF ch.bufEvent = None THEN << >> ELSE <<ch.bufEvent>>
    <2>1. h \in Seq(Events)
      BY <1>0 DEF Maybe
    <2>2. Pending = h \o ch.events /\ Pending' = h \o Append(ch.events, e)
      BY <1>2 DEF Pending
    <2> HIDE DEF h
    <2> QED BY <1>0, <2>1, <2>2, AppendAfter
  <1>3. ASSUME ch.bufEvent = None, ch.events # << >>, ch'.bufEvent = Head(ch.events),
               ch'.events = Tail(ch.events)
        PROVE  Pending' = Pending
    <2> DEFINE q == ch.events
               t == Tail(q)
               h == <<Head(q)>>
    <2>1. /\ Head(q) \in Events /\ t \in Seq(Events) /\ Len(t) = Len(q) - 1
          /\ \A i \in 1 .. Len(t) : t[i] = q[i + 1]
      BY <1>0, <1>3, HeadTailProperties
    <2>2. Pending = q /\ Pending' = h \o t
      <3>1. Pending = << >> \o q
        BY <1>3 DEF Pending
      <3>2. Pending' = h \o t
        BY <1>0, <1>3, <2>1 DEF Pending
      <3> QED BY <1>0, <3>1, <3>2, ConcatEmptySeq
    <2>3. h \in Seq(Events) /\ Len(h) = 1 /\ h[1] = Head(q) /\ Head(q) = q[1] /\ Len(q) \in Nat
          /\ Len(q) # 0
      BY <1>0, <1>3, <2>1, EmptySeq, LenProperties
    <2> HIDE DEF h, t, q
    <2>4. /\ h \o t \in Seq(Events) /\ Len(h \o t) = 1 + Len(t)
          /\ \A i \in 1 .. 1 + Len(t) : (h \o t)[i] = IF i <= 1 THEN h[i] ELSE t[i - 1]
      <3>1. h \in Seq(Events) /\ t \in Seq(Events)
        BY <2>1, <2>3
      <3>2. /\ h \o t \in Seq(Events) /\ Len(h \o t) = Len(h) + Len(t)
            /\ \A i \in 1 .. Len(h) + Len(t) :
                 (h \o t)[i] = IF i <= Len(h) THEN h[i] ELSE t[i - Len(h)]
        BY <3>1, ConcatProperties
      <3> QED BY <2>3, <3>2
    <2>5. Len(h \o t) = Len(q)
      BY <2>1, <2>3, <2>4
    <2>6. ASSUME NEW i \in 1 .. Len(q) PROVE (h \o t)[i] = q[i]
      <3>1. CASE i = 1
        BY <2>1, <2>3, <2>4, <3>1
      <3>2. CASE i # 1
        <4>1. i \in 1 .. 1 + Len(t) /\ ~(i <= 1) /\ i - 1 \in 1 .. Len(t) /\ (i - 1) + 1 = i
          BY <2>1, <2>3, <3>2
        <4> QED BY <2>1, <2>4, <4>1
      <3> QED BY <3>1, <3>2
    <2>7. h \o t = q
      BY <1>0, <2>4, <2>5, <2>6, SeqEqual DEF q
    <2> QED BY <2>2, <2>7
  <1>4. ch.bufEvent # None => Pending = <<ch.bufEvent>> \o ch.events
    BY DEF Pending
  <1>5. ch'.bufEvent = None /\ ch'.events = ch.events => Pending' = ch.events
    BY <1>0, ConcatEmptySeq DEF Pending
  <1>6. \A e \in Events : ch'.events = Append(ch.events, e) /\ ch'.bufEvent = ch.bufEvent =>
          Pending' = Append(Pending, e)
    BY <1>2
  <1> QED BY <1>1, <1>3, <1>4, <1>5, <1>6

(* What the commands leave of a device. *)
LEMMA SaneCommands ==
  ASSUME NEW d \in Devices, NEW s, Sane(d, s), NEW t, NEW c \in Nat, NEW n \in Nat \ {0}
  PROVE  /\ Sane(GetStop(d, c), t) /\ Sane(GetBegin(d, c), t) /\ Sane(GetFlush(d, c), t)
         /\ s = "ok" => Sane(GetStart(d), t)
         /\ d.st = "streaming" /\ t # "ok" => Sane(GetChunk(d, c, n), t)
         /\ Sane(GetEnd(d), s)
         /\ (t = "ok" => s = "ok") => Sane(d, t)
  <1>1. d.fill \in Nat /\ d.last \in Nat /\ d.first \in Nat
    BY DEF Devices
  <1>2. Sane(GetStop(d, c), t) /\ Sane(GetFlush(d, c), t)
    BY <1>1 DEF Sane, GetStop, GetFlush, Devices
  <1>3. Sane(GetBegin(d, c), t)
    <2> DEFINE b == d.bad \/ d.st = "stopped" \/ ~CanBegin(d)
    <2>1. GetBegin(d, c) = [d EXCEPT !.st = "streaming", !.token = c, !.last = 0, !.bad = b]
      BY DEF GetBegin
    <2> HIDE DEF b
    <2> QED BY <1>1, <2>1 DEF Sane, Devices
  <1>4. s = "ok" => Sane(GetStart(d), t)
    BY <1>1 DEF Sane, GetStart, Devices
  <1>5. ASSUME d.st = "streaming", t # "ok" PROVE Sane(GetChunk(d, c, n), t)
    <2> DEFINE b == \/ d.bad
                    \/ d.st # "streaming" \/ d.token # c \/ d.fill = Capacity
                    \/ d.last # 0 /\ n # d.last + 1
               f == IF d.last = 0 THEN n ELSE d.first
               k == d.fill + 1
    <2>1. GetChunk(d, c, n) = [d EXCEPT !.last = n, !.fill = k, !.first = f, !.bad = b]
      BY DEF GetChunk
    <2>2. f > 0
      BY <1>1 DEF Sane
    <2> HIDE DEF b, f, k
    <2>3. GetChunk(d, c, n).st = "streaming" /\ GetChunk(d, c, n).first = f
      BY <1>5, <2>1 DEF Devices
    <2> QED BY <1>5, <2>2, <2>3 DEF Sane
  <1>6. Sane(GetEnd(d), s)
    <2> DEFINE b == d.bad \/ d.st # "streaming"
    <2>1. GetEnd(d) = [d EXCEPT !.st = "ended", !.bad = b]
      BY DEF GetEnd
    <2> HIDE DEF b
    <2> QED BY <1>1, <2>1 DEF Sane, Devices
  <1>7. (t = "ok" => s = "ok") => Sane(d, t)
    BY DEF Sane
  <1> QED BY <1>2, <1>3, <1>4, <1>5, <1>6, <1>7

\* The devices are left alone, or only play.
SameDevices ==
    \A p \in Players : /\ dev'[p].st = dev[p].st /\ dev'[p].last = dev[p].last
                       /\ dev'[p].first = dev[p].first /\ dev'[p].fill \in Nat
                       /\ dev'[p].fill <= dev[p].fill

(* Then they stay as they are. *)
LEMMA SaneSame ==
  ASSUME AudioInv, DevicesSane, SameDevices,
         \A p \in Players : stops'[p] = "ok" => stops[p] = "ok"
  PROVE  DevicesSane'
  <1>1. \A p \in Players : dev[p].fill \in Nat
    BY SteadyTypes DEF Devices
  <1> QED BY <1>1 DEF DevicesSane, Sane, SameDevices

(* A device that has no last chunk has nothing to decode. *)
LEMMA NothingUndecoded ==
  ASSUME NEW p \in Players, dev \in [Players -> Devices], Sane(dev[p], stops[p]), dev[p].last = 0
  PROVE  Covered(p)
  <1>1. dev[p].fill \in Nat /\ dev[p].first \in Nat /\ OutputSize \in Nat
    BY ConstantsAssumption DEF Devices
  <1>2. Undecoded(p) = {}
    BY <1>1 DEF Undecoded, Sane
  <1> QED BY <1>2 DEF Covered

(* The history moves on: the chunks it holds stay, and the last is the same. *)
LEMMA KeptMoves ==
  ASSUME AudioInv, AudioInv', NEW m \in Nat, NEW l \in Nat, Even(m, l), NEW k \in Nat,
         Window(buf.buffers, Pending, k, l)',
         \A n \in Nat : HeldIn(buf.buffers, Pending, n) => HeldIn(buf.buffers, Pending, n)',
         Level' => Level, Quiet' => Quiet,
         Level => /\ str'.players = str.players
                  /\ \A p \in str.players : /\ dev'[p].last = dev[p].last
                                            /\ dev'[p].first = dev[p].first
                                            /\ dev'[p].fill <= dev[p].fill
  PROVE  KeptOK'
  <1>0. str.players \in Tables /\ dev \in [Players -> Devices]
    BY SteadyTypes
  <1>0b. dev' \in [Players -> Devices]
    BY SteadyTypes DEF AudioInv, IndInv, DevicesOK
  <1>1. ASSUME Level'
        PROVE  (\A p \in str'.players : dev'[p].last = l) /\ \E p \in str'.players : Covered(p)'
    <2>1. Level /\ str'.players = str.players
      BY <1>1
    <2>2. PICK p \in str.players : Covered(p)
      BY <2>1 DEF Even
    <2>3. p \in Players
      BY <1>0 DEF Tables
    <2>4. dev[p] \in Devices /\ dev'[p] \in Devices
      BY <1>0, <1>0b, <2>3
    <2>5. /\ dev[p].fill \in Nat /\ dev[p].last \in Nat /\ dev[p].first \in Nat
          /\ dev'[p].fill \in Nat /\ OutputSize \in Nat
      BY <2>4, ConstantsAssumption DEF Devices
    <2>6. /\ dev'[p].last = dev[p].last /\ dev'[p].first = dev[p].first
          /\ dev'[p].fill <= dev[p].fill
      BY <2>1
    <2>7. ASSUME NEW n \in Undecoded(p)' PROVE n \in Undecoded(p) /\ n \in Nat
      BY <2>5, <2>6 DEF Undecoded
    <2>8. Covered(p)'
      BY <2>2, <2>7 DEF Covered
    <2>9. \A r \in str'.players : dev'[r].last = l
      BY <2>1 DEF Even
    <2> QED BY <2>1, <2>8, <2>9
  <1>2. Even(k, l)'
    BY <1>1 DEF Even
  <1> QED BY <1>2 DEF KeptOK

(* The same with nothing new, or with an event that says nothing of audio.    *)
LEMMA KeptSame ==
  ASSUME AudioInv, AudioInv', KeptOK, buf'.buffers = buf.buffers,
         \/ Pending' = Pending
         \/ \E e \in Events : /\ ~Clears(e) /\ e.event # "BUFFER" /\ Pending' = Append(Pending, e),
         Level' => Level, Quiet' => Quiet,
         Level => /\ str'.players = str.players
                  /\ \A p \in str.players : /\ dev'[p].last = dev[p].last
                                            /\ dev'[p].first = dev[p].first
                                            /\ dev'[p].fill <= dev[p].fill
  PROVE  KeptOK'
  <1>0. buf.buffers \in Seq(Nat) /\ Pending \in Seq(Events)
    BY SteadyTypes
  <1>1. PICK m \in Nat, l \in Nat : Even(m, l)
    BY DEF KeptOK
  <1>2. CASE Pending' = Pending
    <2>1. Window(buf.buffers, Pending, m, l)'
      BY <1>1, <1>2 DEF Even, Window
    <2>2. \A n \in Nat : HeldIn(buf.buffers, Pending, n) => HeldIn(buf.buffers, Pending, n)'
      BY <1>2 DEF HeldIn
    <2> QED BY <1>1, <2>1, <2>2, KeptMoves
  <1>3. ASSUME NEW e \in Events, ~Clears(e), e.event # "BUFFER", Pending' = Append(Pending, e)
        PROVE  KeptOK'
    <2>1. Window(buf.buffers, Append(Pending, e), m, l)
      BY <1>0, <1>1, <1>3, WindowGrows DEF Even
    <2>2. \A n \in Nat : HeldIn(buf.buffers, Pending, n) => HeldIn(buf.buffers, Append(Pending, e), n)
      <3>1. /\ \A i \in 0 .. Len(Pending) : NoClear(Append(Pending, e), i) <=> NoClear(Pending, i)
            /\ \A n \in Nat : ToCome(Pending, n) => ToCome(Append(Pending, e), n)
        BY <1>0, <1>3, OneMore
      <3>2. 0 \in 0 .. Len(Pending)
        BY <1>0, LenProperties
      <3> QED BY <3>1, <3>2 DEF HeldIn
    <2>3. Window(buf.buffers, Pending, m, l)'
      BY <1>3, <2>1
    <2>4. \A n \in Nat : HeldIn(buf.buffers, Pending, n) => HeldIn(buf.buffers, Pending, n)'
      BY <1>3, <2>2
    <2> QED BY <1>1, <2>3, <2>4, KeptMoves
  <1> QED BY <1>2, <1>3

(* Nothing was sent since: an empty history will do. *)
LEMMA KeptReset ==
  ASSUME AudioInv', DevicesSane', Window(buf.buffers, Pending, 0, 0)',
         Level' => str'.players # {} /\ \A p \in str'.players : dev'[p].last = 0
  PROVE  KeptOK'
  <1>0. str'.players \in Tables /\ dev' \in [Players -> Devices]
    BY DEF AudioInv, IndInv, ThreadsOK, Streams, DevicesOK
  <1>1. ASSUME Level' PROVE \E p \in str'.players : Covered(p)'
    <2>1. PICK p \in str'.players : dev'[p].last = 0
      BY <1>1
    <2>2. p \in Players
      BY <1>0, <2>1 DEF Tables
    <2>3. Sane(dev[p], stops[p])'
      BY <2>2 DEF DevicesSane
    <2>4. dev'[p].fill \in Nat /\ dev'[p].first \in Nat /\ OutputSize \in Nat
      BY <1>0, <2>2, ConstantsAssumption DEF Devices
    <2>5. Undecoded(p)' = {}
      BY <2>1, <2>3, <2>4 DEF Undecoded, Sane
    <2> QED BY <2>1, <2>5 DEF Covered
  <1>2. Even(0, 0)'
    BY <1>1 DEF Even
  <1> QED BY <1>2 DEF KeptOK

(* The same, when an event says so. *)
LEMMA KeptCleared ==
  ASSUME AudioInv, AudioInv', KeptOK, DevicesSane', buf'.buffers = buf.buffers,
         NEW e \in Events, Clears(e), Pending' = Append(Pending, e),
         Level' => str'.players # {} /\ \A p \in str'.players : dev'[p].last = 0
  PROVE  KeptOK'
  <1>0. buf.buffers \in Seq(Nat) /\ Pending \in Seq(Events)
    BY SteadyTypes
  <1>1. PICK m \in Nat, l \in Nat : Even(m, l)
    BY DEF KeptOK
  <1>2. Window(buf.buffers, Append(Pending, e), 0, 0)
    BY <1>0, <1>1, WindowGrows DEF Even
  <1>3. Window(buf.buffers, Pending, 0, 0)'
    BY <1>2
  <1> QED BY <1>3, KeptReset
-----------------------------------------------------------------------------
\* The tables on their way are left alone.
SameWay == /\ ch'.streaming = ch.streaming /\ ch'.bufStreaming = ch.bufStreaming
           /\ ch'.streamPlayers = ch.streamPlayers

(* Devices that a step does not touch. *)
LEMMA DevicesAlone ==
  ASSUME AudioInv, dev' = dev
  PROVE  SameDevices
  BY SteadyTypes DEF SameDevices, Devices

(* A step that sends nothing and takes nothing but a table. *)
LEMMA TableMoves ==
  ASSUME Steady, UNCHANGED <<str, buf>>, Chain(str, ch, buf.streaming, group.table)',
         ch'.rebufferDone = ch.rebufferDone, Pending' = Pending, SameDevices,
         \A p \in Players : stops'[p] = "ok" => stops[p] = "ok",
         str.pc = "wait" => app'[str.cmd].req = app[str.cmd].req
  PROVE  KeptInv'
  <1>0. str.players \in Tables
    BY SteadyTypes DEF Steady
  <1>2. DevicesSane'
    BY SaneSame DEF Steady, KeptInv
  <1>3. \A p \in str.players : /\ dev'[p].last = dev[p].last /\ dev'[p].first = dev[p].first
                               /\ dev'[p].fill <= dev[p].fill
    BY <1>0 DEF SameDevices, Tables
  <1>4. KeptOK'
    <2>1. (Level' <=> Level) /\ (Quiet' <=> Quiet)
      BY DEF Level, Quiet, Beginning
    <2> QED BY <1>3, <2>1, KeptSame DEF Steady, KeptInv
  <1>5. RefillOK'
    BY <1>3 DEF RefillOK, Steady, KeptInv
  <1> QED BY <1>2, <1>4, <1>5 DEF KeptInv

(* A step that neither sends nor takes anything. *)
LEMMA Undisturbed ==
  ASSUME Steady, UNCHANGED <<str, buf, group>>, SameWay, ch'.rebufferDone = ch.rebufferDone,
         Pending' = Pending, SameDevices,
         \A p \in Players : stops'[p] = "ok" => stops[p] = "ok",
         str.pc = "wait" => app'[str.cmd].req = app[str.cmd].req
  PROVE  KeptInv'
  <1>1. Chain(str, ch, buf.streaming, group.table)'
    BY DEF Steady, KeptInv, Chain, SameWay
  <1> QED BY <1>1, TableMoves

(* A request, a reply or a timer. *)
LEMMA EnvironmentKept ==
  ASSUME Steady, Up, Environment
  PROVE  KeptInv'
  <1>0. AudioInv /\ AudioInv'
    BY DEF Steady
  <1>0a. /\ group \in Groups /\ ch \in Channels /\ dev \in [Players -> Devices]
         /\ stops \in [Players -> StopStates] /\ app \in [Apps -> Sessions] /\ str \in Streams
         /\ group.table \in Tables
    BY <1>0, SteadyTypes DEF Groups
  <1>0b. str.pc = "wait" => str.cmd \in Apps /\ app[str.cmd].req # None
    <2>1. None \notin {"track_begin", "buffer"}
      BY ConstantsAssumption DEF Requests
    <2> QED BY <1>0, <2>1 DEF AudioInv, IndInv, CommandWaits
  <1>1. ASSUME NEW p \in Players, AddPlayer(p) PROVE KeptInv'
    <2> DEFINE ps == group.table \cup {p}
    <2>1. Publish(ps)
      BY <1>1 DEF AddPlayer
    <2>2. /\ group'.table = ps
          /\ UNCHANGED <<dev, stops, app, str, buf>>
          /\ ch' = [ch EXCEPT !.pollPlayers = ps, !.streamPlayers = ps]
      <3> DEFINE k == IF ps = group.table \ failed THEN group.changes ELSE group.changes + 1
                 as == group.added \cup ps
      <3>1. group' = [group EXCEPT !.table = ps, !.added = as, !.changes = k]
        BY <2>1 DEF Publish
      <3>2. /\ UNCHANGED <<dev, stops, app, str, buf>>
            /\ ch' = [ch EXCEPT !.pollPlayers = ps, !.streamPlayers = ps]
        BY <2>1 DEF Publish
      <3> HIDE DEF k, as, ps
      <3>3. group'.table = ps
        BY <1>0a, <3>1 DEF Groups
      <3> QED BY <3>2, <3>3
    <2>3. group.table \subseteq ps
      OBVIOUS
    <2> HIDE DEF ps
    <2>4. /\ ch'.streamPlayers = ps /\ ch'.streaming = ch.streaming
          /\ ch'.bufStreaming = ch.bufStreaming /\ ch'.rebufferDone = ch.rebufferDone
          /\ ch'.events = ch.events /\ ch'.bufEvent = ch.bufEvent
      BY <1>0a, <2>2 DEF Channels
    <2>5. Chain(str, ch, buf.streaming, group.table)'
      BY <2>2, <2>3, <2>4 DEF Steady, KeptInv, Chain
    <2> QED BY <1>0, <2>2, <2>4, <2>5, DevicesAlone, PendingSteps, TableMoves
  <1>2. ASSUME NEW p \in Players, RemovePlayer(p) PROVE FALSE
    <2> DEFINE ps == group.table \ {p}
               k == IF ps = group.table \ failed THEN group.changes ELSE group.changes + 1
               as == group.added \cup ps
    <2>1. p \in group.table /\ group' = [group EXCEPT !.table = ps, !.added = as, !.changes = k]
      BY <1>2 DEF RemovePlayer, Publish
    <2> HIDE DEF k
    <2>2. group'.table = ps /\ group'.added = as
      BY <1>0a, <2>1 DEF Groups
    <2> QED BY <2>1, <2>2 DEF Steady, Up, Good
  <1>3. CASE DropFailed
    BY <1>3 DEF Steady, DropFailed
  <1>4. ASSUME NEW p \in Players, ConnectionLost(p) PROVE FALSE
    BY <1>4 DEF Steady, ConnectionLost
  <1>5. ASSUME NEW p \in Players, CallFails(p) PROVE FALSE
    BY <1>5 DEF Steady, CallFails
  <1>6. ASSUME ch' = ch, UNCHANGED <<str, buf, group, stops, app>>, SameDevices
        PROVE  KeptInv'
    <2>1. Pending' = Pending
      BY <1>0, <1>6, PendingSteps
    <2> QED BY <1>6, <2>1, Undisturbed DEF SameWay
  <1>7. ASSUME NEW p \in Players, DevicePlays(p) PROVE KeptInv'
    <2>1. /\ dev[p].fill \in Nat /\ dev[p].fill > 0 /\ dev' = [dev EXCEPT ![p].fill = @ - 1]
          /\ ch' = ch /\ UNCHANGED <<str, buf, group, stops, app>>
      BY <1>0a, <1>7 DEF DevicePlays, Devices
    <2>2. SameDevices
      <3> DEFINE k == dev[p].fill - 1
      <3>1. k \in Nat /\ k <= dev[p].fill /\ dev' = [dev EXCEPT ![p] = [dev[p] EXCEPT !.fill = k]]
        BY <2>1
      <3> HIDE DEF k
      <3> QED BY <1>0a, <3>1 DEF SameDevices, Devices
    <2> QED BY <1>6, <2>1, <2>2
  <1>8. CASE PollTimer \/ TrackEndTimer
    <2>1. dev' = dev /\ ch' = ch /\ UNCHANGED <<str, buf, group, stops, app>>
      BY <1>8 DEF PollTimer, TrackEndTimer
    <2> QED BY <1>0, <1>6, <2>1, DevicesAlone
  <1>9. ASSUME NEW method \in {"pause", "resume"}, Control(method) PROVE KeptInv'
    <2>1. dev' = dev /\ ch' = [ch EXCEPT !.play = method] /\ UNCHANGED <<str, buf, group, stops, app>>
      BY <1>9 DEF Control
    <2>2. SameWay /\ ch'.rebufferDone = ch.rebufferDone /\ ch'.events = ch.events
          /\ ch'.bufEvent = ch.bufEvent
      BY <1>0a, <2>1 DEF Channels, SameWay
    <2> QED BY <1>0, <2>1, <2>2, DevicesAlone, PendingSteps, Undisturbed
  <1>10. ASSUME NEW a \in Apps, NEW method \in Methods, Ask(a, method) PROVE KeptInv'
    <2>1. /\ dev' = dev /\ app[a].req = None /\ app' = [app EXCEPT ![a].req = method]
          /\ \/ ch' = [ch EXCEPT !.acquire = Append(@, a)]
             \/ ch' = [ch EXCEPT !.command = Append(@, a)]
          /\ UNCHANGED <<str, buf, group, stops>>
      BY <1>10 DEF Ask
    <2>2. SameWay /\ ch'.rebufferDone = ch.rebufferDone /\ ch'.events = ch.events
          /\ ch'.bufEvent = ch.bufEvent
      BY <1>0a, <2>1 DEF Channels, SameWay
    <2>3. str.pc = "wait" => app'[str.cmd].req = app[str.cmd].req
      BY <1>0a, <1>0b, <2>1
    <2> QED BY <1>0, <2>1, <2>2, <2>3, DevicesAlone, PendingSteps, Undisturbed
  <1>11. ASSUME NEW p \in Players, Serve(p) PROVE KeptInv'
    <2> DEFINE method == Head(calls[p])
    <2>1. /\ calls[p] # << >> /\ ch' = ch /\ UNCHANGED <<str, buf, group, app>>
          /\ dev' = [dev EXCEPT ![p] =
                       CASE method = "stop"   -> GetStop(@, str.cookie)
                         [] method = "pause"  -> [@ EXCEPT !.run = FALSE]
                         [] method = "resume" -> [@ EXCEPT !.run = TRUE]
                         [] OTHER             -> @]
          /\ stops' = IF method = "stop" THEN [stops EXCEPT ![p] = "ok"] ELSE stops
      BY <1>11 DEF Serve
    <2>2. dev[p] \in Devices /\ str.cookie \in Nat
      BY <1>0a DEF Streams
    <2>3. Pending' = Pending
      BY <1>0, <2>1, PendingSteps
    <2>4. CASE method = "stop"
      <3>1. /\ dev' = [dev EXCEPT ![p] = GetStop(dev[p], str.cookie)]
            /\ stops' = [stops EXCEPT ![p] = "ok"]
        BY <2>1, <2>4
      <3>2. stops[p] # "none"
        <4>1. calls[p] \in Seq({"state", "late", "stop", "pause", "resume"})
          BY <1>0 DEF AudioInv, CallsOK
        <4>2. 1 \in DOMAIN calls[p] /\ calls[p][1] = "stop"
          BY <2>1, <2>4, <4>1, EmptySeq, LenProperties
        <4> QED BY <1>0, <4>2 DEF AudioInv, StopsOK
      <3>3. str.pc = "stopping" \/ buf.pc = "stopping"
        BY <1>0, <3>2 DEF AudioInv, StopsOK
      <3>4. ~Level /\ buf.pc # "buffer"
        <4>1. buf.pc = "stopping" => str.pc = "rebuffer" /\ ~ch.rebufferDone
          BY <1>0 DEF AudioInv, HandshakeOK
        <4>2. str.pc = "stopping" => ~ch.rebufferDone /\ buf.pc = "loop"
          BY <1>0, StreamAlone
        <4> QED BY <3>3, <4>1, <4>2 DEF Level
      <3>5. Chain(str, ch, buf.streaming, group.table)'
        BY <2>1 DEF Steady, KeptInv, Chain
      <3>6. DevicesSane'
        <4>1. \A r \in Players : Sane(dev[r], stops[r])
          BY DEF Steady, KeptInv, DevicesSane
        <4>2. 1 \in Nat \ {0}
          OBVIOUS
        <4>3. Sane(GetStop(dev[p], str.cookie), "ok")
          BY <2>2, <4>1, <4>2, SaneCommands
        <4> QED BY <1>0a, <3>1, <4>1, <4>3 DEF DevicesSane
      <3>7. KeptOK'
        <4>1. (Level' <=> Level) /\ (Quiet' <=> Quiet)
          BY <2>1 DEF Level, Quiet, Beginning
        <4> QED BY <2>1, <2>3, <3>4, <4>1, KeptSame DEF Steady, KeptInv
      <3>8. RefillOK'
        BY <2>1, <2>3, <3>4 DEF Steady, KeptInv, RefillOK
      <3> QED BY <3>5, <3>6, <3>7, <3>8 DEF KeptInv
    <2>5. CASE method # "stop"
      <3>1. \/ dev' = dev
            \/ dev' = [dev EXCEPT ![p] = [dev[p] EXCEPT !.run = FALSE]]
            \/ dev' = [dev EXCEPT ![p] = [dev[p] EXCEPT !.run = TRUE]]
        BY <1>0a, <2>1, <2>5
      <3>2. SameDevices
        BY <1>0a, <3>1 DEF SameDevices, Devices
      <3> QED BY <1>6, <2>1, <2>5, <3>2
    <2> QED BY <2>4, <2>5
  <1> QED BY <1>1, <1>2, <1>3, <1>4, <1>5, <1>7, <1>8, <1>9, <1>10, <1>11 DEF Environment

(* The mults. *)
LEMMA MultsKept ==
  ASSUME Steady, StatesMultStep \/ StreamingMultStep \/ EventMultStep
  PROVE  KeptInv'
  <1>0. AudioInv /\ ch \in Channels
    BY SteadyTypes DEF Steady
  <1>1. UNCHANGED <<str, buf, group, dev, stops, app>>
    BY DEF StatesMultStep, StreamingMultStep, EventMultStep
  <1>2. CASE StatesMultStep
    <2> DEFINE first == IF ch.statesHand # None THEN ch.statesHand ELSE ch.states
               next  == IF ch.statesHand # None THEN ch.states ELSE None
               room  == ch.bufStates = None
               b == IF room THEN first ELSE ch.bufStates
               p == IF room THEN first ELSE ch.plyStates
               s == ch.strStates \/ ch.states # None
               h == IF room THEN next ELSE first
    <2>1. ch' = [ch EXCEPT !.bufStates = b, !.plyStates = p, !.strStates = s,
                           !.statesHand = h, !.states = None]
      BY <1>2 DEF StatesMultStep
    <2> HIDE DEF b, p, s, h
    <2>2. SameWay /\ ch'.rebufferDone = ch.rebufferDone /\ ch'.events = ch.events
          /\ ch'.bufEvent = ch.bufEvent
      BY <1>0, <2>1 DEF Channels, SameWay
    <2> QED BY <1>0, <1>1, <2>2, DevicesAlone, PendingSteps, Undisturbed
  <1>3. CASE StreamingMultStep
    <2>1. /\ ch' = [ch EXCEPT !.bufStreaming = ch.streaming, !.plyStreaming = ch.streaming,
                              !.streaming = None]
      BY <1>3 DEF StreamingMultStep
    <2>2. /\ ch'.bufStreaming = ch.streaming /\ ch'.streaming = None
          /\ ch'.streamPlayers = ch.streamPlayers /\ ch'.rebufferDone = ch.rebufferDone
          /\ ch'.events = ch.events /\ ch'.bufEvent = ch.bufEvent
      BY <1>0, <2>1 DEF Channels
    <2>3. Chain(str, ch, buf.streaming, group.table)'
      BY <1>1, <2>2 DEF Steady, KeptInv, Chain
    <2> QED BY <1>0, <1>1, <2>2, <2>3, DevicesAlone, PendingSteps, TableMoves
  <1>4. CASE EventMultStep
    <2>1. /\ ch.bufEvent = None /\ ch.events # << >>
          /\ ch' = [ch EXCEPT !.bufEvent = Head(ch.events), !.plyEvent = Head(ch.events),
                              !.events = Tail(@)]
      <3>1. Ready(3)
        BY <1>4 DEF EventMultStep, Runs, EventMult
      <3>2. ch.bufEvent = None /\ ch.events # << >>
        BY <3>1 DEF Ready, EventMult, StatesMult, StreamingMult, PollThread, StreamThread,
                    BufferThread, PlayThread, StopThreads
      <3> QED BY <1>4, <3>2 DEF EventMultStep
    <2>2. SameWay /\ ch'.rebufferDone = ch.rebufferDone
          /\ ch'.bufEvent = Head(ch.events) /\ ch'.events = Tail(ch.events)
      BY <1>0, <2>1 DEF Channels, SameWay
    <2>3. Pending' = Pending
      BY <1>0, <2>1, <2>2, PendingSteps
    <2> QED BY <1>0, <1>1, <2>2, <2>3, DevicesAlone, Undisturbed
  <1> QED BY <1>2, <1>3, <1>4

(* player_states_thread, play_thread and the threads of player_stop. *)
LEMMA OthersKept ==
  ASSUME Steady, PollStep \/ PlayStep \/ StopCalls
  PROVE  KeptInv'
  <1>0. AudioInv /\ ch \in Channels /\ stops \in [Players -> StopStates]
    BY SteadyTypes DEF Steady
  <1>1. ASSUME UNCHANGED <<str, buf, group, dev, app>>, SameWay,
               ch'.rebufferDone = ch.rebufferDone, ch'.events = ch.events,
               ch'.bufEvent = ch.bufEvent,
               \A p \in Players : stops'[p] = "ok" => stops[p] = "ok"
        PROVE  KeptInv'
    BY <1>0, <1>1, DevicesAlone, PendingSteps, Undisturbed
  <1>2. CASE StopCalls
    <2>1. UNCHANGED <<str, buf, group, dev, app, ch>>
      BY <1>2 DEF StopCalls
    <2>2. \A p \in Players : stops'[p] = "ok" => stops[p] = "ok"
      BY <1>0, <1>2 DEF StopCalls
    <2> QED BY <1>1, <2>1, <2>2 DEF SameWay
  <1>3. ASSUME UNCHANGED <<str, buf, group, dev, app, stops>>,
               \/ ch' = ch
               \/ \E x : \/ ch' = [ch EXCEPT !.pollPlayers = x] \/ ch' = [ch EXCEPT !.cookie = x]
                         \/ ch' = [ch EXCEPT !.plyStreaming = x] \/ ch' = [ch EXCEPT !.plyStates = x]
                         \/ ch' = [ch EXCEPT !.play = x] \/ ch' = [ch EXCEPT !.plyEvent = x]
                         \/ \E y : ch' = [ch EXCEPT !.states = y, !.pollPlayers = x]
        PROVE  KeptInv'
    <2>1. SameWay /\ ch'.rebufferDone = ch.rebufferDone /\ ch'.events = ch.events
          /\ ch'.bufEvent = ch.bufEvent
      BY <1>0, <1>3 DEF Channels, SameWay
    <2> QED BY <1>1, <1>3, <2>1
  <1>4. CASE PollTakes
    BY <1>3, <1>4 DEF PollTakes
  <1>5. CASE PollAsks
    BY <1>3, <1>5 DEF PollAsks
  <1>6. CASE PollCounts
    <2>1. UNCHANGED <<str, buf, group, dev, app, stops>>
      BY <1>6 DEF PollCounts
    <2>2. \E x, y : ch' = [ch EXCEPT !.states = y, !.pollPlayers = x]
      BY <1>6 DEF PollCounts
    <2> QED BY <1>3, <2>1, <2>2
  <1>7. CASE PlayStep
    <2>1. UNCHANGED <<str, buf, group, dev, app, stops>>
      BY <1>7 DEF PlayStep, PlayPlayers, PlayStates, PlayCommand, PlayEvent
    <2>2. \E x : \/ ch' = [ch EXCEPT !.plyStreaming = x] \/ ch' = [ch EXCEPT !.plyStates = x]
                \/ ch' = [ch EXCEPT !.play = x] \/ ch' = [ch EXCEPT !.plyEvent = x]
      BY <1>7 DEF PlayStep, PlayPlayers, PlayStates, PlayCommand, PlayEvent
    <2> QED BY <1>3, <2>1, <2>2
  <1> QED BY <1>2, <1>4, <1>5, <1>6, <1>7 DEF PollStep
-----------------------------------------------------------------------------
\* Channels c and d have the same tables.
Alike(c, d) == /\ c.streaming = d.streaming /\ c.bufStreaming = d.bufStreaming
               /\ c.streamPlayers = d.streamPlayers

(* What changes of the channels touch a table. *)
LEMMA ChannelsAlike ==
  ASSUME NEW c \in Channels
  PROVE  /\ \A x : /\ Alike([c EXCEPT !.acquire = x], c) /\ Alike([c EXCEPT !.command = x], c)
                   /\ Alike([c EXCEPT !.strStates = x], c) /\ Alike([c EXCEPT !.cookie = x], c)
                   /\ Alike([c EXCEPT !.rebufferDone = x], c)
                   /\ Alike([c EXCEPT !.rebufferRequest = x], c)
         /\ \A e, n : Alike(Emit(c, e, n), c)
         /\ \A x : /\ [c EXCEPT !.streamPlayers = x].streaming = c.streaming
                   /\ [c EXCEPT !.streamPlayers = x].bufStreaming = c.bufStreaming
                   /\ [c EXCEPT !.streamPlayers = x].streamPlayers = x
         /\ \A x : /\ [c EXCEPT !.streaming = x].streaming = x
                   /\ [c EXCEPT !.streaming = x].bufStreaming = c.bufStreaming
                   /\ [c EXCEPT !.streaming = x].streamPlayers = c.streamPlayers
  <1>1. ASSUME NEW x
        PROVE  /\ Alike([c EXCEPT !.acquire = x], c) /\ Alike([c EXCEPT !.command = x], c)
               /\ Alike([c EXCEPT !.strStates = x], c) /\ Alike([c EXCEPT !.cookie = x], c)
               /\ Alike([c EXCEPT !.rebufferDone = x], c)
               /\ Alike([c EXCEPT !.rebufferRequest = x], c)
               /\ Alike([c EXCEPT !.events = x], c)
    BY DEF Alike, Channels
  <1>2. ASSUME NEW x
        PROVE  /\ [c EXCEPT !.streamPlayers = x].streaming = c.streaming
               /\ [c EXCEPT !.streamPlayers = x].bufStreaming = c.bufStreaming
               /\ [c EXCEPT !.streamPlayers = x].streamPlayers = x
               /\ [c EXCEPT !.streaming = x].streaming = x
               /\ [c EXCEPT !.streaming = x].bufStreaming = c.bufStreaming
               /\ [c EXCEPT !.streaming = x].streamPlayers = c.streamPlayers
    BY DEF Channels
  <1>3. ASSUME NEW e, NEW n PROVE Alike(Emit(c, e, n), c)
    <2> DEFINE q == Append(c.events, Event(e, n))
    <2>1. Emit(c, e, n) = [c EXCEPT !.events = q]
      BY DEF Emit
    <2> HIDE DEF q
    <2> QED BY <1>1, <2>1
  <1> QED BY <1>1, <1>2, <1>3

(* The chain when neither the tables nor the channels of tables change. *)
LEMMA ChainSame ==
  ASSUME NEW bs, NEW t, NEW s, NEW c, Chain(str, ch, bs, t), Alike(c, ch),
         s.players = str.players, s.needRebuffer = str.needRebuffer,
         s.rebufferPlayers = str.rebufferPlayers, s.new = str.new \/ s.new = None,
         s.new # None => s.pc = "wait", str.pc # "waiting", s.pc # "waiting"
  PROVE  Chain(s, c, bs, t)
  BY DEF Chain, Wanted, Alike

(* A new table in the stream loop never takes a player away. *)
LEMMA ChainAdopt ==
  ASSUME NEW bs, NEW t, NEW s \in Streams, NEW new \in Tables, NEW c \in Channels,
         Chain(str, ch, bs, t), s.players = str.players, s.needRebuffer = str.needRebuffer,
         s.rebufferPlayers = str.rebufferPlayers, s.new = None, str.pc # "waiting",
         s.pc # "waiting", NEW r, r.players = s.players,
         Wanted(str) \subseteq new, new \subseteq t,
         c.streaming = ch.streaming, c.bufStreaming = ch.bufStreaming, c.streamPlayers = None
  PROVE  /\ Chain(Adopt(s, new), Announce(c, r, new), bs, t)
         /\ Adopt(s, new).players = s.players /\ Adopt(s, new).pc = s.pc
         /\ Wanted(Adopt(s, new)) = new
  <1> DEFINE x == [s EXCEPT !.needRebuffer = TRUE, !.rebufferPlayers = new]
             y == [s EXCEPT !.needRebuffer = FALSE, !.players = new]
  <1>1. /\ x.players = s.players /\ x.needRebuffer /\ x.rebufferPlayers = new /\ x.new = None
        /\ x.pc = s.pc
    BY DEF Streams
  <1>2. /\ y.players = new /\ ~y.needRebuffer /\ y.new = None /\ y.pc = s.pc
    BY DEF Streams
  <1> HIDE DEF x, y
  <1>3. CASE RebufferIsNeeded(s.players, new)
    <2>1. Adopt(s, new) = x /\ Announce(c, r, new) = c
      BY <1>3 DEF Adopt, Announce, x
    <2>2. Wanted(x) = new
      BY <1>1 DEF Wanted
    <2> QED BY <1>1, <2>1, <2>2 DEF Chain
  <1>4. CASE ~RebufferIsNeeded(s.players, new)
    <2> DEFINE d == [c EXCEPT !.streaming = new]
    <2>1. Adopt(s, new) = y /\ Announce(c, r, new) = d /\ new \subseteq s.players
      BY <1>4 DEF Adopt, Announce, RebufferIsNeeded, y
    <2>2. /\ d.streaming = new /\ d.bufStreaming = ch.bufStreaming /\ d.streamPlayers = None
      BY ChannelsAlike
    <2> HIDE DEF d
    <2>3. Wanted(y) = new
      BY <1>2 DEF Wanted
    <2>4. new = s.players
      BY <2>1 DEF Chain
    <2> QED BY <1>2, <2>1, <2>2, <2>3, <2>4 DEF Chain
  <1> QED BY <1>3, <1>4

(* What is left to show of a step of stream_thread when do_rebuffer does not run. *)
LEMMA StreamKept ==
  ASSUME Steady, Chain(str, ch, buf.streaming, group.table)', DevicesSane', KeptOK',
         buf' = buf, str.pc # "rebuffer" \/ ch.rebufferDone,
         ch'.rebufferRequest \/ str'.pc # "rebuffer"
  PROVE  KeptInv'
  <1>1. buf.pc = "loop"
    BY StreamAlone DEF Steady
  <1>2. ~ch'.rebufferDone
    BY DEF Steady, AudioInv, HandshakeOK
  <1>3. RefillOK'
    BY <1>1, <1>2 DEF RefillOK
  <1> QED BY <1>3 DEF KeptInv

(* When the players are about to be sent a history, only that matters. *)
LEMMA KeptUnlevel ==
  ASSUME ~Level', ~Quiet', NEW m \in Nat, NEW l \in Nat, Window(buf.buffers, Pending, m, l)'
  PROVE  KeptOK'
  BY DEF KeptOK, Even
-----------------------------------------------------------------------------
(* The stream is acquired: the players are to be stopped, and the history is  *)
(* emptied.                                                                   *)
LEMMA BeginAcquireKept ==
  ASSUME Steady, NEW a, NEW s \in Streams, NEW c, Passes(c), BeginAcquire(a, s, c),
         str.pc \in {"waiting", "loop", "wait"}, c.events = ch.events, c.streamPlayers = None,
         c.bufStreaming = ch.bufStreaming, UNCHANGED <<dev, buf, group>>,
         str.players \subseteq s.players, s.players \subseteq group.table, s.players # {},
         Wanted(s) = s.players
  PROVE  KeptInv'
  <1> DEFINE k == s.cookie + 1
             ps == s.players
             d == [c EXCEPT !.streaming = ps, !.cookie = k]
             f == [c EXCEPT !.streaming = ps]
  <1>0. AudioInv /\ AudioInv'
    BY DEF Steady
  <1>1. /\ str' = [s EXCEPT !.pc = "stopping", !.cmd = a, !.new = None, !.cookie = k]
        /\ ch' = Emit(d, "ACQUIRE_STARTED", 0) /\ stops' = WantStops(ps)
    BY DEF BeginAcquire
  <1>2. k \in Nat /\ ps \in Tables
    BY DEF Streams
  <1> HIDE DEF k, ps
  <1>3. /\ str'.pc = "stopping" /\ str'.players = ps /\ str'.new = None
        /\ str'.needRebuffer = s.needRebuffer /\ str'.rebufferPlayers = s.rebufferPlayers
    BY <1>1 DEF Streams, ps
  <1>4. /\ Passes(d) /\ d.events = ch.events /\ d.streaming = ps
        /\ d.bufStreaming = ch.bufStreaming /\ d.streamPlayers = None
    <2>1. f \in Channels /\ f.bufEvent = ch.bufEvent /\ f.rebufferRequest = ch.rebufferRequest
          /\ f.rebufferDone = ch.rebufferDone /\ f.events = ch.events
      BY <1>2, TablePasses DEF Passes
    <2>2. /\ f.streaming = ps /\ f.bufStreaming = ch.bufStreaming /\ f.streamPlayers = None
      BY ChannelsAlike DEF Passes
    <2>3. d = [f EXCEPT !.cookie = k]
      BY DEF Passes, Channels
    <2> HIDE DEF d, f
    <2> QED BY <1>2, <2>1, <2>2, <2>3, ZenonT(60) DEF Passes, Channels, Maybe
  <1> HIDE DEF d
  <1>5. PICK e \in Events : /\ e.event = "ACQUIRE_STARTED" /\ ch'.events = Append(ch.events, e)
                            /\ ch'.bufEvent = ch.bufEvent
    <2>1. "ACQUIRE_STARTED" \in EventNames
      BY DEF EventNames
    <2> QED BY <1>1, <1>4, <2>1, TellPasses, SMTT(30) DEF Passes
  <1>6. Pending' = Append(Pending, e) /\ Clears(e)
    BY <1>0, <1>5, PendingSteps DEF Clears
  <1>7. Alike(ch', d)
    BY <1>1, <1>4, ChannelsAlike DEF Passes
  <1>8. Chain(str, ch, buf.streaming, group.table)'
    <2>1. Wanted(str') = ps
      BY <1>3 DEF Wanted, ps
    <2>2. Chain(str, ch, buf.streaming, group.table)
      BY DEF Steady, KeptInv
    <2> QED BY <1>3, <1>4, <1>7, <2>1, <2>2 DEF Chain, Alike, ps
  <1>9. DevicesSane'
    <2>1. \A p \in Players : stops'[p] # "ok"
      BY <1>1 DEF WantStops
    <2> QED BY <1>0, <2>1, DevicesAlone, SaneSame DEF Steady, KeptInv
  <1>10. ~Level'
    <2>1. ~ch'.rebufferDone
      BY <1>0, <1>3 DEF AudioInv, HandshakeOK
    <2> QED BY <1>3, <2>1 DEF Level
  <1>11. KeptOK'
    BY <1>0, <1>6, <1>9, <1>10, KeptCleared DEF Steady, KeptInv
  <1> QED BY <1>3, <1>8, <1>9, <1>11, StreamKept

(* stream_thread before an acquire. *)
LEMMA WaitingKept ==
  ASSUME Steady, WaitingPlayers \/ WaitingAcquire \/ WaitingCommand
  PROVE  KeptInv'
  <1>0. /\ AudioInv /\ AudioInv' /\ IndInv /\ str.pc = "waiting" /\ UNCHANGED <<dev, buf, group>>
        /\ str \in Streams /\ ch \in Channels /\ str.players \in Tables
    BY SteadyTypes DEF WaitingPlayers, WaitingAcquire, WaitingCommand, StreamAt, Steady, AudioInv
  <1>1. /\ Chain(str, ch, buf.streaming, group.table) /\ ~str.needRebuffer /\ str.new = None
        /\ Wanted(str) = str.players
    BY <1>0 DEF Steady, KeptInv, Chain, Wanted
  <1>2. ~ch.rebufferDone /\ ~ch.rebufferRequest /\ buf.pc = "loop"
    BY <1>0, StreamAlone
  <1>3. CASE WaitingPlayers
    <2> DEFINE ps == ch.streamPlayers
    <2>1. /\ ps # None /\ str' = [str EXCEPT !.players = ps]
          /\ ch' = [ch EXCEPT !.streamPlayers = None] /\ UNCHANGED stops
      BY <1>3 DEF WaitingPlayers
    <2> HIDE DEF ps
    <2>2. /\ str'.players = ps /\ str'.pc = "waiting" /\ str'.new = None /\ ~str'.needRebuffer
      BY <1>0, <1>1, <2>1 DEF Streams
    <2>3. /\ ch'.streaming = ch.streaming /\ ch'.bufStreaming = ch.bufStreaming
          /\ ch'.streamPlayers = None /\ ch'.events = ch.events /\ ch'.bufEvent = ch.bufEvent
      BY <1>0, <2>1 DEF Channels
    <2>4. Chain(str, ch, buf.streaming, group.table)'
      <3>1. Wanted(str') = ps
        BY <2>2 DEF Wanted
      <3> QED BY <1>0, <1>1, <2>1, <2>2, <2>3, <3>1 DEF Chain, ps
    <2>5. DevicesSane'
      BY <1>0, <2>1, DevicesAlone, SaneSame DEF Steady, KeptInv
    <2>6. ~Level /\ ~Level' /\ Quiet
      BY <1>0, <1>2, <2>2 DEF Level, Quiet, AudioInv, HandshakeOK
    <2>7. KeptOK'
      <3>1. Pending' = Pending
        BY <1>0, <2>3, PendingSteps
      <3> QED BY <1>0, <2>6, <3>1, KeptSame DEF Steady, KeptInv
    <2> QED BY <1>0, <2>2, <2>4, <2>5, <2>7, StreamKept
  <1>4. ASSUME UNCHANGED <<str, stops>>, NEW x, \/ ch' = [ch EXCEPT !.acquire = x]
                                          \/ ch' = [ch EXCEPT !.command = x]
        PROVE  KeptInv'
    <2>1. /\ SameWay /\ ch'.rebufferDone = ch.rebufferDone /\ ch'.events = ch.events
          /\ ch'.bufEvent = ch.bufEvent
      BY <1>0, <1>4 DEF Channels, SameWay
    <2>2. Pending' = Pending
      BY <1>0, <2>1, PendingSteps
    <2> QED BY <1>0, <1>4, <2>1, <2>2, DevicesAlone, Undisturbed
  <1>5. CASE WaitingCommand
    BY <1>4, <1>5 DEF WaitingCommand
  <1>6. CASE WaitingAcquire
    <2> DEFINE a == Head(ch.acquire)
               c == [ch EXCEPT !.acquire = Tail(@)]
    <2>1. /\ ch.acquire # << >> /\ ch.streamPlayers = None
          /\ \/ ch' = c /\ UNCHANGED <<str, stops>>
             \/ BeginAcquire(a, str, c) /\ str.players # {}
      BY <1>6 DEF WaitingAcquire
    <2>2. CASE ch' = c /\ UNCHANGED <<str, stops>>
      BY <1>4, <2>2
    <2>3. CASE BeginAcquire(a, str, c) /\ str.players # {}
      <3>1. Passes(c) /\ c.events = ch.events
        BY <1>0, <2>1, TakingPasses
      <3>2. Alike(c, ch)
        BY <1>0, ChannelsAlike
      <3>3. str.players \subseteq group.table
        BY <1>1 DEF Chain
      <3> HIDE DEF a, c
      <3> QED BY <1>0, <1>1, <2>1, <2>3, <3>1, <3>2, <3>3, BeginAcquireKept DEF Alike
    <2> QED BY <2>1, <2>2, <2>3
  <1> QED BY <1>3, <1>5, <1>6

(* The players that have stopped are started again. *)
LEMMA CountedSane ==
  ASSUME AudioInv, DevicesSane, lost = {}, failed = {}, CountStops
  PROVE  DevicesSane'
  <1>0. dev \in [Players -> Devices] /\ stops \in [Players -> StopStates]
    BY SteadyTypes
  <1>1. ASSUME NEW p \in Players
        PROVE  /\ stops[p] = "ok" => dev'[p] = GetStart(dev[p])
               /\ stops[p] # "ok" => dev'[p] = dev[p]
               /\ stops'[p] = IF Stopped(p) THEN "none" ELSE stops[p]
    BY <1>0 DEF CountStops, WriteTo, Wrote, Answered
  <1>2. ASSUME NEW p \in Players PROVE Sane(dev'[p], stops'[p])
    <2>1. Sane(dev[p], stops[p]) /\ dev[p] \in Devices /\ 1 \in Nat \ {0} /\ 1 \in Nat
      BY <1>0 DEF DevicesSane
    <2>2. CASE stops[p] = "ok"
      <3>1. stops'[p] = "none" /\ dev'[p] = GetStart(dev[p])
        BY <1>1, <2>2 DEF Stopped
      <3> QED BY <2>1, <2>2, <3>1, SaneCommands
    <2>3. CASE stops[p] # "ok"
      <3>1. stops'[p] # "ok" /\ dev'[p] = dev[p]
        BY <1>1, <2>3 DEF Stopped
      <3> QED BY <2>1, <3>1 DEF Sane
    <2> QED BY <2>2, <2>3
  <1> QED BY <1>2 DEF DevicesSane

(* stop_players of an acquire. *)
LEMMA AcquireStopsKept ==
  ASSUME Steady, AcquireStops
  PROVE  KeptInv'
  <1>0. /\ AudioInv /\ AudioInv' /\ IndInv /\ str.pc = "stopping" /\ UNCHANGED <<buf, group>>
        /\ str \in Streams /\ ch \in Channels /\ str.players \in Tables
        /\ dev \in [Players -> Devices] /\ stops \in [Players -> StopStates]
        /\ lost = {} /\ failed = {}
    BY SteadyTypes DEF AcquireStops, StreamAt, Steady, AudioInv
  <1>1. /\ Chain(str, ch, buf.streaming, group.table) /\ str.new = None /\ str.players # {}
    BY <1>0 DEF Steady, KeptInv, Chain
  <1>2. ~ch.rebufferDone /\ ~ch.rebufferRequest /\ buf.pc = "loop" /\ ~Level /\ Quiet
    BY <1>0, StreamAlone DEF Level, Quiet
  <1>3. DevicesSane'
    BY <1>0, CountedSane DEF AcquireStops, Steady, KeptInv
  <1>4. CASE AllStopped
    <2> DEFINE k == str.owner + 1
    <2>1. /\ str' = [str EXCEPT !.pc = "loop", !.cmd = None, !.owner = k,
                                !.beginNow = TRUE, !.needRebuffer = FALSE,
                                !.rebufferPlayers = {}, !.afterTrackEnd = FALSE]
          /\ ch' = Emit(ch, "ACQUIRE_DONE", 0)
      BY <1>4 DEF AcquireStops
    <2> HIDE DEF k
    <2>2. /\ str'.pc = "loop" /\ str'.players = str.players /\ str'.beginNow
          /\ ~str'.needRebuffer /\ str'.new = None
      BY <1>0, <1>1, <2>1 DEF Streams
    <2>3. PICK e \in Events : /\ e.event = "ACQUIRE_DONE" /\ ch'.events = Append(ch.events, e)
                              /\ ch'.bufEvent = ch.bufEvent
      <3>1. "ACQUIRE_DONE" \in EventNames /\ Passes(ch)
        BY <1>0, TakingPasses DEF EventNames
      <3> QED BY <2>1, <3>1, TellPasses DEF Passes
    <2>4. Pending' = Append(Pending, e) /\ ~Clears(e) /\ e.event # "BUFFER"
      BY <1>0, <2>3, PendingSteps DEF Clears
    <2>5. Alike(ch', ch)
      BY <1>0, <2>1, ChannelsAlike
    <2>6. Chain(str, ch, buf.streaming, group.table)'
      BY <1>0, <1>1, <2>2, <2>5 DEF Chain, Wanted, Alike
    <2>7. \A p \in str'.players : dev'[p].last = 0
      <3>1. StreamKnown' /\ Good' /\ lost' = {} /\ failed' = {}
        BY DEF Steady, AudioInv, AudioOK
      <3>2. \A p \in str'.players : dev'[p].st = "started"
        BY <2>2, <3>1 DEF StreamKnown, Fine, Healthy, InStep, Good
      <3> QED BY <1>0, <1>3, <2>2, <3>2 DEF DevicesSane, Sane, Tables
    <2>8. PICK m \in Nat, l \in Nat : Even(m, l)
      BY DEF Steady, KeptInv, KeptOK
    <2>9. l = 0 /\ m = 0
      BY <1>2, <2>8 DEF Even, Window
    <2>10. Window(buf.buffers, Pending, 0, 0)'
      <3>1. buf.buffers \in Seq(Nat) /\ Pending \in Seq(Events)
        BY <1>0, SteadyTypes
      <3>2. Window(buf.buffers, Append(Pending, e), 0, 0)
        BY <2>4, <2>8, <2>9, <3>1, WindowGrows DEF Even
      <3> QED BY <1>0, <2>4, <3>2
    <2>11. KeptOK'
      BY <1>0, <1>1, <1>3, <2>2, <2>7, <2>10, KeptReset
    <2> QED BY <1>0, <1>3, <2>2, <2>6, <2>11, StreamKept
  <1>5. CASE ~AllStopped
    <2>1. UNCHANGED <<str, ch>>
      BY <1>5 DEF AcquireStops
    <2>2. Pending' = Pending
      BY <1>0, <2>1, PendingSteps
    <2>3. ~Level'
      BY <1>0, <1>2, <2>1 DEF Level
    <2>4. KeptOK'
      BY <1>0, <1>2, <2>2, <2>3, KeptSame DEF Steady, KeptInv
    <2> QED BY <1>0, <1>1, <1>3, <2>1, <2>4, StreamKept
  <1> QED BY <1>4, <1>5
-----------------------------------------------------------------------------
(* A rebuffer is asked for: the players of the new table are to be stopped.   *)
LEMMA StartRebufferKept ==
  ASSUME Steady, NEW s \in Streams, NEW c, Passes(c), StartRebuffer(s, c), str.pc = "loop",
         UNCHANGED <<buf, group>>, DevicesSane', s.needRebuffer, s.new = None,
         Wanted(str) \subseteq s.rebufferPlayers, s.rebufferPlayers \subseteq group.table,
         c.bufStreaming = ch.bufStreaming, c.streamPlayers = None,
         \/ c.events = ch.events
         \/ \E e \in Events : ~Clears(e) /\ e.event # "BUFFER" /\ c.events = Append(ch.events, e)
  PROVE  KeptInv'
  <1> DEFINE k == s.cookie + 1
             ps == s.rebufferPlayers
             f == [c EXCEPT !.streaming = ps]
             d == [c EXCEPT !.streaming = ps, !.rebufferRequest = TRUE]
  <1>0. /\ AudioInv /\ AudioInv' /\ ch.events \in Seq(Events) /\ ps \in Tables
        /\ Pending \in Seq(Events) /\ buf.buffers \in Seq(Nat)
    BY SteadyTypes DEF Steady, Streams
  <1>1. /\ str' = [s EXCEPT !.pc = "rebuffer", !.cookie = k, !.players = ps, !.listen = TRUE]
        /\ ch' = Emit(d, "REBUFFER", 0)
    BY DEF StartRebuffer
  <1> HIDE DEF k, ps
  <1>2. /\ str'.pc = "rebuffer" /\ str'.players = ps /\ str'.new = None
        /\ str'.needRebuffer /\ str'.rebufferPlayers = ps
    BY <1>1 DEF Streams, ps
  <1>3. /\ d \in Channels /\ d.streaming = ps /\ d.bufStreaming = ch.bufStreaming
        /\ d.streamPlayers = None /\ d.rebufferRequest /\ d.bufEvent = ch.bufEvent
        /\ d.events = c.events
    <2>1. f \in Channels /\ f.bufEvent = ch.bufEvent /\ f.events = c.events
      BY <1>0, TablePasses DEF Passes
    <2>2. /\ f.streaming = ps /\ f.bufStreaming = ch.bufStreaming /\ f.streamPlayers = None
      BY ChannelsAlike DEF Passes
    <2>3. d = [f EXCEPT !.rebufferRequest = TRUE]
      BY DEF Passes, Channels
    <2> HIDE DEF d, f
    <2> QED BY <2>1, <2>2, <2>3 DEF Channels
  <1> HIDE DEF d
  <1>4. Alike(ch', d)
    BY <1>1, <1>3, ChannelsAlike
  <1>5. ch'.rebufferRequest /\ ch'.bufEvent = ch.bufEvent /\ ch'.events = Append(c.events, Event("REBUFFER", 0))
    <2> DEFINE q == Append(d.events, Event("REBUFFER", 0))
    <2>1. ch' = [d EXCEPT !.events = q]
      BY <1>1 DEF Emit
    <2> HIDE DEF q
    <2>2. ch'.rebufferRequest /\ ch'.bufEvent = ch.bufEvent /\ ch'.events = q
      BY <1>3, <2>1 DEF Channels
    <2> QED BY <1>3, <2>2 DEF q
  <1>6. Chain(str, ch, buf.streaming, group.table)'
    <2>1. Wanted(str') = ps
      BY <1>2 DEF Wanted
    <2>2. Chain(str, ch, buf.streaming, group.table)
      BY DEF Steady, KeptInv
    <2> QED BY <1>2, <1>3, <1>4, <2>1, <2>2 DEF Chain, Alike, ps
  <1>7. ~Level' /\ ~Quiet'
    <2>1. ~ch'.rebufferDone
      BY <1>0, <1>5 DEF AudioInv, HandshakeOK
    <2> QED BY <1>2, <2>1 DEF Level, Quiet, Beginning
  <1>8. PICK r \in Events : r = Event("REBUFFER", 0) /\ ~Clears(r) /\ r.event # "BUFFER"
    <2>1. "REBUFFER" \in EventNames
      BY DEF EventNames
    <2>2. Event("REBUFFER", 0) \in Events /\ Event("REBUFFER", 0).event = "REBUFFER"
      BY <2>1, TellPasses
    <2> QED BY <2>2 DEF Clears
  <1>9. PICK m \in Nat, l \in Nat : Window(buf.buffers, Pending, m, l)
    BY DEF Steady, KeptInv, KeptOK, Even
  <1>10. Window(buf.buffers, Pending, m, l)'
    <2>1. CASE c.events = ch.events
      <3>1. Pending' = Append(Pending, r)
        BY <1>0, <1>5, <1>8, <2>1, PendingSteps
      <3>2. Window(buf.buffers, Append(Pending, r), m, l)
        BY <1>0, <1>8, <1>9, WindowGrows
      <3> QED BY <3>1, <3>2
    <2>2. ASSUME NEW e \in Events, ~Clears(e), e.event # "BUFFER", c.events = Append(ch.events, e)
          PROVE  Window(buf.buffers, Pending, m, l)'
      <3> DEFINE h == IF ch.bufEvent = None THEN << >> ELSE <<ch.bufEvent>>
                 q == ch.events
      <3>1. h \in Seq(Events) /\ q \in Seq(Events)
        BY <1>0, SteadyTypes DEF Maybe
      <3>2. Pending = h \o q /\ Pending' = h \o Append(Append(q, e), r)
        BY <1>5, <1>8, <2>2 DEF Pending
      <3> HIDE DEF h, q
      <3>3. Append(q, e) \in Seq(Events)
        BY <3>1
      <3>4. h \o Append(q, e) = Append(h \o q, e)
        BY <3>1, AppendAfter
      <3>5. h \o Append(Append(q, e), r) = Append(h \o Append(q, e), r)
        BY <3>1, <3>3, AppendAfter
      <3>6. Pending' = Append(Append(Pending, e), r)
        BY <3>2, <3>4, <3>5
      <3>7. Append(Pending, e) \in Seq(Events)
        BY <1>0
      <3>8. Window(buf.buffers, Append(Pending, e), m, l)
        BY <1>0, <1>9, <2>2, WindowGrows
      <3>9. Window(buf.buffers, Append(Append(Pending, e), r), m, l)
        BY <1>0, <1>8, <3>7, <3>8, WindowGrows
      <3> QED BY <3>6, <3>9
    <2> QED BY <2>1, <2>2
  <1>11. KeptOK'
    BY <1>7, <1>10, KeptUnlevel
  <1> QED BY <1>5, <1>6, <1>11, StreamKept

(* A step in the stream loop that sends nothing. *)
LEMMA LoopKept ==
  ASSUME Steady, str.pc = "loop", str'.pc = "loop", str'.players = str.players,
         Chain(str, ch, buf.streaming, group.table)', ch'.events = ch.events,
         ch'.bufEvent = ch.bufEvent, UNCHANGED <<dev, stops, buf, group>>
  PROVE  KeptInv'
  <1>0. /\ AudioInv /\ AudioInv' /\ str.players \in Tables
    BY SteadyTypes DEF Steady
  <1>1. Pending' = Pending
    BY <1>0, PendingSteps
  <1>2. SameDevices
    BY <1>0, DevicesAlone
  <1>3. DevicesSane'
    BY <1>0, <1>2, SaneSame DEF Steady, KeptInv
  <1>4. KeptOK'
    <2>1. Level /\ ~Quiet'
      BY DEF Level, Quiet, Beginning
    <2>2. \A p \in str.players : /\ dev'[p].last = dev[p].last /\ dev'[p].first = dev[p].first
                                 /\ dev'[p].fill <= dev[p].fill
      BY <1>0, <1>2 DEF SameDevices, Tables
    <2> QED BY <1>0, <1>1, <2>1, <2>2, KeptSame DEF Steady, KeptInv
  <1> QED BY <1>3, <1>4, StreamKept

(* What a player has after a chunk or an end of its track. *)
LEMMA SentChunks ==
  ASSUME NEW d \in Devices, NEW c \in Nat, NEW n \in Nat
  PROVE  /\ GetChunk(d, c, n).last = n /\ GetChunk(d, c, n).fill = d.fill + 1
         /\ GetChunk(d, c, n).first = (IF d.last = 0 THEN n ELSE d.first)
         /\ GetEnd(d).last = d.last /\ GetEnd(d).fill = d.fill /\ GetEnd(d).first = d.first
  <1> DEFINE b == \/ d.bad
                  \/ d.st # "streaming" \/ d.token # c \/ d.fill = Capacity
                  \/ d.last # 0 /\ n # d.last + 1
             f == IF d.last = 0 THEN n ELSE d.first
             k == d.fill + 1
             b2 == d.bad \/ d.st # "streaming"
  <1>1. GetChunk(d, c, n) = [d EXCEPT !.last = n, !.fill = k, !.first = f, !.bad = b]
    BY DEF GetChunk
  <1>2. GetEnd(d) = [d EXCEPT !.st = "ended", !.bad = b2]
    BY DEF GetEnd
  <1> HIDE DEF b, b2, f, k
  <1>3. /\ GetChunk(d, c, n).last = n /\ GetChunk(d, c, n).fill = k /\ GetChunk(d, c, n).first = f
        /\ GetEnd(d).last = d.last /\ GetEnd(d).fill = d.fill /\ GetEnd(d).first = d.first
    BY <1>1, <1>2 DEF Devices
  <1> QED BY <1>3 DEF f, k
-----------------------------------------------------------------------------
(* The stream loop: new tables, acquires, wrong tokens and can. *)
LEMMA LoopsKept ==
  ASSUME Steady, LoopPlayers \/ LoopAcquire \/ InvalidToken \/ HandleCan
  PROVE  KeptInv'
  <1>0. /\ AudioInv /\ AudioInv' /\ IndInv /\ str.pc = "loop" /\ UNCHANGED <<dev, buf, group>>
        /\ str \in Streams /\ ch \in Channels /\ str.players \in Tables
        /\ str.rebufferPlayers \in Tables
    BY SteadyTypes DEF LoopPlayers, LoopAcquire, InvalidToken, HandleCan, Handles, TakesCommand,
                       StreamAt, Steady, AudioInv, Streams
  <1>1. /\ Chain(str, ch, buf.streaming, group.table) /\ str.new = None /\ str.players # {}
        /\ str.players \subseteq Wanted(str) /\ Wanted(str) \subseteq group.table
    BY <1>0 DEF Steady, KeptInv, Chain
  <1>2. stops' = stops => DevicesSane'
    BY <1>0, DevicesAlone, SaneSame DEF Steady, KeptInv
  <1>3. CASE LoopPlayers
    <2> DEFINE new == ch.streamPlayers
               c == [ch EXCEPT !.streamPlayers = None]
    <2>1. /\ new # None
          /\ \/ new = {} /\ WaitForAcquire(str, c)
             \/ /\ StartRebuffer(Adopt(str, new), c) /\ RebufferIsNeeded(str.players, new)
                /\ UNCHANGED stops
             \/ str' = Adopt(str, new) /\ ch' = Announce(c, str, new) /\ UNCHANGED stops
      BY <1>3 DEF LoopPlayers
    <2>2. /\ new \in Tables /\ Passes(c) /\ c.events = ch.events
      BY <1>0, <2>1, TakingPasses
    <2>3. /\ c.streaming = ch.streaming /\ c.bufStreaming = ch.bufStreaming
          /\ c.streamPlayers = None
      BY <1>0, ChannelsAlike
    <2>4. Wanted(str) \subseteq new /\ new \subseteq group.table /\ new # {}
      BY <1>1, <2>1 DEF Chain
    <2> HIDE DEF new, c
    <2>5. c \in Channels
      BY <2>2 DEF Passes
    <2>6. /\ Chain(Adopt(str, new), Announce(c, str, new), buf.streaming, group.table)
          /\ Adopt(str, new).players = str.players /\ Adopt(str, new).pc = "loop"
          /\ Wanted(Adopt(str, new)) = new
      BY <1>0, <1>1, <2>2, <2>3, <2>4, <2>5, ChainAdopt
    <2>7. CASE /\ StartRebuffer(Adopt(str, new), c) /\ RebufferIsNeeded(str.players, new)
               /\ UNCHANGED stops
      <3> DEFINE s == [str EXCEPT !.needRebuffer = TRUE, !.rebufferPlayers = new]
      <3>1. Adopt(str, new) = s
        BY <2>7 DEF Adopt
      <3>2. s \in Streams /\ s.needRebuffer /\ s.rebufferPlayers = new /\ s.new = None
        BY <1>0, <1>1, <2>2 DEF Streams
      <3> HIDE DEF s
      <3>3. StartRebuffer(s, c) /\ stops' = stops
        BY <2>7, <3>1
      <3> QED BY <1>0, <1>2, <2>2, <2>3, <2>4, <3>2, <3>3, StartRebufferKept
    <2>8. CASE str' = Adopt(str, new) /\ ch' = Announce(c, str, new) /\ UNCHANGED stops
      <3>1. ch'.events = ch.events /\ ch'.bufEvent = ch.bufEvent
        BY <2>2, <2>8, AnnouncePasses DEF Passes
      <3> QED BY <1>0, <2>6, <2>8, <3>1, LoopKept
    <2> QED BY <2>1, <2>4, <2>7, <2>8
  <1>4. CASE LoopAcquire
    <2> DEFINE a == Head(ch.acquire)
               c == [ch EXCEPT !.acquire = Tail(@)]
               ps == IF str.needRebuffer THEN str.rebufferPlayers ELSE str.players
               s == [str EXCEPT !.players = ps]
    <2>1. ch.acquire # << >> /\ ch.streamPlayers = None /\ BeginAcquire(a, s, c)
      BY <1>4 DEF LoopAcquire
    <2>2. Passes(c) /\ c.events = ch.events
      BY <1>0, <2>1, TakingPasses
    <2>3. Alike(c, ch)
      BY <1>0, ChannelsAlike
    <2>4. ps = Wanted(str) /\ ps \in Tables
      BY <1>0 DEF Wanted
    <2> HIDE DEF a, c, ps
    <2>5. /\ s \in Streams /\ s.players = ps /\ s.needRebuffer = str.needRebuffer
          /\ s.rebufferPlayers = str.rebufferPlayers
      BY <1>0, <2>4 DEF Streams
    <2> HIDE DEF s
    <2>6. Wanted(s) = s.players
      BY <2>4, <2>5 DEF Wanted
    <2>7. str.players \subseteq s.players /\ s.players \subseteq group.table /\ s.players # {}
      BY <1>1, <2>4, <2>5
    <2> QED BY <1>0, <2>1, <2>2, <2>3, <2>5, <2>6, <2>7, BeginAcquireKept DEF Alike
  <1>5. /\ NotTrackEnd \in Streams /\ NotTrackEnd.pc = "loop" /\ NotTrackEnd.new = None
        /\ NotTrackEnd.players = str.players /\ NotTrackEnd.needRebuffer = str.needRebuffer
        /\ NotTrackEnd.rebufferPlayers = str.rebufferPlayers
    BY <1>0, <1>1 DEF NotTrackEnd, Streams
  <1>6. Alike(AfterTake, ch)
    BY <1>0, ChannelsAlike DEF AfterTake
  <1>7. ASSUME ch.command # << >>, str' = NotTrackEnd, ch' = AfterTake, stops' = stops
        PROVE  KeptInv'
    <2>1. ch'.events = ch.events /\ ch'.bufEvent = ch.bufEvent
      BY <1>0, <1>7, TakingPasses DEF Passes
    <2>2. Chain(NotTrackEnd, AfterTake, buf.streaming, group.table)
      BY <1>0, <1>1, <1>5, <1>6, ChainSame
    <2> QED BY <1>0, <1>5, <1>7, <2>1, <2>2, LoopKept
  <1>8. CASE InvalidToken
    BY <1>7, <1>8 DEF InvalidToken, TakesCommand
  <1>9. CASE HandleCan
    <2>1. /\ ch.command # << >> /\ stops' = stops /\ ch.streamPlayers = None
          /\ \/ StartRebuffer(NotTrackEnd, AfterTake) /\ str.needRebuffer
             \/ str' = NotTrackEnd /\ ch' = AfterTake
      BY <1>9 DEF HandleCan, Handles, TakesCommand
    <2>2. Passes(AfterTake) /\ AfterTake.events = ch.events
      BY <1>0, <2>1, TakingPasses
    <2>3. CASE StartRebuffer(NotTrackEnd, AfterTake) /\ str.needRebuffer
      <3>1. Wanted(str) = str.rebufferPlayers
        BY <2>3 DEF Wanted
      <3> QED BY <1>0, <1>1, <1>2, <1>5, <1>6, <2>1, <2>2, <2>3, <3>1, StartRebufferKept DEF Alike
    <2> QED BY <1>7, <2>1, <2>3
  <1> QED BY <1>3, <1>4, <1>8, <1>9

(* flush: the players forget what they have, and so does the history. *)
LEMMA FlushKept ==
  ASSUME Steady, HandleFlush
  PROVE  KeptInv'
  <1> DEFINE k == str.cookie + 1
             d == [AfterTake EXCEPT !.cookie = k]
             ps == str.players
  <1>0. /\ AudioInv /\ AudioInv' /\ IndInv /\ str.pc = "loop" /\ UNCHANGED <<stops, buf, group>>
        /\ str \in Streams /\ ch \in Channels /\ ps \in Tables /\ ch.command # << >>
        /\ dev \in [Players -> Devices] /\ lost = {} /\ failed = {} /\ k \in Nat
    BY SteadyTypes DEF HandleFlush, Handles, TakesCommand, Steady, AudioInv, Streams
  <1>1. /\ str' = [NotTrackEnd EXCEPT !.cookie = @ + 1] /\ ch' = Emit(d, "FLUSH", 0)
        /\ dev' = [p \in Players |-> IF p \in ps THEN GetFlush(dev[p], k) ELSE dev[p]]
    BY <1>0 DEF HandleFlush, WriteTo, Wrote
  <1>2. /\ Passes(AfterTake) /\ AfterTake.events = ch.events /\ Alike(AfterTake, ch)
    BY <1>0, TakingPasses, ChannelsAlike DEF AfterTake
  <1>3. /\ str'.pc = "loop" /\ str'.players = ps /\ str'.needRebuffer = str.needRebuffer
        /\ str'.rebufferPlayers = str.rebufferPlayers /\ str'.new = str.new
    <2> DEFINE s == NotTrackEnd
               j == s.cookie + 1
    <2>1. /\ s \in Streams /\ s.pc = "loop" /\ s.needRebuffer = str.needRebuffer
          /\ s.rebufferPlayers = str.rebufferPlayers /\ s.new = str.new /\ s.players = ps
      BY <1>0 DEF NotTrackEnd, Streams
    <2>2. str' = [s EXCEPT !.cookie = j]
      BY <1>1
    <2> HIDE DEF s, j
    <2> QED BY <2>1, <2>2 DEF Streams
  <1> HIDE DEF k
  <1>4. Passes(d) /\ d.events = ch.events /\ Alike(d, ch)
    <2>1. k \in Maybe(Nat)
      BY <1>0 DEF Maybe
    <2>2. Passes(d) /\ d.events = ch.events
      BY <1>2, <2>1 DEF Passes, Channels
    <2>3. Alike(d, AfterTake)
      BY <1>2, ChannelsAlike DEF Passes
    <2> QED BY <1>2, <2>2, <2>3 DEF Alike
  <1> HIDE DEF d
  <1>5. PICK e \in Events : /\ e.event = "FLUSH" /\ ch'.events = Append(ch.events, e)
                            /\ ch'.bufEvent = ch.bufEvent
    <2>1. "FLUSH" \in EventNames
      BY DEF EventNames
    <2> QED BY <1>1, <1>4, <2>1, TellPasses DEF Passes
  <1>6. Pending' = Append(Pending, e) /\ Clears(e)
    BY <1>0, <1>5, PendingSteps DEF Clears
  <1>7. Chain(str, ch, buf.streaming, group.table)'
    <2>1. Alike(ch', ch)
      <3>1. Alike(ch', d)
        BY <1>1, <1>4, ChannelsAlike DEF Passes
      <3> QED BY <1>4, <3>1 DEF Alike
    <2>2. Chain(str, ch, buf.streaming, group.table)
      BY DEF Steady, KeptInv
    <2> QED BY <1>0, <1>3, <2>1, <2>2 DEF Chain, Alike, Wanted
  <1>8. /\ DevicesSane' /\ \A p \in ps : dev'[p].last = 0
    <2>1. ASSUME NEW p \in Players PROVE Sane(dev'[p], stops'[p]) /\ (p \in ps => dev'[p].last = 0)
      <3>1. Sane(dev[p], stops[p]) /\ dev[p] \in Devices /\ 1 \in Nat \ {0} /\ 1 \in Nat
        BY <1>0 DEF Steady, KeptInv, DevicesSane
      <3>2. CASE p \in ps
        <4>1. dev'[p] = GetFlush(dev[p], k)
          BY <1>1, <3>2
        <4> QED BY <1>0, <3>1, <4>1, SaneCommands, CommandEffects
      <3>3. CASE p \notin ps
        <4>1. dev'[p] = dev[p]
          BY <1>1, <3>3
        <4> QED BY <1>0, <3>1, <3>3, <4>1
      <3> QED BY <3>2, <3>3
    <2> QED BY <1>0, <2>1 DEF DevicesSane, Tables
  <1>9. KeptOK'
    <2>1. ps # {}
      BY <1>0 DEF Steady, KeptInv, Chain
    <2> QED BY <1>0, <1>3, <1>6, <1>8, <2>1, KeptCleared DEF Steady, KeptInv
  <1> QED BY <1>0, <1>3, <1>7, <1>8, <1>9, StreamKept
-----------------------------------------------------------------------------
(* track_end: the players keep what they have. *)
LEMMA TrackEndKept ==
  ASSUME Steady, HandleTrackEnd
  PROVE  KeptInv'
  <1> DEFINE s == [str EXCEPT !.afterTrackEnd = TRUE]
             c == Emit(AfterTake, "TRACK_END", 0)
             ps == str.players
  <1>0. /\ AudioInv /\ AudioInv' /\ IndInv /\ str.pc = "loop" /\ UNCHANGED <<stops, buf, group>>
        /\ str \in Streams /\ ch \in Channels /\ ps \in Tables /\ ch.command # << >>
        /\ dev \in [Players -> Devices] /\ lost = {} /\ failed = {} /\ ch.streamPlayers = None
    BY SteadyTypes DEF HandleTrackEnd, Handles, TakesCommand, Steady, AudioInv
  <1>1. /\ (StartRebuffer(s, c) /\ str.needRebuffer) \/ (str' = s /\ ch' = c)
        /\ dev' = [p \in Players |-> IF p \in ps THEN GetEnd(dev[p]) ELSE dev[p]]
    BY <1>0 DEF HandleTrackEnd, WriteTo, Wrote
  <1>2. /\ Passes(AfterTake) /\ AfterTake.events = ch.events /\ Alike(AfterTake, ch)
    BY <1>0, TakingPasses, ChannelsAlike DEF AfterTake
  <1>3. /\ Chain(str, ch, buf.streaming, group.table) /\ str.new = None
        /\ str.players \subseteq Wanted(str) /\ Wanted(str) \subseteq group.table
    BY <1>0 DEF Steady, KeptInv, Chain
  <1>4. /\ s \in Streams /\ s.players = ps /\ s.pc = "loop" /\ s.needRebuffer = str.needRebuffer
        /\ s.rebufferPlayers = str.rebufferPlayers /\ s.new = None
    BY <1>0, <1>3 DEF Streams
  <1>5. PICK e \in Events : e.event = "TRACK_END" /\ Passes(c) /\ c.events = Append(ch.events, e)
    <2>1. "TRACK_END" \in EventNames
      BY DEF EventNames
    <2> QED BY <1>2, <2>1, TellPasses
  <1>6. Alike(c, ch)
    <2>1. Alike(c, AfterTake)
      BY <1>2, ChannelsAlike DEF Passes
    <2> QED BY <1>2, <2>1 DEF Alike
  <1>7. ~Clears(e) /\ e.event # "BUFFER"
    BY <1>5 DEF Clears
  <1> HIDE DEF s, c
  <1>8. \A p \in Players : /\ Sane(dev'[p], stops'[p]) /\ dev'[p].last = dev[p].last
                           /\ dev'[p].first = dev[p].first /\ dev'[p].fill = dev[p].fill
                           /\ dev[p].fill \in Nat
    <2> SUFFICES ASSUME NEW p \in Players
                 PROVE  /\ Sane(dev'[p], stops'[p]) /\ dev'[p].last = dev[p].last
                        /\ dev'[p].first = dev[p].first /\ dev'[p].fill = dev[p].fill
                        /\ dev[p].fill \in Nat
      OBVIOUS
    <2>1. Sane(dev[p], stops[p]) /\ dev[p] \in Devices /\ 1 \in Nat \ {0} /\ 1 \in Nat
      BY <1>0 DEF Steady, KeptInv, DevicesSane
    <2>2. CASE p \in ps
      <3>1. dev'[p] = GetEnd(dev[p]) /\ stops'[p] = stops[p]
        BY <1>0, <1>1, <2>2
      <3>2. Sane(GetEnd(dev[p]), stops[p])
        BY <2>1, SaneCommands
      <3>3. /\ GetEnd(dev[p]).last = dev[p].last /\ GetEnd(dev[p]).fill = dev[p].fill
            /\ GetEnd(dev[p]).first = dev[p].first
        BY <2>1, SentChunks
      <3> QED BY <2>1, <3>1, <3>2, <3>3 DEF Devices
    <2>3. CASE p \notin ps
      <3>1. dev'[p] = dev[p] /\ stops'[p] = stops[p]
        BY <1>0, <1>1, <2>3
      <3> QED BY <2>1, <3>1 DEF Devices
    <2> QED BY <2>2, <2>3
  <1>9. DevicesSane'
    BY <1>8 DEF DevicesSane
  <1>10. CASE StartRebuffer(s, c) /\ str.needRebuffer
    <2>1. Wanted(str) = str.rebufferPlayers
      BY <1>10 DEF Wanted
    <2> QED BY <1>0, <1>3, <1>4, <1>5, <1>6, <1>7, <1>9, <1>10, <2>1, StartRebufferKept DEF Alike
  <1>11. CASE str' = s /\ ch' = c
    <2>1. Chain(s, c, buf.streaming, group.table)
      BY <1>0, <1>3, <1>4, <1>6, ChainSame
    <2>2. Chain(str, ch, buf.streaming, group.table)'
      BY <1>0, <1>11, <2>1
    <2>3. Pending' = Append(Pending, e)
      BY <1>0, <1>5, <1>11, PendingSteps DEF Passes
    <2>4. Level /\ ~Quiet'
      BY <1>0, <1>4, <1>11 DEF Level, Quiet, Beginning
    <2>5. \A p \in str.players : /\ dev'[p].last = dev[p].last /\ dev'[p].first = dev[p].first
                                 /\ dev'[p].fill <= dev[p].fill
      BY <1>0, <1>8 DEF Tables
    <2>6. KeptOK'
      BY <1>0, <1>4, <1>7, <1>11, <2>3, <2>4, <2>5, KeptSame DEF Steady, KeptInv
    <2> QED BY <1>0, <1>4, <1>9, <1>11, <2>2, <2>6, StreamKept
  <1> QED BY <1>1, <1>10, <1>11

(* A command during a rebuffer, and the end of the wait for it. *)
LEMMA RebufferAnswersKept ==
  ASSUME Steady, RebufferCommand \/ RebufferDone
  PROVE  KeptInv'
  <1>0. /\ AudioInv /\ AudioInv' /\ IndInv /\ str.pc = "rebuffer" /\ Runs(StreamThread)
        /\ UNCHANGED <<dev, stops, buf, group>>
        /\ str \in Streams /\ ch \in Channels /\ str.players \in Tables
    BY SteadyTypes DEF RebufferCommand, RebufferDone, StreamAt, Steady, AudioInv
  <1>1. SameDevices /\ DevicesSane'
    BY <1>0, DevicesAlone, SaneSame DEF Steady, KeptInv
  <1>2. \A p \in str.players : /\ dev'[p].last = dev[p].last /\ dev'[p].first = dev[p].first
                               /\ dev'[p].fill <= dev[p].fill
    BY <1>0, <1>1 DEF SameDevices, Tables
  <1>3. /\ Chain(str, ch, buf.streaming, group.table) /\ str.new = None
    BY <1>0 DEF Steady, KeptInv, Chain
  <1>4. CASE RebufferCommand
    <2>1. /\ ~ch.rebufferDone
          /\ \/ ch' = AfterTake /\ str' = str
             \/ /\ ch' = [ch EXCEPT !.command = Append(Tail(@), Asker)]
                /\ str' = [str EXCEPT !.listen = FALSE]
      BY <1>4 DEF RebufferCommand
    <2>2. /\ ch'.events = ch.events /\ ch'.bufEvent = ch.bufEvent
          /\ ch'.rebufferDone = ch.rebufferDone
      BY <1>0, <2>1, StreamRuns, TakingPasses DEF Passes
    <2>3. Alike(ch', ch)
      <3>1. Alike(AfterTake, ch)
        BY <1>0, ChannelsAlike DEF AfterTake
      <3>2. Alike([ch EXCEPT !.command = Append(Tail(@), Asker)], ch)
        BY <1>0, ChannelsAlike
      <3> QED BY <2>1, <3>1, <3>2
    <2>4. /\ str'.pc = str.pc /\ str'.players = str.players /\ str'.new = str.new
          /\ str'.needRebuffer = str.needRebuffer /\ str'.rebufferPlayers = str.rebufferPlayers
      BY <1>0, <2>1 DEF Streams
    <2>5. Chain(str, ch, buf.streaming, group.table)'
      BY <1>0, <1>3, <2>3, <2>4 DEF Chain, Wanted, Alike
    <2>6. Pending' = Pending
      BY <1>0, <2>2, PendingSteps
    <2>7. (Level' <=> Level) /\ ~Quiet'
      BY <1>0, <2>2, <2>4 DEF Level, Quiet, Beginning
    <2>8. KeptOK'
      BY <1>0, <1>2, <2>4, <2>6, <2>7, KeptSame DEF Steady, KeptInv
    <2>9. RefillOK'
      BY <1>0, <2>2, <2>4, <2>6 DEF RefillOK, Steady, KeptInv
    <2> QED BY <1>1, <2>5, <2>8, <2>9 DEF KeptInv
  <1>5. CASE RebufferDone
    <2> DEFINE c == [ch EXCEPT !.rebufferDone = FALSE]
    <2>1. /\ ch.rebufferDone
          /\ str' = [str EXCEPT !.pc = "loop", !.needRebuffer = FALSE, !.rebufferPlayers = {},
                                !.listen = FALSE]
          /\ ch' = IF str.afterTrackEnd THEN Emit(c, "TRACK_END", 0) ELSE c
      BY <1>5 DEF RebufferDone
    <2>2. /\ c \in Channels /\ c.events = ch.events /\ c.bufEvent = ch.bufEvent /\ Alike(c, ch)
      BY <1>0, ChannelsAlike DEF Channels
    <2> HIDE DEF c
    <2>3. /\ str'.pc = "loop" /\ str'.players = str.players /\ str'.new = None
          /\ ~str'.needRebuffer
      BY <1>0, <1>3, <2>1 DEF Streams
    <2>4. Alike(ch', ch)
      <3>1. Alike(ch', c)
        BY <2>1, <2>2, ChannelsAlike DEF Alike
      <3> QED BY <2>2, <3>1 DEF Alike
    <2>5. Chain(str, ch, buf.streaming, group.table)'
      BY <1>0, <1>3, <2>3, <2>4 DEF Chain, Wanted, Alike
    <2>6. \/ Pending' = Pending
          \/ \E e \in Events : /\ ~Clears(e) /\ e.event # "BUFFER" /\ Pending' = Append(Pending, e)
      <3>1. CASE ~str.afterTrackEnd
        BY <1>0, <2>1, <2>2, <3>1, PendingSteps
      <3>2. CASE str.afterTrackEnd
        <4>1. PICK e \in Events : e = Event("TRACK_END", 0) /\ e.event = "TRACK_END"
          <5>1. Passes(ch) /\ "TRACK_END" \in EventNames
            BY <1>0, TakingPasses DEF EventNames
          <5> QED BY <5>1, TellPasses
        <4> DEFINE q == Append(c.events, e)
        <4>2. ch' = [c EXCEPT !.events = q]
          BY <2>1, <3>2, <4>1 DEF Emit
        <4> HIDE DEF q
        <4>3. ch'.events = q /\ ch'.bufEvent = ch.bufEvent
          BY <2>2, <4>2 DEF Channels
        <4>4. ch'.events = Append(ch.events, e)
          BY <2>2, <4>3 DEF q
        <4> QED BY <1>0, <4>1, <4>3, <4>4, PendingSteps DEF Clears
      <3> QED BY <3>1, <3>2
    <2>7. Level /\ ~Quiet'
      BY <2>1, <2>3 DEF Level, Quiet, Beginning
    <2>8. KeptOK'
      BY <1>0, <1>2, <2>3, <2>6, <2>7, KeptSame DEF Steady, KeptInv
    <2> QED BY <1>0, <1>1, <2>1, <2>3, <2>5, <2>8, StreamKept
  <1> QED BY <1>4, <1>5
-----------------------------------------------------------------------------
\* A command that stream_thread goes on with, and the tables it goes on with.
Going(s, c) ==
    /\ Sendable(s, c) /\ s.needRebuffer = str.needRebuffer
    /\ s.rebufferPlayers = str.rebufferPlayers
    /\ s.new # None => Wanted(str) \subseteq s.new /\ s.new \subseteq group.table
    /\ c.streaming = ch.streaming /\ c.bufStreaming = ch.bufStreaming /\ c.streamPlayers = None
    /\ app[s.cmd].req = "buffer" => c.events = ch.events /\ Level
    /\ app[s.cmd].req = "track_begin" =>
         \/ c.events = ch.events /\ Beginning
         \/ \E e \in Events : e.event = "TRACK_BEGIN" /\ c.events = Append(ch.events, e)

(* The tables after it. *)
LEMMA PerformChain ==
  ASSUME Steady, NEW s, NEW c, Going(s, c), Perform(s, c), str.pc \in {"loop", "wait"},
         UNCHANGED <<buf, group>>
  PROVE  /\ Chain(str, ch, buf.streaming, group.table)'
         /\ str'.players = str.players /\ str'.pc = "loop"
  <1> DEFINE a     == s.cmd
             begin == app[a].req = "track_begin"
             n     == app[a].next
             b     == s.beginNow /\ ~begin
             done  == [s EXCEPT !.pc = "loop", !.cmd = None, !.new = None, !.beginNow = b]
             c2    == IF begin THEN c ELSE Emit(c, "BUFFER", n)
  <1>0. AudioInv /\ IndInv /\ Chain(str, ch, buf.streaming, group.table)
    BY DEF Steady, AudioInv, KeptInv
  <1>1. /\ a \in Apps /\ s \in Streams /\ s.new \in Maybe(Tables) /\ s.players = str.players
        /\ app[a] \in Sessions /\ app[a].req \in {"track_begin", "buffer"} /\ Passes(c)
    BY <1>0 DEF Going, Sendable, Taken, Streams, IndInv, SessionsOK
  <1>2. n \in 0 .. MaxChunks /\ "BUFFER" \in EventNames
    BY <1>0, <1>1, ConstantsAssumption DEF IndInv, SessionsOK, Sessions, EventNames
  <1>3. /\ str' = IF s.new = None THEN done ELSE Adopt(done, s.new)
        /\ ch' = IF s.new = None THEN c2 ELSE Announce(c2, s, s.new)
    BY DEF Perform
  <1>4. /\ done \in Streams /\ done.pc = "loop" /\ done.players = str.players /\ done.new = None
        /\ done.needRebuffer = str.needRebuffer /\ done.rebufferPlayers = str.rebufferPlayers
    <2>1. b \in BOOLEAN
      BY <1>1, Zenon
    <2> DEFINE d(x) == [s EXCEPT !.pc = "loop", !.cmd = None, !.new = None, !.beginNow = x]
    <2>2. ASSUME NEW x \in BOOLEAN
          PROVE  /\ d(x) \in Streams /\ d(x).pc = "loop" /\ d(x).players = s.players
                 /\ d(x).new = None /\ d(x).needRebuffer = s.needRebuffer
                 /\ d(x).rebufferPlayers = s.rebufferPlayers
      BY <1>1 DEF Streams, Maybe
    <2> HIDE DEF b, d
    <2>3. done = d(b)
      BY DEF d
    <2>4. /\ done \in Streams /\ done.pc = "loop" /\ done.players = s.players
          /\ done.new = None /\ done.needRebuffer = s.needRebuffer
          /\ done.rebufferPlayers = s.rebufferPlayers
      BY <2>1, <2>2, <2>3, Zenon
    <2> QED BY <1>1, <2>4, Zenon DEF Going
  <1>5. Passes(c2) /\ Alike(c2, c)
    BY <1>1, <1>2, EmitPasses, ChannelsAlike DEF Passes, Alike
  <1> HIDE DEF done, c2
  <1>6. /\ c2 \in Channels /\ c2.streaming = ch.streaming /\ c2.bufStreaming = ch.bufStreaming
        /\ c2.streamPlayers = None
    BY <1>5 DEF Passes, Alike, Going
  <1>7. CASE s.new = None
    <2>1. str' = done /\ ch' = c2
      BY <1>3, <1>7
    <2>2. Wanted(done) = Wanted(str)
      BY <1>4 DEF Wanted
    <2>3. Chain(done, c2, buf.streaming, group.table)
      BY <1>0, <1>4, <1>6, <2>2 DEF Chain
    <2> QED BY <1>4, <2>1, <2>3
  <1>8. CASE s.new # None
    <2>1. s.new \in Tables /\ Wanted(str) \subseteq s.new /\ s.new \subseteq group.table
      BY <1>1, <1>8 DEF Maybe, Going
    <2>2. str' = Adopt(done, s.new) /\ ch' = Announce(c2, s, s.new)
      BY <1>3, <1>8
    <2> DEFINE new == s.new
    <2> HIDE DEF new
    <2>3. new \in Tables /\ Wanted(str) \subseteq new /\ new \subseteq group.table
      BY <2>1 DEF new
    <2>4. /\ Chain(Adopt(done, new), Announce(c2, s, new), buf.streaming, group.table)
          /\ Adopt(done, new).players = done.players /\ Adopt(done, new).pc = done.pc
      BY <1>0, <1>1, <1>4, <1>6, <2>3, ChainAdopt
    <2> QED BY <1>4, <2>2, <2>4 DEF new
  <1> QED BY <1>7, <1>8

(* What the players are sent. *)
LEMMA PerformDevices ==
  ASSUME Steady, NEW s, NEW c, Going(s, c), Perform(s, c), str.pc \in {"loop", "wait"},
         UNCHANGED <<buf, stops>>
  PROVE  /\ DevicesSane'
         /\ app[s.cmd].req = "track_begin" => \A p \in str.players : dev'[p].last = 0
         /\ app[s.cmd].req = "buffer" =>
              /\ app[s.cmd].next \in Nat \ {0}
              /\ \A p \in str.players :
                   /\ dev[p].last = 0 \/ dev[p].last + 1 = app[s.cmd].next
                   /\ dev'[p].last = app[s.cmd].next /\ dev'[p].fill = dev[p].fill + 1
                   /\ dev'[p].first = IF dev[p].last = 0 THEN app[s.cmd].next ELSE dev[p].first
  <1> DEFINE a  == s.cmd
             n  == app[a].next
             ps == str.players
  <1>1. /\ AudioInv /\ a \in Apps /\ s.players = ps /\ ps \in Tables /\ s.owner = str.owner
        /\ str.owner \in Nat /\ n \in Nat \ {0} /\ app[a].req \in {"track_begin", "buffer"}
        /\ app[a].token = str.owner /\ dev \in [Players -> Devices] /\ ps \subseteq Players
        /\ lost = {} /\ failed = {} /\ ~buf.overtook /\ buf.dropped = {}
    BY DEF Steady, AudioInv, Going, Sendable, Taken, Streams, IndInv, SessionsOK, Sessions, DevicesOK,
           Tables, TokensOK, Good
  <1>2. dev' = [p \in Players |-> IF p \in ps
             THEN IF app[a].req = "track_begin" THEN GetBegin(dev[p], str.owner)
                                                ELSE GetChunk(dev[p], str.owner, n)
             ELSE dev[p]]
    BY <1>1 DEF Perform, WriteTo, Wrote
  <1>3. \A p \in Players : stops[p] = "none" /\ stops'[p] = "none"
    <2>1. buf.pc = "loop"
      BY <1>1, StreamAlone
    <2> QED BY <1>1, <2>1 DEF AudioInv, StopsOK
  <1>4. \A p \in ps : InStep(p)
    BY <1>1 DEF AudioInv, AudioOK, StreamKnown, Fine, Healthy
  <1>5. \A p \in Players : dev[p] \in Devices /\ Sane(dev[p], stops[p])
    BY <1>1 DEF Steady, KeptInv, DevicesSane
  <1>5a. ASSUME NEW p \in Players, p \notin ps PROVE Sane(dev'[p], stops'[p])
    BY <1>2, <1>3, <1>5, <1>5a
  <1> HIDE DEF a, n, ps
  <1>6. CASE app[a].req = "track_begin"
    <2>1. ASSUME NEW p \in Players, p \in ps PROVE Sane(dev'[p], stops'[p]) /\ dev'[p].last = 0
      <3>1. dev'[p] = GetBegin(dev[p], str.owner)
        BY <1>2, <1>6, <2>1
      <3>2. dev[p] \in Devices /\ Sane(dev[p], stops[p])
        BY <1>5
      <3>3. Sane(GetBegin(dev[p], str.owner), stops'[p])
        BY <1>1, <3>2, SaneCommands
      <3>4. GetBegin(dev[p], str.owner).last = 0
        BY <1>1, <3>2, CommandEffects
      <3> QED BY <3>1, <3>3, <3>4
    <2>2. DevicesSane'
      BY <1>5a, <2>1 DEF DevicesSane
    <2> QED BY <1>1, <1>6, <2>1, <2>2 DEF a, ps
  <1>7. CASE app[a].req = "buffer"
    <2>0. InTrack(a)
      BY <1>1, <1>7 DEF AudioInv, TokensOK, InTrack
    <2>1. ASSUME NEW p \in Players, p \in ps
          PROVE  /\ Sane(dev'[p], stops'[p])
                 /\ dev[p].last = 0 \/ dev[p].last + 1 = n
                 /\ dev'[p].last = n /\ dev'[p].fill = dev[p].fill + 1
                 /\ dev'[p].first = IF dev[p].last = 0 THEN n ELSE dev[p].first
      <3>1. dev'[p] = GetChunk(dev[p], str.owner, n)
        BY <1>2, <1>7, <2>1
      <3>2. dev[p] \in Devices /\ Sane(dev[p], stops[p]) /\ stops'[p] # "ok"
        BY <1>3, <1>5
      <3>3. dev[p].st = "streaming" /\ (dev[p].last = 0 \/ dev[p].last + 1 = n)
        BY <1>1, <1>4, <2>0, <2>1 DEF InStep, n
      <3>4. Sane(GetChunk(dev[p], str.owner, n), stops'[p])
        BY <1>1, <3>2, <3>3, SaneCommands
      <3> QED BY <1>1, <3>1, <3>2, <3>3, <3>4, SentChunks
    <2>2. DevicesSane'
      BY <1>5a, <2>1 DEF DevicesSane
    <2> QED BY <1>1, <1>7, <2>1, <2>2 DEF a, n, ps
  <1> QED BY <1>1, <1>6, <1>7
-----------------------------------------------------------------------------
(* A chunk that all players get, and the history is told of. *)
LEMMA ChunkKept ==
  ASSUME AudioInv, AudioInv', KeptOK, Level, ~Quiet', str.players # {}, str'.players = str.players,
         buf'.buffers = buf.buffers, NEW n \in Nat \ {0}, NEW e \in Events,
         e.event = "BUFFER", e.n = n, Pending' = Append(Pending, e),
         \A p \in str.players :
           /\ dev[p].last = 0 \/ dev[p].last + 1 = n
           /\ dev'[p].last = n /\ dev'[p].fill = dev[p].fill + 1
           /\ dev'[p].first = IF dev[p].last = 0 THEN n ELSE dev[p].first
  PROVE  KeptOK'
  <1>0. /\ buf.buffers \in Seq(Nat) /\ Pending \in Seq(Events) /\ str.players \in Tables
        /\ dev \in [Players -> Devices]
    BY SteadyTypes
  <1>1. PICK m \in Nat, l \in Nat : Even(m, l)
    BY DEF KeptOK
  <1>2. PICK p \in str.players : Covered(p)
    BY <1>1 DEF Even
  <1>3. /\ dev[p].fill \in Nat /\ dev[p].first \in Nat /\ dev[p].last = l
        /\ OutputSize \in Nat
    BY <1>0, <1>1, ConstantsAssumption DEF Even, Tables, Devices
  <1>4. l = 0 \/ l + 1 = n
    BY <1>3
  <1>5. \E k \in Nat : Window(buf.buffers, Append(Pending, e), k, n)
    <2>1. Window(buf.buffers, Pending, m, l)
      BY <1>1 DEF Even
    <2>2. CASE l = 0
      <3>0. e.n # 0
        OBVIOUS
      <3>1. Window(buf.buffers, Append(Pending, e), e.n - 1, e.n)
        BY <1>0, <2>1, <2>2, <3>0, WindowGrows
      <3>2. e.n - 1 \in Nat
        OBVIOUS
      <3> QED BY <3>1, <3>2
    <2>3. CASE l + 1 = n
      <3>1. e.n # 0 /\ e.n = l + 1
        BY <2>3
      <3>2. Window(buf.buffers, Append(Pending, e), m, e.n)
        BY <1>0, <2>1, <3>1, WindowGrows
      <3> QED BY <3>2
    <2> QED BY <1>4, <2>2, <2>3
  <1>6. PICK k \in Nat : Window(buf.buffers, Pending, k, n)'
    BY <1>5
  <1>7. ~Clears(e)
    BY DEF Clears
  <1>8. \A i \in Nat : HeldIn(buf.buffers, Pending, i) \/ i = n => HeldIn(buf.buffers, Pending, i)'
    <2>1. /\ \A i \in 0 .. Len(Pending) : NoClear(Append(Pending, e), i) <=> NoClear(Pending, i)
          /\ \A i \in Nat : ToCome(Append(Pending, e), i) <=> ToCome(Pending, i) \/ n = i
      BY <1>0, <1>7, OneMore
    <2>2. 0 \in 0 .. Len(Pending)
      BY <1>0, LenProperties
    <2>3. \A i \in Nat : HeldIn(buf.buffers, Pending, i) \/ i = n =>
                           HeldIn(buf.buffers, Append(Pending, e), i)
      BY <2>1, <2>2 DEF HeldIn
    <2> QED BY <2>3
  <1>9. \A i \in Undecoded(p)' : i \in Nat /\ (i \in Undecoded(p) \/ i = n)
    <2>1. /\ dev'[p].last = n /\ dev'[p].fill = dev[p].fill + 1
          /\ dev'[p].first = IF l = 0 THEN n ELSE dev[p].first
      BY <1>3
    <2> QED BY <1>3, <1>4, <2>1 DEF Undecoded
  <1>10. Covered(p)'
    BY <1>2, <1>8, <1>9 DEF Covered
  <1>11. Even(k, n)'
    BY <1>6, <1>10 DEF Even
  <1> QED BY <1>11 DEF KeptOK

(* track_begin and buffer, when the players can take them. *)
LEMMA PerformKept ==
  ASSUME Steady, NEW s, NEW c, Going(s, c), Perform(s, c), str.pc \in {"loop", "wait"},
         UNCHANGED <<buf, stops, group>>
  PROVE  KeptInv'
  <1>0. /\ AudioInv /\ AudioInv' /\ IndInv /\ Sendable(s, c) /\ KeptOK
        /\ app[s.cmd].req \in {"track_begin", "buffer"} /\ str.players # {}
    BY DEF Steady, AudioInv, Going, Sendable, Taken, KeptInv, Chain
  <1>1. /\ Chain(str, ch, buf.streaming, group.table)'
        /\ str'.players = str.players /\ str'.pc = "loop"
    BY PerformChain
  <1>2. DevicesSane'
    BY PerformDevices
  <1>3. ch'.bufEvent = ch.bufEvent
    BY <1>0, PerformSays DEF Passes
  <1>4. CASE app[s.cmd].req = "track_begin"
    <2>1. ch'.events = c.events /\ \A p \in str.players : dev'[p].last = 0
      BY <1>0, <1>4, PerformSays, PerformDevices
    <2>2. CASE c.events = ch.events /\ Beginning
      <3>1. Pending' = Pending
        BY <1>0, <1>3, <2>1, <2>2, PendingSteps
      <3>2. PICK m \in Nat, l \in Nat : Even(m, l)
        BY <1>0 DEF KeptOK
      <3>3. l = 0 /\ m = 0
        BY <2>2, <3>2 DEF Even, Quiet, Window
      <3>4. Window(buf.buffers, Pending, 0, 0)'
        BY <3>1, <3>2, <3>3 DEF Even
      <3>5. KeptOK'
        BY <1>0, <1>1, <1>2, <2>1, <3>4, KeptReset
      <3> QED BY <1>1, <1>2, <3>5, StreamKept
    <2>3. ASSUME NEW e \in Events, e.event = "TRACK_BEGIN", c.events = Append(ch.events, e)
          PROVE  KeptInv'
      <3>1. Pending' = Append(Pending, e) /\ Clears(e)
        BY <1>0, <1>3, <2>1, <2>3, PendingSteps DEF Clears
      <3>2. KeptOK'
        BY <1>0, <1>1, <1>2, <2>1, <3>1, KeptCleared
      <3> QED BY <1>1, <1>2, <3>2, StreamKept
    <2> QED BY <1>4, <2>2, <2>3 DEF Going
  <1>5. CASE app[s.cmd].req = "buffer"
    <2> DEFINE n == app[s.cmd].next
               e == Event("BUFFER", n)
    <2>1. e \in Events /\ ch'.events = Append(ch.events, e) /\ Level
      BY <1>0, <1>5, PerformSays DEF Going
    <2>2. e.event = "BUFFER" /\ e.n = n
      BY DEF Event
    <2>3. /\ n \in Nat \ {0}
          /\ \A p \in str.players :
               /\ dev[p].last = 0 \/ dev[p].last + 1 = n
               /\ dev'[p].last = n /\ dev'[p].fill = dev[p].fill + 1
               /\ dev'[p].first = IF dev[p].last = 0 THEN n ELSE dev[p].first
      BY <1>5, PerformDevices
    <2> HIDE DEF n, e
    <2>4. Pending' = Append(Pending, e)
      BY <1>0, <1>3, <2>1, PendingSteps
    <2>5. ~Quiet'
      BY <1>1 DEF Quiet, Beginning
    <2>6. KeptOK'
      BY <1>0, <1>1, <2>1, <2>2, <2>3, <2>4, <2>5, ChunkKept
    <2> QED BY <1>1, <1>2, <2>6, StreamKept
  <1> QED BY <1>0, <1>4, <1>5

(* They are done, or wait for the players. *)
LEMMA PerformOrWaitKept ==
  ASSUME Steady, NEW s, NEW c, Going(s, c), PerformOrWait(s, c), str.pc \in {"loop", "wait"},
         UNCHANGED <<buf, stops, group>>
  PROVE  KeptInv'
  <1>1. CASE Fits(s, s.cmd)
    BY <1>1, PerformKept DEF PerformOrWait
  <1>2. CASE ~Fits(s, s.cmd)
    <2>0. /\ AudioInv /\ AudioInv' /\ IndInv /\ Sendable(s, c) /\ KeptOK /\ str.players \in Tables
          /\ app[s.cmd].req \in {"track_begin", "buffer"} /\ str.players # {}
          /\ Chain(str, ch, buf.streaming, group.table) /\ ch \in Channels
      BY SteadyTypes DEF Steady, AudioInv, Going, Sendable, Taken, KeptInv, Chain
    <2>1. str' = [s EXCEPT !.pc = "wait"] /\ ch' = c /\ UNCHANGED <<dev, app>>
      BY <1>2 DEF PerformOrWait
    <2>2. /\ str'.pc = "wait" /\ str'.players = str.players /\ str'.new = s.new
          /\ str'.needRebuffer = str.needRebuffer /\ str'.rebufferPlayers = str.rebufferPlayers
          /\ str'.cmd = s.cmd /\ ch'.bufEvent = ch.bufEvent
      BY <2>1 DEF Streams, Going, Sendable, Taken, Passes
    <2>3. Chain(str, ch, buf.streaming, group.table)'
      <3>1. Wanted(str') = Wanted(str)
        BY <2>2 DEF Wanted
      <3> QED BY <2>0, <2>1, <2>2, <3>1 DEF Chain, Going
    <2>4. SameDevices /\ DevicesSane'
      BY <2>0, <2>1, DevicesAlone, SaneSame DEF Steady, KeptInv
    <2>5. \A p \in str.players : /\ dev'[p].last = dev[p].last /\ dev'[p].first = dev[p].first
                                 /\ dev'[p].fill <= dev[p].fill
      BY <2>0, <2>4 DEF SameDevices, Tables
    <2>6. Beginning' <=> app[s.cmd].req = "track_begin"
      BY <2>1, <2>2 DEF Beginning
    <2>7. ~ch'.rebufferDone
      BY <2>0, <2>2 DEF AudioInv, HandshakeOK
    <2>8. CASE c.events = ch.events
      <3>1. Pending' = Pending
        BY <2>0, <2>1, <2>2, <2>8, PendingSteps
      <3>2. (Level' => Level) /\ (Quiet' => Quiet)
        <4>1. CASE app[s.cmd].req = "track_begin"
          <5>1. Beginning
            <6>1. ASSUME NEW e \in Events, c.events = Append(ch.events, e) PROVE FALSE
              BY <2>0, <2>8, <6>1, AppendProperties DEF Channels
            <6> QED BY <4>1, <6>1 DEF Going
          <5> QED BY <2>2, <2>6, <2>7, <4>1, <5>1 DEF Level, Quiet
        <4>2. CASE app[s.cmd].req = "buffer"
          BY <2>2, <2>6, <4>2 DEF Level, Quiet, Going
        <4> QED BY <2>0, <4>1, <4>2
      <3>3. KeptOK'
        BY <2>0, <2>2, <2>5, <3>1, <3>2, KeptSame
      <3> QED BY <2>2, <2>3, <2>4, <3>3, StreamKept
    <2>9. ASSUME NEW e \in Events, e.event = "TRACK_BEGIN", c.events = Append(ch.events, e),
                 app[s.cmd].req = "track_begin"
          PROVE  KeptInv'
      <3>1. Pending' = Append(Pending, e) /\ Clears(e)
        BY <2>0, <2>1, <2>2, <2>9, PendingSteps DEF Clears
      <3>2. ~Level'
        BY <2>2, <2>6, <2>7, <2>9 DEF Level
      <3>3. KeptOK'
        BY <2>0, <2>4, <3>1, <3>2, KeptCleared
      <3> QED BY <2>2, <2>3, <2>4, <3>3, StreamKept
    <2> QED BY <2>0, <2>8, <2>9 DEF Going
  <1> QED BY <1>1, <1>2
-----------------------------------------------------------------------------
(* track_begin and buffer from the app that owns the stream. *)
LEMMA HandlesKept ==
  ASSUME Steady, HandleTrackBegin \/ HandleBuffer
  PROVE  KeptInv'
  <1>0. /\ AudioInv /\ IndInv /\ str.pc = "loop" /\ UNCHANGED <<buf, stops, group>>
        /\ ch.streamPlayers = None /\ str \in Streams /\ ch \in Channels
        /\ Chain(str, ch, buf.streaming, group.table)
    BY SteadyTypes DEF HandleTrackBegin, HandleBuffer, Handles, TakesCommand, Steady, AudioInv, KeptInv
  <1>1. PICK s, c : /\ s = [NotTrackEnd EXCEPT !.cmd = Asker] /\ Sendable(s, c)
                    /\ PerformOrWait(s, c) /\ ch.command # << >>
                    /\ \/ app[Asker].req = "track_begin" /\ c = Emit(AfterTake, "TRACK_BEGIN", 0)
                       \/ app[Asker].req = "buffer" /\ c = AfterTake
    BY <1>0, HandlesSays
  <1>2. /\ s.cmd = Asker /\ s.new = None /\ s.needRebuffer = str.needRebuffer
        /\ s.rebufferPlayers = str.rebufferPlayers
    <2>1. /\ NotTrackEnd \in Streams /\ NotTrackEnd.new = str.new
          /\ NotTrackEnd.needRebuffer = str.needRebuffer
          /\ NotTrackEnd.rebufferPlayers = str.rebufferPlayers
      BY <1>0 DEF NotTrackEnd, Streams
    <2>2. str.new = None
      BY <1>0 DEF Chain
    <2> QED BY <1>1, <2>1, <2>2 DEF Streams
  <1>3. Passes(AfterTake) /\ AfterTake.events = ch.events /\ Alike(AfterTake, ch)
    BY <1>0, <1>1, TakingPasses, ChannelsAlike DEF AfterTake
  <1>4. Level
    BY <1>0 DEF Level
  <1>5. Going(s, c)
    <2>1. CASE app[Asker].req = "buffer" /\ c = AfterTake
      BY <1>0, <1>1, <1>2, <1>3, <1>4, <2>1 DEF Going, Alike
    <2>2. CASE app[Asker].req = "track_begin" /\ c = Emit(AfterTake, "TRACK_BEGIN", 0)
      <3>1. Alike(c, AfterTake)
        BY <1>3, <2>2, ChannelsAlike DEF Passes
      <3>2. "TRACK_BEGIN" \in EventNames
        BY DEF EventNames
      <3>3. \E e \in Events : e.event = "TRACK_BEGIN" /\ c.events = Append(ch.events, e)
        BY <1>3, <2>2, <3>2, TellPasses
      <3> QED BY <1>0, <1>1, <1>2, <1>3, <2>2, <3>1, <3>3 DEF Going, Alike
    <2> QED BY <1>1, <2>1, <2>2
  <1> QED BY <1>0, <1>1, <1>5, PerformOrWaitKept

(* The wait of a track_begin or a buffer. *)
LEMMA WaitKept ==
  ASSUME Steady, WaitPlayers \/ WaitAcquire \/ WaitStates
  PROVE  KeptInv'
  <1>0. /\ AudioInv /\ IndInv /\ str.pc = "wait" /\ UNCHANGED <<buf, group>>
        /\ str \in Streams /\ ch \in Channels /\ str.players \in Tables
        /\ str.new \in Maybe(Tables) /\ str.rebufferPlayers \in Tables
    BY SteadyTypes DEF WaitPlayers, WaitAcquire, WaitStates, StreamAt, Steady, AudioInv, Streams
  <1>1. /\ Chain(str, ch, buf.streaming, group.table) /\ str.players # {}
        /\ str.players \subseteq Wanted(str) /\ Wanted(str) \subseteq group.table
        /\ str.new # None => Wanted(str) \subseteq str.new /\ str.new \subseteq group.table
    BY <1>0 DEF Steady, KeptInv, Chain
  <1>2. ASSUME NEW s \in Streams, NEW c, Passes(c), c.events = ch.events, s.cmd = str.cmd,
               s.players = str.players, s.owner = str.owner, s.beginNow = str.beginNow,
               s.afterTrackEnd = str.afterTrackEnd, s.needRebuffer = str.needRebuffer,
               s.rebufferPlayers = str.rebufferPlayers,
               s.new # None => Wanted(str) \subseteq s.new /\ s.new \subseteq group.table,
               c.streaming = ch.streaming, c.bufStreaming = ch.bufStreaming,
               c.streamPlayers = None
        PROVE  Going(s, c)
    <2>1. Sendable(s, c)
      BY <1>0, <1>2, WaitsSendable
    <2>2. (app[str.cmd].req = "track_begin" => Beginning) /\ (app[str.cmd].req = "buffer" => Level)
      BY <1>0 DEF Level, Beginning
    <2> QED BY <1>2, <2>1, <2>2 DEF Going
  <1>3. CASE WaitPlayers
    <2> DEFINE new == ch.streamPlayers
               c == [ch EXCEPT !.streamPlayers = None]
               s == [str EXCEPT !.new = new]
    <2>1. /\ new # None
          /\ \/ new = {}
             \/ PerformOrWait(s, c) /\ UNCHANGED stops
      BY <1>3 DEF WaitPlayers
    <2>2. new \in Tables /\ Passes(c) /\ c.events = ch.events
      BY <1>0, <2>1, TakingPasses
    <2>3. /\ c.streaming = ch.streaming /\ c.bufStreaming = ch.bufStreaming
          /\ c.streamPlayers = None
      BY <1>0, ChannelsAlike
    <2>4. Wanted(str) \subseteq new /\ new \subseteq group.table /\ new # {}
      BY <1>1, <2>1 DEF Chain
    <2> HIDE DEF new, c
    <2>5. /\ s \in Streams /\ s.cmd = str.cmd /\ s.players = str.players
          /\ s.owner = str.owner /\ s.beginNow = str.beginNow
          /\ s.afterTrackEnd = str.afterTrackEnd /\ s.needRebuffer = str.needRebuffer
          /\ s.rebufferPlayers = str.rebufferPlayers /\ s.new = new
      <3>1. new \in Maybe(Tables)
        BY <2>2 DEF Maybe
      <3> QED BY <1>0, <3>1 DEF Streams
    <2> HIDE DEF s
    <2>6. Going(s, c)
      BY <1>2, <2>2, <2>3, <2>4, <2>5
    <2> QED BY <1>0, <2>1, <2>4, <2>6, PerformOrWaitKept
  <1>4. CASE WaitStates
    <2> DEFINE c == [ch EXCEPT !.strStates = FALSE]
    <2>1. PerformOrWait(str, c) /\ UNCHANGED stops /\ ch.streamPlayers = None
      BY <1>4 DEF WaitStates
    <2>2. Passes(c) /\ c.events = ch.events /\ Alike(c, ch)
      BY <1>0, TakingPasses, ChannelsAlike
    <2> HIDE DEF c
    <2>3. Going(str, c)
      BY <1>0, <1>1, <1>2, <2>1, <2>2 DEF Alike
    <2> QED BY <1>0, <2>1, <2>3, PerformOrWaitKept
  <1>5. CASE WaitAcquire
    <2> DEFINE s == IF str.new = None THEN str ELSE Adopt(str, str.new)
               ps == IF s.needRebuffer THEN s.rebufferPlayers ELSE s.players
               t == [s EXCEPT !.players = ps]
               a == Head(ch.acquire)
               c == [ch EXCEPT !.acquire = Tail(@)]
    <2>1. /\ ch.acquire # << >> /\ BeginAcquire(a, t, c) /\ ch.streamPlayers = None
          /\ UNCHANGED dev
      BY <1>5 DEF WaitAcquire
    <2>2. Passes(c) /\ c.events = ch.events /\ Alike(c, ch)
      BY <1>0, <2>1, TakingPasses, ChannelsAlike
    <2>3. /\ s \in Streams /\ Wanted(str) \subseteq Wanted(s) /\ Wanted(s) \subseteq group.table
      <3>1. CASE str.new = None
        BY <1>0, <1>1, <3>1
      <3>2. CASE str.new # None
        <4> DEFINE new == str.new
                   x == [str EXCEPT !.needRebuffer = TRUE, !.rebufferPlayers = new]
                   y == [str EXCEPT !.needRebuffer = FALSE, !.players = new]
        <4>1. new \in Tables /\ Wanted(str) \subseteq new /\ new \subseteq group.table
          BY <1>0, <1>1, <3>2 DEF Maybe
        <4>2. s \in {x, y}
          BY <3>2 DEF Adopt
        <4> HIDE DEF new, s
        <4>3. /\ x \in Streams /\ x.needRebuffer /\ x.rebufferPlayers = new
              /\ y \in Streams /\ ~y.needRebuffer /\ y.players = new
          BY <1>0, <4>1 DEF Streams
        <4> HIDE DEF x, y
        <4>4. Wanted(x) = new /\ Wanted(y) = new
          BY <4>3 DEF Wanted
        <4> QED BY <4>1, <4>2, <4>3, <4>4
      <3> QED BY <3>1, <3>2
    <2> HIDE DEF s, a, c
    <2>4. ps = Wanted(s) /\ ps \in Tables
      BY <2>3 DEF Streams, Wanted
    <2> HIDE DEF ps
    <2>5. /\ t \in Streams /\ t.players = ps /\ t.needRebuffer = s.needRebuffer
          /\ t.rebufferPlayers = s.rebufferPlayers
      BY <2>3, <2>4 DEF Streams
    <2> HIDE DEF t
    <2>6. Wanted(t) = t.players
      BY <2>4, <2>5 DEF Wanted
    <2>7. str.players \subseteq t.players /\ t.players \subseteq group.table /\ t.players # {}
      BY <1>1, <2>3, <2>4, <2>5
    <2> QED BY <1>0, <2>1, <2>2, <2>5, <2>6, <2>7, BeginAcquireKept DEF Alike
  <1> QED BY <1>3, <1>4, <1>5

(* Every step of stream_thread. *)
LEMMA StreamStepKept ==
  ASSUME Steady, StreamStep
  PROVE  KeptInv'
  BY WaitingKept, AcquireStopsKept, LoopsKept, HandlesKept, FlushKept, TrackEndKept, WaitKept,
     RebufferAnswersKept DEF StreamStep
-----------------------------------------------------------------------------
(* What is left to show of a step of buffer_thread outside of do_rebuffer. *)
LEMMA HistoryStepKept ==
  ASSUME Steady, UNCHANGED <<dev, stops>>, buf'.pc = "loop",
         ch'.rebufferDone = ch.rebufferDone, Chain(str, ch, buf.streaming, group.table)', KeptOK',
         ch.rebufferDone => \A i \in DOMAIN Pending' : ~OfHistory(Pending'[i])
  PROVE  KeptInv'
  <1>1. DevicesSane'
    BY DEF Steady, KeptInv, DevicesSane
  <1>2. RefillOK'
    BY DEF RefillOK
  <1> QED BY <1>1, <1>2 DEF KeptInv

(* buffer_thread takes its table. *)
LEMMA BufferPlayersKept ==
  ASSUME Steady, BufferPlayers
  PROVE  KeptInv'
  <1> DEFINE ps == ch.bufStreaming
  <1>0. /\ AudioInv /\ AudioInv' /\ buf \in Histories /\ ch \in Channels /\ buf.pc = "loop"
        /\ Chain(str, ch, buf.streaming, group.table) /\ KeptOK /\ RefillOK
    BY SteadyTypes DEF Steady, KeptInv, BufferPlayers, BufferAt
  <1>1. /\ ps # None /\ buf' = [buf EXCEPT !.streaming = ps]
        /\ ch' = [ch EXCEPT !.bufStreaming = None] /\ UNCHANGED <<group, dev, stops, app, str>>
    BY DEF BufferPlayers
  <1>2. ps = ch.bufStreaming
    OBVIOUS
  <1> HIDE DEF ps
  <1>3. buf'.streaming = ps /\ buf'.pc = "loop" /\ buf'.buffers = buf.buffers
    BY <1>0, <1>1 DEF Histories
  <1>4. /\ ch'.bufStreaming = None /\ ch'.streaming = ch.streaming
        /\ ch'.streamPlayers = ch.streamPlayers /\ ch'.events = ch.events
        /\ ch'.bufEvent = ch.bufEvent /\ ch'.rebufferDone = ch.rebufferDone
    BY <1>0, <1>1 DEF Channels
  <1>5. Pending' = Pending
    BY <1>0, <1>4, PendingSteps
  <1>6. Chain(str, ch, buf.streaming, group.table)'
    <2>1. ps \subseteq str.players
      BY <1>0, <1>1, <1>2 DEF Chain
    <2> QED BY <1>0, <1>1, <1>3, <1>4, <2>1 DEF Chain
  <1>7. (Level' <=> Level) /\ (Quiet' <=> Quiet)
    BY <1>1, <1>4 DEF Level, Quiet, Beginning
  <1>8. KeptOK'
    <2>1. \A p \in str.players : dev'[p].fill <= dev[p].fill
      BY <1>0, <1>1, SteadyTypes DEF Tables, Devices
    <2> QED BY <1>0, <1>1, <1>3, <1>5, <1>7, <2>1, KeptSame
  <1>9. ch.rebufferDone => \A i \in DOMAIN Pending' : ~OfHistory(Pending'[i])
    BY <1>0, <1>5 DEF RefillOK
  <1> QED BY <1>1, <1>3, <1>4, <1>6, <1>8, <1>9, HistoryStepKept

(* The history is cut down by the report of one player: what that player has   *)
(* not begun to decode is all there, or the history already was what is kept. *)
LEMMA PrunedKept ==
  ASSUME Steady, NEW player1 \in buf.streaming, NEW k \in Amounts(view[player1].free),
         buf'.buffers = LastOf(buf.buffers, k), Pending' = Pending,
         Level' <=> Level, Quiet' <=> Quiet, UNCHANGED <<dev, str>>
  PROVE  KeptOK'
  <1>0. /\ AudioInv /\ AudioInv' /\ buf \in Histories /\ dev \in [Players -> Devices]
        /\ buf.buffers \in Seq(Nat) /\ Pending \in Seq(Events) /\ str.players \in Tables
        /\ buf.streaming \subseteq str.players
    BY SteadyTypes DEF Steady, KeptInv, Chain
  <1>1. player1 \in Players /\ player1 \in str.players
    BY <1>0 DEF Tables
  <1>2. /\ k \in Nat /\ dev[player1].fill \in Nat /\ dev[player1].fill <= k + OutputSize
        /\ OutputSize \in Nat
        /\ dev[player1].last \in Nat /\ dev[player1].first \in Nat
    <2>1. /\ dev[player1] \in Devices /\ view[player1] \in Views
          /\ view[player1].free + dev[player1].fill <= Capacity
      BY <1>0, <1>1 DEF AudioInv, IndInv, DevicesOK, Room
    <2>2. /\ view[player1].free \in Nat /\ dev[player1].fill \in Nat /\ Capacity \in Nat
          /\ dev[player1].last \in Nat /\ dev[player1].first \in Nat
      BY <2>1, ConstantsAssumption DEF Views, Devices
    <2>3. k \in Nat /\ k + OutputSize >= Capacity - view[player1].free /\ OutputSize \in Nat
      BY AmountsType, ConstantsAssumption
    <2> QED BY <2>1, <2>2, <2>3
  <1>3. PICK m \in Nat, l \in Nat : Even(m, l)
    BY DEF Steady, KeptInv, KeptOK
  <1> DEFINE q == LastOf(buf.buffers, k)
  <1>4. /\ q \in Seq(Nat) /\ Window(q, Pending, m, l)
        /\ Len(buf.buffers) > k /\ NoClear(Pending, 0) =>
             \A n \in Nat : l - k < n /\ n <= l => HeldIn(q, Pending, n)
        /\ Len(buf.buffers) <= k \/ ~NoClear(Pending, 0) =>
             \A n \in Nat : HeldIn(buf.buffers, Pending, n) => HeldIn(q, Pending, n)
    BY <1>0, <1>2, <1>3, WindowPruned DEF Even
  <1>5. buf'.buffers = q
    OBVIOUS
  <1> HIDE DEF q
  <1>6. Window(buf.buffers, Pending, m, l)'
    BY <1>4, <1>5
  <1>7. CASE Len(buf.buffers) <= k \/ ~NoClear(Pending, 0)
    <2>1. \A n \in Nat : HeldIn(buf.buffers, Pending, n) => HeldIn(buf.buffers, Pending, n)'
      BY <1>4, <1>5, <1>7
    <2>2. \A p \in str.players : dev'[p].fill <= dev[p].fill
      BY <1>0 DEF Tables, Devices
    <2> QED BY <1>0, <1>3, <1>6, <2>1, <2>2, KeptMoves
  <1>8. CASE Len(buf.buffers) > k /\ NoClear(Pending, 0)
    <2>1. ASSUME Level
          PROVE  (\A p \in str'.players : dev'[p].last = l) /\ \E p \in str'.players : Covered(p)'
      <3>1. \A p \in str.players : dev[p].last = l
        BY <1>3, <2>1 DEF Even
      <3>2. ASSUME NEW n \in Undecoded(player1)' PROVE HeldIn(buf.buffers, Pending, n)'
        <4>1. n \in dev[player1].first .. l /\ n + dev[player1].fill > l + OutputSize
          BY <1>1, <3>1, <3>2 DEF Undecoded
        <4>2. n \in Nat /\ l - k < n /\ n <= l
          BY <1>2, <4>1
        <4>3. HeldIn(q, Pending, n)
          BY <1>4, <1>8, <4>2
        <4> QED BY <1>5, <4>3
      <3>3. Covered(player1)'
        BY <3>2 DEF Covered
      <3> QED BY <1>1, <3>1, <3>3
    <2>2. Quiet => l = 0
      BY <1>3 DEF Even
    <2>3. Even(m, l)'
      BY <1>6, <2>1, <2>2 DEF Even
    <2> QED BY <2>3 DEF KeptOK
  <1>9. Len(buf.buffers) <= k \/ Len(buf.buffers) > k
    BY <1>0, <1>2, LenProperties
  <1> QED BY <1>7, <1>8, <1>9

(* buffer_thread prunes its history. *)
LEMMA BufferStatesKept ==
  ASSUME Steady, BufferStates
  PROVE  KeptInv'
  <1>0. /\ AudioInv /\ AudioInv' /\ buf \in Histories /\ ch \in Channels /\ buf.pc = "loop"
        /\ Chain(str, ch, buf.streaming, group.table) /\ KeptOK /\ RefillOK
    BY SteadyTypes DEF Steady, KeptInv, BufferStates, BufferAt
  <1>1. /\ ch' = [ch EXCEPT !.bufStates = None] /\ UNCHANGED <<group, dev, stops, app, str>>
        /\ \/ buf' = buf
           \/ \E player1 \in buf.streaming : \E k \in Amounts(view[player1].free) :
                buf' = [buf EXCEPT !.buffers = LastOf(@, k)]
    BY DEF BufferStates
  <1>2. /\ ch'.bufStreaming = ch.bufStreaming /\ ch'.streaming = ch.streaming
        /\ ch'.streamPlayers = ch.streamPlayers /\ ch'.events = ch.events
        /\ ch'.bufEvent = ch.bufEvent /\ ch'.rebufferDone = ch.rebufferDone
    BY <1>0, <1>1 DEF Channels
  <1>3. Pending' = Pending
    BY <1>0, <1>2, PendingSteps
  <1>4. (Level' <=> Level) /\ (Quiet' <=> Quiet)
    BY <1>1, <1>2 DEF Level, Quiet, Beginning
  <1>5. ch.rebufferDone => \A i \in DOMAIN Pending' : ~OfHistory(Pending'[i])
    BY <1>0, <1>3 DEF RefillOK
  <1>6. CASE buf' = buf
    <2>1. SameDevices
      BY <1>0, <1>1, DevicesAlone
    <2>2. SameWay
      BY <1>2 DEF SameWay
    <2> QED BY <1>1, <1>2, <1>3, <1>6, <2>1, <2>2, Undisturbed
  <1>7. ASSUME NEW player1 \in buf.streaming, NEW k \in Amounts(view[player1].free),
               buf' = [buf EXCEPT !.buffers = LastOf(@, k)]
        PROVE  KeptInv'
    <2> DEFINE q == LastOf(buf.buffers, k)
    <2>1. buf' = [buf EXCEPT !.buffers = q]
      BY <1>7
    <2> HIDE DEF q
    <2>3. buf'.buffers = q /\ buf'.pc = "loop" /\ buf'.streaming = buf.streaming
      BY <1>0, <2>1 DEF Histories
    <2>4. KeptOK'
      BY <1>1, <1>3, <1>4, <1>7, <2>3, PrunedKept DEF q
    <2>5. Chain(str, ch, buf.streaming, group.table)'
      BY <1>0, <1>1, <1>2, <2>3 DEF Chain
    <2> QED BY <1>1, <1>2, <1>5, <2>3, <2>4, <2>5, HistoryStepKept
  <1> QED BY <1>1, <1>6, <1>7

(* buffer_thread takes an event. *)
LEMMA BufferEventKept ==
  ASSUME Steady, BufferEvent
  PROVE  KeptInv'
  <1>0. /\ AudioInv /\ AudioInv' /\ buf \in Histories /\ ch \in Channels /\ buf.pc = "loop"
        /\ Chain(str, ch, buf.streaming, group.table) /\ KeptOK /\ RefillOK
        /\ str.players \in Tables /\ dev \in [Players -> Devices] /\ ch.events \in Seq(Events)
    BY SteadyTypes DEF Steady, KeptInv, BufferEvent, BufferAt
  <1>1. /\ ch.bufEvent # None /\ buf' = Remember(buf, ch.bufEvent)
        /\ ch' = [ch EXCEPT !.bufEvent = None] /\ UNCHANGED <<group, dev, stops, app, str>>
    BY DEF BufferEvent
  <1>2. PICK e \in Events : e = ch.bufEvent
    BY <1>0, <1>1, SteadyTypes DEF Maybe
  <1>3. /\ ch'.bufStreaming = ch.bufStreaming /\ ch'.streaming = ch.streaming
        /\ ch'.streamPlayers = ch.streamPlayers /\ ch'.events = ch.events
        /\ ch'.bufEvent = None /\ ch'.rebufferDone = ch.rebufferDone
    BY <1>0, <1>1 DEF Channels
  <1>4. Pending = <<e>> \o ch.events /\ Pending' = ch.events
    BY <1>0, <1>1, <1>2, <1>3, PendingSteps
  <1>5. buf'.pc = "loop" /\ buf'.streaming = buf.streaming
    BY <1>0, <1>1 DEF Remember, Histories
  <1>6. (Level' <=> Level) /\ (Quiet' <=> Quiet)
    BY <1>1, <1>3 DEF Level, Quiet, Beginning
  <1>7. KeptOK'
    <2>1. PICK m \in Nat, l \in Nat : Even(m, l)
      BY <1>0 DEF KeptOK
    <2>2. Window(buf.buffers, <<e>> \o ch.events, m, l)
      BY <1>4, <2>1 DEF Even
    <2>3. PICK k \in Nat : Window(Remember(buf, e).buffers, ch.events, k, l)
      BY <1>0, <2>2, WindowTaken
    <2>4. \A n \in Nat : HeldIn(buf.buffers, <<e>> \o ch.events, n) =>
                           HeldIn(Remember(buf, e).buffers, ch.events, n)
      BY <1>0, <2>2, WindowTaken
    <2>5. buf'.buffers = Remember(buf, e).buffers
      BY <1>1, <1>2
    <2>6. Window(buf.buffers, Pending, k, l)'
      BY <1>4, <2>3, <2>5
    <2>7. \A n \in Nat : HeldIn(buf.buffers, Pending, n) => HeldIn(buf.buffers, Pending, n)'
      BY <1>4, <2>4, <2>5
    <2>8. \A p \in str.players : dev'[p].fill <= dev[p].fill
      BY <1>0, <1>1 DEF Tables, Devices
    <2> QED BY <1>0, <1>1, <1>6, <2>1, <2>6, <2>7, <2>8, KeptMoves
  <1>8. ch.rebufferDone => \A i \in DOMAIN Pending' : ~OfHistory(Pending'[i])
    <2> SUFFICES ASSUME ch.rebufferDone, NEW i \in DOMAIN ch.events
                 PROVE  ~OfHistory(ch.events[i])
      BY <1>4
    <2>1. /\ Pending \in Seq(Events) /\ Len(Pending) = Len(ch.events) + 1
          /\ \A j \in 1 .. Len(ch.events) : Pending[j + 1] = ch.events[j]
      BY <1>0, <1>4, OneLess
    <2>2. Len(ch.events) \in Nat /\ i \in 1 .. Len(ch.events)
      BY <1>0, LenProperties
    <2>3. i + 1 \in DOMAIN Pending
      BY <2>1, <2>2, LenProperties
    <2> QED BY <1>0, <2>1, <2>2, <2>3 DEF RefillOK
  <1>9. Chain(str, ch, buf.streaming, group.table)'
    BY <1>0, <1>1, <1>3, <1>5 DEF Chain
  <1> QED BY <1>1, <1>3, <1>5, <1>7, <1>8, <1>9, HistoryStepKept

(* do_rebuffer begins: no event that says what to send is on its way. *)
LEMMA BufferRequestKept ==
  ASSUME Steady, BufferRequest
  PROVE  KeptInv'
  <1>0. /\ AudioInv /\ AudioInv' /\ buf \in Histories /\ ch \in Channels /\ buf.pc = "loop"
        /\ Chain(str, ch, buf.streaming, group.table) /\ KeptOK /\ DevicesSane
        /\ ch.bufEvent = None /\ ch.bufStates = None /\ ch.bufStreaming = None
        /\ Runs(BufferThread) /\ UNCHANGED <<group, dev, app, str>>
        /\ ch.events \in Seq(Events) /\ IndInv
    BY SteadyTypes DEF Steady, KeptInv, BufferRequest, BufferAt, AudioInv
  <1>1. str.pc = "rebuffer" /\ ~ch.rebufferDone
    BY <1>0, BufferRuns DEF AudioInv, HandshakeOK
  <1> DEFINE o == buf.overtook \/ Overtakes
             ps == str.players
             k == str.cookie
  <1>2. /\ buf' = [buf EXCEPT !.pc = "stopping", !.players = ps, !.overtook = o]
        /\ ch' = [ch EXCEPT !.rebufferRequest = FALSE, !.cookie = k]
        /\ stops' = WantStops(ps)
    BY DEF BufferRequest
  <1>3. o <=> buf.overtook \/ Overtakes
    OBVIOUS
  <1> HIDE DEF o, ps, k
  <1>4. /\ buf'.pc = "stopping" /\ buf'.overtook = o /\ buf'.buffers = buf.buffers
        /\ buf'.streaming = buf.streaming
    BY <1>0, <1>2 DEF Histories
  <1>5. /\ ch'.events = ch.events /\ ch'.bufEvent = ch.bufEvent /\ ~ch'.rebufferDone
        /\ ch'.bufStreaming = ch.bufStreaming /\ ch'.streaming = ch.streaming
        /\ ch'.streamPlayers = ch.streamPlayers
    BY <1>0, <1>1, <1>2 DEF Channels
  <1>6. Pending' = Pending /\ Pending' = ch.events
    BY <1>0, <1>5, PendingSteps
  <1>7. DevicesSane'
    <2>1. \A p \in Players : stops'[p] # "ok"
      BY <1>2 DEF WantStops
    <2> QED BY <1>0, <2>1, DevicesAlone, SaneSame
  <1>8. RefillOK'
    <2>1. ~Overtakes
      BY <1>3, <1>4 DEF Steady, Good
    <2> QED BY <1>4, <1>6, <2>1 DEF RefillOK, Overtakes
  <1>9. ~Level' /\ ~Quiet'
    BY <1>0, <1>1, <1>5 DEF Level, Quiet, Beginning
  <1>10. KeptOK'
    <2>1. PICK m \in Nat, l \in Nat : Window(buf.buffers, Pending, m, l)
      BY <1>0 DEF KeptOK, Even
    <2>2. Window(buf.buffers, Pending, m, l)'
      BY <1>4, <1>6, <2>1
    <2> QED BY <1>9, <2>2, KeptUnlevel
  <1>11. Chain(str, ch, buf.streaming, group.table)'
    BY <1>0, <1>4, <1>5 DEF Chain
  <1> QED BY <1>7, <1>8, <1>10, <1>11 DEF KeptInv
-----------------------------------------------------------------------------
(* What do_rebuffer may rely on when nothing has gone wrong: it has all        *)
(* players of the stream, and nothing is to come to the history.              *)
LEMMA RefillIsWhole ==
  ASSUME Steady, buf.pc # "loop"
  PROVE  /\ str.pc = "rebuffer" /\ ~ch.rebufferDone /\ buf.players = str.players
         /\ str.players # {} /\ \A p \in str.players : Refilled(p)
         /\ NoClear(Pending, 0) /\ \A n \in Nat : ~ToCome(Pending, n)
         /\ \E m \in Nat : Window(buf.buffers, Pending, m, m)
  <1>0. /\ AudioInv /\ Good /\ lost = {} /\ failed = {} /\ Pending \in Seq(Events)
        /\ Chain(str, ch, buf.streaming, group.table) /\ KeptOK /\ RefillOK
    BY SteadyTypes DEF Steady, KeptInv
  <1>1. str.pc = "rebuffer" /\ ~ch.rebufferDone /\ buf.players \subseteq str.players
    BY <1>0 DEF AudioInv, HandshakeOK
  <1>2. str.players # {}
    BY <1>0, <1>1 DEF Chain
  <1>3. \A p \in str.players : Refilled(p)
    BY <1>0, RefillSays DEF Good, Fine, Healthy
  <1>4. buf.players = str.players
    BY <1>1, <1>3 DEF Refilled
  <1>5. \A i \in DOMAIN Pending : ~Clears(Pending[i]) /\ Pending[i].event # "BUFFER"
    BY <1>0 DEF RefillOK, OfHistory, Clears
  <1>6. NoClear(Pending, 0)
    <2>1. DOMAIN Pending = 1 .. Len(Pending) /\ 0 + 1 = 1
      BY <1>0, LenProperties
    <2> QED BY <1>5, <2>1 DEF NoClear
  <1>7. \A n \in Nat : ~ToCome(Pending, n)
    BY <1>5 DEF ToCome
  <1>8. PICK m \in Nat, l \in Nat : Window(buf.buffers, Pending, m, l)
    BY <1>0 DEF KeptOK, Even
  <1>9. m = l
    <2>1. m <= l /\ (m + 1 <= l => ToCome(Pending, m + 1)) /\ m + 1 \in Nat
      BY <1>8 DEF Window
    <2> QED BY <1>7, <2>1
  <1> QED BY <1>1, <1>2, <1>3, <1>4, <1>6, <1>7, <1>8, <1>9

(* do_rebuffer goes on or returns. *)
LEMMA RefillGoesOnKept ==
  ASSUME Steady, buf.pc # "loop", UNCHANGED <<group, str>>, NEW b, NEW c, Refills(b, c),
         NEW pc \in {"match", "begin", "buffer", "return"}, RebufferGoesOn(b, c, pc), DevicesSane',
         pc = "buffer" => \A p \in str.players : dev'[p].last # 0 => dev'[p].first = buf.buffers[1],
         pc = "return" => KeptOK'
  PROVE  KeptInv'
  <1>0. /\ AudioInv /\ lost = {} /\ failed = {} /\ buf'.dropped = {}
        /\ Chain(str, ch, buf.streaming, group.table) /\ RefillOK
    BY DEF Steady, KeptInv, Good
  <1>1. /\ buf'.streaming = buf.streaming /\ buf'.buffers = buf.buffers
        /\ buf'.dropped = b.dropped
        /\ ch'.streamPlayers = ch.streamPlayers /\ ch'.events = ch.events
        /\ ch'.bufEvent = ch.bufEvent
        /\ ch'.bufStreaming \in {ch.bufStreaming, b.players}
        /\ ch.bufStreaming = None => ch'.bufStreaming = None
        /\ b.dropped = {} => /\ ch'.streaming \in {ch.streaming, b.players}
                             /\ ch.streaming = None => ch'.streaming = None
        /\ b.players = {} \/ pc = "return" => buf'.pc = "loop" /\ ch'.rebufferDone
        /\ b.players # {} /\ pc # "return" => buf'.pc = pc /\ ch'.rebufferDone = ch.rebufferDone
    BY GoesOnSays
  <1>2. /\ str.pc = "rebuffer" /\ ~ch.rebufferDone /\ buf.players = str.players
        /\ str.players # {}
        /\ \E m \in Nat : Window(buf.buffers, Pending, m, m)
    BY RefillIsWhole
  <1>3. b.players = str.players
    BY <1>0, <1>1, <1>2 DEF Refills, Carries
  <1>4. Chain(str, ch, buf.streaming, group.table)'
    BY <1>0, <1>1, <1>3 DEF Chain
  <1>5. Pending' = Pending
    BY <1>0, <1>1, PendingSteps
  <1>6. CASE pc = "return"
    <2>1. RefillOK'
      BY <1>0, <1>1, <1>5, <1>6 DEF RefillOK
    <2> QED BY <1>4, <1>6, <2>1 DEF KeptInv
  <1>7. CASE pc # "return"
    <2>1. buf'.pc = pc /\ ~ch'.rebufferDone
      BY <1>1, <1>2, <1>3, <1>7
    <2>2. RefillOK'
      BY <1>0, <1>1, <1>5, <2>1 DEF RefillOK
    <2>3. ~Level' /\ ~Quiet'
      BY <1>2, <2>1 DEF Level, Quiet, Beginning
    <2>4. PICK m \in Nat : Window(buf.buffers, Pending, m, m)
      BY <1>2
    <2>5. Window(buf.buffers, Pending, m, m)'
      BY <1>1, <1>5, <2>4
    <2>6. KeptOK'
      BY <2>3, <2>5, KeptUnlevel
    <2> QED BY <1>4, <2>2, <2>6 DEF KeptInv
  <1> QED BY <1>6, <1>7

(* do_rebuffer returns without chunks to send. *)
LEMMA EmptyReturnKept ==
  ASSUME Steady, buf.pc # "loop", UNCHANGED str, buf'.buffers = buf.buffers, Pending' = Pending,
         DevicesSane', buf.buffers = << >>, \A p \in str.players : dev'[p].last = 0
  PROVE  KeptOK'
  <1>1. PICK m \in Nat : Window(buf.buffers, Pending, m, m)
    BY RefillIsWhole
  <1>2. str.players # {} /\ \A n \in Nat : ~ToCome(Pending, n)
    BY RefillIsWhole
  <1>3. Len(<< >>) = 0 /\ DOMAIN << >> = {}
    OBVIOUS
  <1>4. Window(buf.buffers, Pending, 0, 0)
    <2>1. Rising(Pending)
      BY <1>1 DEF Window
    <2>2. Len(buf.buffers) = 0 /\ DOMAIN buf.buffers = {}
      BY <1>3
    <2>3. \A n \in Nat : ~(0 < n /\ n <= 0)
      OBVIOUS
    <2>4. 0 <= 0
      OBVIOUS
    <2> QED BY <1>2, <2>1, <2>2, <2>3, <2>4 DEF Window
  <1>5. Window(buf.buffers, Pending, 0, 0)'
    BY <1>4
  <1> QED BY <1>2, <1>5, KeptReset DEF Steady

(* do_rebuffer returns: the players have the whole history, and no more. *)
LEMMA FullReturnKept ==
  ASSUME Steady, buf.pc # "loop", UNCHANGED str, buf'.buffers = buf.buffers, Pending' = Pending,
         NEW k, k = Len(buf.buffers), buf.buffers # << >>,
         \A p \in str.players : dev'[p].last = buf.buffers[k] /\ dev'[p].first = buf.buffers[1]
  PROVE  KeptOK'
  <1>1. PICK m \in Nat : Window(buf.buffers, Pending, m, m)
    BY RefillIsWhole
  <1>2. /\ str.players # {} /\ NoClear(Pending, 0) /\ str.pc = "rebuffer"
    BY RefillIsWhole
  <1>3. /\ buf.buffers \in Seq(Nat) /\ Pending \in Seq(Events) /\ str.players \in Tables
        /\ dev' \in [Players -> Devices]
    BY SteadyTypes DEF Steady, AudioInv, IndInv, DevicesOK
  <1>4. k \in Nat /\ k # 0 /\ DOMAIN buf.buffers = 1 .. k
    BY <1>3, LenProperties, EmptySeq
  <1>5. k <= m /\ \A i \in 1 .. k : buf.buffers[i] = m - k + i
    BY <1>1, <1>2, <1>4 DEF Window
  <1>6. buf.buffers[k] = m /\ buf.buffers[1] = m - k + 1
    <2>1. k \in 1 .. k /\ 1 \in 1 .. k
      BY <1>4
    <2>2. buf.buffers[k] = m - k + k /\ buf.buffers[1] = m - k + 1
      BY <1>5, <2>1
    <2> QED BY <1>4, <2>2
  <1>7. ASSUME NEW p \in str.players PROVE Covered(p)'
    <2>1. dev'[p].last = m /\ dev'[p].first = m - k + 1
      BY <1>6
    <2>2. ASSUME NEW n \in Undecoded(p)' PROVE HeldIn(buf.buffers, Pending, n)'
      <3>1. n \in (m - k + 1) .. m
        BY <2>1, <2>2 DEF Undecoded
      <3>2. n \in Nat /\ m - k < n /\ n <= m
        BY <1>4, <1>5, <3>1
      <3>3. HeldIn(buf.buffers, Pending, n)
        BY <1>1, <1>2, <1>3, <3>2, WindowHolds
      <3> QED BY <3>3
    <2> QED BY <2>2 DEF Covered
  <1>8. ~Quiet'
    BY <1>2 DEF Quiet, Beginning
  <1>9. Window(buf.buffers, Pending, m, m)'
    BY <1>1
  <1>10. \A p \in str'.players : dev'[p].last = m
    BY <1>6
  <1>11. \E p \in str'.players : Covered(p)'
    BY <1>2, <1>7
  <1>12. Even(m, m)'
    BY <1>8, <1>9, <1>10, <1>11 DEF Even
  <1> QED BY <1>12 DEF KeptOK
-----------------------------------------------------------------------------
(* stop_players of a rebuffer. *)
LEMMA RebufferStopsKept ==
  ASSUME Steady, RebufferStops
  PROVE  KeptInv'
  <1>0. /\ AudioInv /\ buf.pc = "stopping" /\ UNCHANGED <<group, str>> /\ RefillOK
        /\ Chain(str, ch, buf.streaming, group.table)
    BY DEF Steady, KeptInv, RebufferStops, BufferAt
  <1>1. DevicesSane'
    BY CountedSane DEF RebufferStops, Steady, KeptInv
  <1>2. PICK b : /\ Refills(b, ch) /\ b.pc = "stopping"
                 /\ IF AllStopped THEN RebufferGoesOn(b, ch, "match") ELSE buf' = b /\ ch' = ch
    BY <1>0, StopsSay
  <1>3. buf.pc # "loop"
    BY <1>0
  <1>4. CASE RebufferGoesOn(b, ch, "match")
    BY <1>0, <1>1, <1>2, <1>3, <1>4, RefillGoesOnKept
  <1>5. CASE buf' = b /\ ch' = ch
    <2>1. buf'.buffers = buf.buffers /\ buf'.streaming = buf.streaming /\ buf'.pc = "stopping"
      BY <1>2, <1>5 DEF Refills, Carries
    <2>2. Pending' = Pending
      BY <1>0, <1>5, PendingSteps
    <2>3. str.pc = "rebuffer" /\ ~ch.rebufferDone
      BY <1>3, RefillIsWhole
    <2>4. PICK m \in Nat : Window(buf.buffers, Pending, m, m)
      BY <1>3, RefillIsWhole
    <2>5. Window(buf.buffers, Pending, m, m)'
      BY <2>1, <2>2, <2>4
    <2>6. ~Level' /\ ~Quiet'
      BY <1>0, <1>5, <2>3 DEF Level, Quiet, Beginning
    <2>7. KeptOK'
      BY <2>5, <2>6, KeptUnlevel
    <2>8. RefillOK'
      BY <1>0, <1>3, <2>1, <2>2 DEF RefillOK
    <2>9. Chain(str, ch, buf.streaming, group.table)'
      BY <1>0, <1>5, <2>1
    <2> QED BY <1>1, <2>7, <2>8, <2>9 DEF KeptInv
  <1> QED BY <1>2, <1>4, <1>5

(* The wait for the cookies. *)
LEMMA RebufferMatchesKept ==
  ASSUME Steady, RebufferMatches
  PROVE  KeptInv'
  <1>0. /\ AudioInv /\ buf.pc = "match" /\ UNCHANGED <<group, str, dev, stops>>
        /\ buf.pc # "loop" /\ ~buf.overtook /\ str.players \in Tables
    BY SteadyTypes DEF Steady, Good, RebufferMatches, BufferAt
  <1>1. DevicesSane /\ DevicesSane'
    BY <1>0 DEF Steady, KeptInv, DevicesSane
  <1>2. PICK b, c : \E pc \in {"match", "begin", "return"} :
          Refills(b, c) /\ RebufferGoesOn(b, c, pc) /\ (pc = "return" => ~buf.track)
    BY <1>0, MatchesSay
  <1>3. PICK pc \in {"match", "begin", "return"} :
          Refills(b, c) /\ RebufferGoesOn(b, c, pc) /\ (pc = "return" => ~buf.track)
    BY <1>2
  <1>4. /\ pc \in {"match", "begin", "buffer", "return"} /\ pc # "buffer"
    BY <1>3
  <1>5. ASSUME pc = "return" PROVE KeptOK'
    <2>1. PICK w \in Marks : Remembers(buf, w)
      BY <1>0, RefillSays
    <2>2. buf.buffers = << >>
      BY <1>3, <1>5, <2>1 DEF Remembers
    <2>3. ASSUME NEW p \in str.players PROVE dev'[p].last = 0
      <3>1. p \in Players /\ Refilled(p)
        BY <1>0, RefillIsWhole DEF Tables
      <3>2. dev[p].st = "started"
        BY <1>0, <3>1 DEF Refilled
      <3> QED BY <1>0, <1>1, <3>1, <3>2 DEF DevicesSane, Sane
    <2>4. buf'.buffers = buf.buffers /\ ch'.events = ch.events /\ ch'.bufEvent = ch.bufEvent
      BY <1>3, <1>4, GoesOnSays
    <2>5. Pending' = Pending
      BY <1>0, <2>4, PendingSteps
    <2> QED BY <1>0, <1>1, <2>2, <2>3, <2>4, <2>5, EmptyReturnKept
  <1> QED BY <1>0, <1>1, <1>3, <1>4, <1>5, RefillGoesOnKept

(* The waits for room. *)
LEMMA RebufferWaitsKept ==
  ASSUME Steady, buf.pc \in {"begin", "buffer"}, NEW able, RebufferWaits(able),
         UNCHANGED <<group, str, stops>>
  PROVE  KeptInv'
  <1>0. AudioInv /\ buf.pc # "loop" /\ RefillOK /\ buf.pc \in {"match", "begin", "buffer", "return"}
        /\ buf.pc # "return"
    BY DEF Steady, KeptInv
  <1>1. PICK b, c : /\ Refills(b, c) /\ RebufferGoesOn(b, c, buf.pc) /\ UNCHANGED dev
    BY <1>0, WaitsSay
  <1>2. DevicesSane'
    BY <1>1 DEF Steady, KeptInv, DevicesSane
  <1>3. buf.pc = "buffer" =>
          \A p \in str.players : dev'[p].last # 0 => dev'[p].first = buf.buffers[1]
    BY <1>0, <1>1 DEF RefillOK
  <1> QED BY <1>0, <1>1, <1>2, <1>3, RefillGoesOnKept

(* do_rebuffer sends to all players of the stream, and to no other. *)
LEMMA RefillWrites ==
  ASSUME Steady, buf.pc # "loop"
  PROVE  Wrote(buf.players) = str.players /\ str.players \subseteq Players
  BY RefillIsWhole, SteadyTypes DEF Steady, Wrote, Tables

(* do_rebuffer begins the track again. *)
LEMMA RebufferBeginsKept ==
  ASSUME Steady, RebufferBegins
  PROVE  KeptInv'
  <1>0. /\ AudioInv /\ buf.pc = "begin" /\ UNCHANGED <<group, str, stops>> /\ buf.pc # "loop"
        /\ str.owner \in Nat /\ dev \in [Players -> Devices] /\ DevicesSane
    BY SteadyTypes DEF Steady, KeptInv, RebufferBegins, BufferAt, Streams
  <1>1. CASE ~AllCanBegin(buf.players)
    <2>1. RebufferWaits({p \in Players : view[p].canBegin})
      BY <1>1 DEF RebufferBegins
    <2> QED BY <1>0, <2>1, RebufferWaitsKept
  <1>2. CASE AllCanBegin(buf.players)
    <2> DEFINE b == [buf EXCEPT !.players = Wrote(@), !.next = 1, !.misses = 0]
    <2>1. /\ dev' = [p \in Players |-> IF p \in Wrote(buf.players)
                                        THEN GetBegin(dev[p], str.owner) ELSE dev[p]]
          /\ RebufferGoesOn(b, ch, "buffer")
      BY <1>2 DEF RebufferBegins, WriteTo
    <2>2. /\ \A p \in str.players : p \in Players /\ dev'[p] = GetBegin(dev[p], str.owner)
          /\ \A p \in Players : dev'[p] = GetBegin(dev[p], str.owner) \/ dev'[p] = dev[p]
      BY <1>0, <2>1, RefillWrites
    <2>3. Refills(b, ch)
      <3>1. 1 \in Nat \ {0}
        OBVIOUS
      <3> QED BY <1>0, <3>1, SentRefills, Zenon
    <2> HIDE DEF b
    <2>4. ASSUME NEW p \in Players PROVE Sane(dev'[p], stops'[p])
      <3>1. Sane(dev[p], stops[p]) /\ dev[p] \in Devices /\ 1 \in Nat \ {0} /\ 1 \in Nat
        BY <1>0 DEF DevicesSane
      <3>2. Sane(GetBegin(dev[p], str.owner), stops[p])
        BY <1>0, <3>1, SaneCommands
      <3> QED BY <1>0, <2>2, <3>1, <3>2
    <2>5. \A p \in str.players : dev'[p].last = 0
      <3>1. 1 \in Nat
        OBVIOUS
      <3> QED BY <1>0, <2>2, <3>1, CommandEffects
    <2>6. DevicesSane'
      BY <2>4 DEF DevicesSane
    <2> QED BY <1>0, <2>1, <2>3, <2>5, <2>6, RefillGoesOnKept
  <1> QED BY <1>1, <1>2

(* The chunks of a history that do_rebuffer sends are numbered from 1. *)
LEMMA RefillChunks ==
  ASSUME Steady, buf.pc # "loop", NEW i \in 1 .. Len(buf.buffers)
  PROVE  buf.buffers[i] \in Nat \ {0}
  <1>1. PICK m \in Nat : Window(buf.buffers, Pending, m, m)
    BY RefillIsWhole
  <1>2. NoClear(Pending, 0) /\ buf.buffers \in Seq(Nat)
    BY RefillIsWhole, SteadyTypes DEF Steady
  <1>3. Len(buf.buffers) \in Nat /\ DOMAIN buf.buffers = 1 .. Len(buf.buffers)
    BY <1>2, LenProperties
  <1>4. Len(buf.buffers) <= m /\ buf.buffers[i] = m - Len(buf.buffers) + i
    BY <1>1, <1>2, <1>3 DEF Window
  <1> QED BY <1>3, <1>4

(* do_rebuffer sends a chunk. *)
LEMMA RebufferChunkKept ==
  ASSUME Steady, buf.pc = "buffer", buf.next <= Len(buf.buffers),
         WriteTo(buf.players, LAMBDA d : GetChunk(d, str.owner, buf.buffers[buf.next])),
         RebufferGoesOn([buf EXCEPT !.players = Wrote(@), !.next = @ + 1, !.misses = 0],
                        ch, "buffer"),
         UNCHANGED <<group, str, stops>>
  PROVE  KeptInv'
  <1> DEFINE n == buf.buffers[buf.next]
             k == buf.next + 1
             b == [buf EXCEPT !.players = Wrote(@), !.next = k, !.misses = 0]
  <1>0. /\ AudioInv /\ buf.pc # "loop" /\ DevicesSane /\ str.owner \in Nat
        /\ dev \in [Players -> Devices] /\ buf.next \in Nat \ {0} /\ buf.buffers \in Seq(Nat)
        /\ RefillOK
    BY SteadyTypes DEF Steady, KeptInv, Streams, Histories
  <1>1. /\ dev' = [p \in Players |-> IF p \in Wrote(buf.players)
                                      THEN GetChunk(dev[p], str.owner, n) ELSE dev[p]]
        /\ RebufferGoesOn(b, ch, "buffer")
    BY DEF WriteTo
  <1>2. Len(buf.buffers) \in Nat /\ buf.next \in 1 .. Len(buf.buffers) /\ k \in Nat \ {0}
    BY <1>0, LenProperties
  <1>3. n \in Nat \ {0} /\ n = buf.buffers[buf.next]
    BY <1>0, <1>2, RefillChunks
  <1> HIDE DEF n, k
  <1>4. Refills(b, ch)
    BY <1>0, <1>2, SentRefills, Zenon
  <1> HIDE DEF b
  <1>5. /\ \A p \in str.players : p \in Players /\ dev'[p] = GetChunk(dev[p], str.owner, n)
        /\ \A p \in Players : p \notin str.players => dev'[p] = dev[p]
    BY <1>0, <1>1, RefillWrites
  <1>6. \A p \in Players : stops[p] = "none"
    BY <1>0, StoppedAll
  <1>7. ASSUME NEW p \in str.players
        PROVE  /\ dev[p].st = "streaming"
               /\ dev[p].last = IF buf.next = 1 THEN 0 ELSE buf.buffers[buf.next - 1]
    BY <1>0, RefillIsWhole DEF Refilled
  <1>8. ASSUME NEW p \in Players PROVE Sane(dev'[p], stops'[p])
    <2>1. Sane(dev[p], stops[p]) /\ dev[p] \in Devices /\ stops[p] # "ok"
      BY <1>0, <1>6 DEF DevicesSane
    <2>2. CASE p \in str.players
      <3>1. dev[p].st = "streaming"
        BY <1>7, <2>2
      <3>2. Sane(GetChunk(dev[p], str.owner, n), stops[p])
        BY <1>0, <1>3, <2>1, <3>1, SaneCommands
      <3> QED BY <1>5, <2>2, <3>2
    <2>3. CASE p \notin str.players
      BY <1>5, <2>1, <2>3
    <2> QED BY <2>2, <2>3
  <1>9. DevicesSane'
    BY <1>8 DEF DevicesSane
  <1>10. ASSUME NEW p \in str.players PROVE dev'[p].first = buf.buffers[1]
    <2>1. p \in Players /\ dev[p] \in Devices
      BY <1>0, <1>5
    <2>2. dev'[p].first = IF dev[p].last = 0 THEN n ELSE dev[p].first
      BY <1>0, <1>3, <1>5, <2>1, SentChunks
    <2>3. CASE buf.next = 1
      BY <1>3, <1>7, <2>2, <2>3
    <2>4. CASE buf.next # 1
      <3>1. buf.next - 1 \in 1 .. Len(buf.buffers)
        BY <1>0, <1>2, <2>4
      <3>2. dev[p].last # 0
        BY <1>0, <1>7, <2>4, <3>1, RefillChunks
      <3>3. dev[p].first = buf.buffers[1]
        BY <1>0, <3>2 DEF RefillOK
      <3> QED BY <2>2, <3>2, <3>3
    <2> QED BY <2>3, <2>4
  <1> QED BY <1>0, <1>1, <1>4, <1>9, <1>10, RefillGoesOnKept

(* do_rebuffer has sent the history. *)
LEMMA RebufferReturnsKept ==
  ASSUME Steady, buf.pc = "buffer", buf.next > Len(buf.buffers), NEW b, Refills(b, ch),
         RebufferReturns(b, ch), UNCHANGED <<group, str, stops>>,
         \/ UNCHANGED dev
         \/ WriteTo(buf.players, GetEnd)
  PROVE  KeptInv'
  <1>0. /\ AudioInv /\ buf.pc # "loop" /\ DevicesSane /\ RefillOK
        /\ dev \in [Players -> Devices] /\ buf.next \in Nat \ {0} /\ buf.buffers \in Seq(Nat)
        /\ buf.next <= Len(buf.buffers) + 1 /\ str.players \in Tables
    BY SteadyTypes DEF Steady, KeptInv, Histories, AudioInv, AudioOK, RefillKnown
  <1>1. Len(buf.buffers) \in Nat /\ buf.next = Len(buf.buffers) + 1
    <2>1. Len(buf.buffers) \in Nat
      BY <1>0, LenProperties
    <2> QED BY <1>0, <2>1
  <1>2. RebufferGoesOn(b, ch, "return")
    BY DEF RebufferGoesOn
  <1>3. \A p \in Players : dev'[p] = dev[p] \/ dev'[p] = GetEnd(dev[p])
    <2>1. CASE UNCHANGED dev
      BY <2>1
    <2>2. CASE WriteTo(buf.players, GetEnd)
      BY <2>2 DEF WriteTo
    <2> QED BY <2>1, <2>2
  <1>4. ASSUME NEW p \in Players
        PROVE  /\ Sane(dev'[p], stops'[p])
               /\ dev'[p].last = dev[p].last /\ dev'[p].first = dev[p].first
    <2>1. /\ Sane(dev[p], stops[p]) /\ dev[p] \in Devices /\ 1 \in Nat \ {0} /\ 1 \in Nat
          /\ stops'[p] = stops[p]
      BY <1>0 DEF DevicesSane
    <2>2. Sane(GetEnd(dev[p]), stops[p])
      BY <2>1, SaneCommands
    <2>3. GetEnd(dev[p]).last = dev[p].last /\ GetEnd(dev[p]).first = dev[p].first
      BY <2>1, SentChunks
    <2> QED BY <1>3, <2>1, <2>2, <2>3
  <1>5. DevicesSane'
    BY <1>4 DEF DevicesSane
  <1>6. buf'.buffers = buf.buffers /\ ch'.events = ch.events /\ ch'.bufEvent = ch.bufEvent
    BY <1>2, GoesOnSays
  <1>7. Pending' = Pending
    BY <1>0, <1>6, PendingSteps
  <1>8. ASSUME NEW p \in str.players
        PROVE  /\ dev'[p].last = dev[p].last /\ dev'[p].first = dev[p].first
               /\ dev[p].last = IF buf.next = 1 THEN 0 ELSE buf.buffers[buf.next - 1]
    BY <1>0, <1>4, RefillIsWhole DEF Refilled, Tables
  <1>9. KeptOK'
    <2>1. CASE buf.buffers = << >>
      <3>1. buf.next = 1
        BY <1>1, <2>1
      <3>2. \A p \in str.players : dev'[p].last = 0
        BY <1>8, <3>1
      <3> QED BY <1>0, <1>5, <1>6, <1>7, <2>1, <3>2, EmptyReturnKept
    <2>2. CASE buf.buffers # << >>
      <3> DEFINE k == Len(buf.buffers)
      <3>1. k # 0
        BY <1>0, <2>2, EmptySeq
      <3>2. buf.next # 1 /\ buf.next - 1 = k /\ k \in 1 .. Len(buf.buffers)
        BY <1>1, <3>1
      <3>3. buf.buffers[k] # 0
        BY <1>0, <3>2, RefillChunks
      <3> HIDE DEF k
      <3>4. \A p \in str.players :
              dev'[p].last = buf.buffers[k] /\ dev'[p].first = buf.buffers[1]
        BY <1>0, <1>8, <3>2, <3>3 DEF RefillOK
      <3> QED BY <1>0, <1>6, <1>7, <2>2, <3>4, FullReturnKept DEF k
    <2> QED BY <2>1, <2>2
  <1> QED BY <1>0, <1>2, <1>5, <1>9, RefillGoesOnKept

(* do_rebuffer sends the history. *)
LEMMA RebufferBuffersKept ==
  ASSUME Steady, RebufferBuffers
  PROVE  KeptInv'
  <1>0. /\ AudioInv /\ buf.pc = "buffer" /\ buf.pc # "loop" /\ UNCHANGED <<group, str, stops>>
        /\ buf.next \in Nat \ {0} /\ Len(buf.buffers) \in Nat
    BY SteadyTypes, LenProperties DEF Steady, RebufferBuffers, BufferAt, Histories
  <1>1. CASE buf.next > Len(buf.buffers)
    <2>1. ~(buf.next <= Len(buf.buffers)) /\ 1 \in Nat \ {0}
      BY <1>0, <1>1
    <2>2. Refills(buf, ch) /\ Refills([buf EXCEPT !.players = Wrote(@)], ch)
      BY <1>0, <2>1, SentRefills, Zenon
    <2>3. CASE ~buf.trackEnd
      <3>1. RebufferReturns(buf, ch) /\ UNCHANGED dev
        BY <1>1, <2>1, <2>3, Zenon DEF RebufferBuffers
      <3> QED BY <1>0, <1>1, <2>2, <3>1, RebufferReturnsKept
    <2>4. CASE buf.trackEnd
      <3> DEFINE b == [buf EXCEPT !.players = Wrote(@)]
      <3>1. WriteTo(buf.players, GetEnd) /\ RebufferReturns(b, ch)
        BY <1>1, <2>1, <2>4, Zenon DEF RebufferBuffers
      <3>2. Refills(b, ch)
        BY <2>2
      <3> HIDE DEF b
      <3> QED BY <1>0, <1>1, <3>1, <3>2, RebufferReturnsKept
    <2> QED BY <2>3, <2>4
  <1>2. CASE buf.next <= Len(buf.buffers)
    <2>1. ~(buf.next > Len(buf.buffers))
      BY <1>0, <1>2
    <2>2. CASE AllCanBuffer(buf.players)
      <3>1. /\ WriteTo(buf.players, LAMBDA d : GetChunk(d, str.owner, buf.buffers[buf.next]))
            /\ RebufferGoesOn([buf EXCEPT !.players = Wrote(@), !.next = @ + 1, !.misses = 0],
                              ch, "buffer")
        BY <1>2, <2>1, <2>2, Zenon DEF RebufferBuffers
      <3> QED BY <1>0, <1>2, <3>1, RebufferChunkKept
    <2>3. CASE ~AllCanBuffer(buf.players)
      <3>1. RebufferWaits({p \in Players : view[p].free > 0})
        BY <1>2, <2>1, <2>3, Zenon DEF RebufferBuffers
      <3> QED BY <1>0, <3>1, RebufferWaitsKept
    <2> QED BY <2>2, <2>3
  <1> QED BY <1>0, <1>1, <1>2

(* Every step of buffer_thread. *)
LEMMA BufferStepKept ==
  ASSUME Steady, BufferStep
  PROVE  KeptInv'
  BY BufferPlayersKept, BufferStatesKept, BufferEventKept, BufferRequestKept, RebufferStopsKept,
     RebufferMatchesKept, RebufferBeginsKept, RebufferBuffersKept DEF BufferStep
-----------------------------------------------------------------------------
(* Init: nothing was sent. *)
LEMMA InitKept == Init => AudioInv /\ Up /\ KeptInv
  <1> SUFFICES ASSUME Init PROVE AudioInv /\ Up /\ KeptInv
    OBVIOUS
  <1>1. AudioInv
    BY InitAudio
  <1>2. Up
    BY DEF Init, Up
  <1>3. Chain(str, ch, buf.streaming, group.table)
    BY DEF Init, Chain, Wanted
  <1>4. DevicesSane
    <2>1. \A p \in Players : dev[p] = NewDevice /\ stops[p] = "none"
      BY DEF Init
    <2>2. NewDevice.last = 0 /\ NewDevice.fill = 0
      BY DEF NewDevice
    <2> QED BY <2>1, <2>2 DEF DevicesSane, Sane
  <1> DEFINE w == Event("WAITING", 0)
  <1>5. Pending = <<w>>
    <2>1. Pending \in Seq(Events) /\ ch.bufEvent = None /\ ch.events = <<w>>
          /\ ch.events \in Seq(Events)
      BY <1>1, SteadyTypes DEF Init
    <2>2. Pending = << >> \o ch.events
      BY <2>1 DEF Pending
    <2> QED BY <2>1, <2>2, ConcatEmptySeq
  <1>6. w.event = "WAITING"
    BY DEF Event
  <1> HIDE DEF w
  <1>7. \A i \in DOMAIN Pending : Pending[i].event = "WAITING"
    BY <1>5, <1>6
  <1>8. Window(buf.buffers, Pending, 0, 0)
    <2>1. buf.buffers = << >> /\ Len(<< >>) = 0 /\ DOMAIN << >> = {} /\ 0 <= 0
      BY DEF Init
    <2>2. \A n \in Nat : ~ToCome(Pending, n) /\ ~(0 < n /\ n <= 0)
      BY <1>7 DEF ToCome
    <2>3. Rising(Pending)
      BY <1>7 DEF Rising
    <2> QED BY <2>1, <2>2, <2>3 DEF Window
  <1>9. ~Level /\ ~ch.rebufferDone /\ buf.pc = "loop"
    BY DEF Init, Level
  <1>10. KeptOK
    <2>1. Even(0, 0)
      BY <1>8, <1>9 DEF Even
    <2> QED BY <2>1 DEF KeptOK
  <1>11. RefillOK
    BY <1>9 DEF RefillOK
  <1> QED BY <1>1, <1>2, <1>3, <1>4, <1>10, <1>11 DEF KeptInv

(* Every step keeps what a rebuffer needs, as long as nothing goes wrong. *)
LEMMA NextKept ==
  ASSUME AudioInv, Up, Good => KeptInv, [Next]_vars
  PROVE  AudioInv' /\ Up' /\ (Good' => KeptInv')
  <1>1. AudioInv'
    BY NextAudio
  <1>2. Up' /\ (Good' => Good)
    BY UpNext
  <1> SUFFICES ASSUME Good' PROVE KeptInv'
    BY <1>1, <1>2
  <1>3. Good /\ KeptInv /\ lost = {} /\ failed = {}
    BY <1>2 DEF Good, Up
  <1>4. lost' = {} /\ failed' = {}
    BY <1>2 DEF Good, Up
  <1>5. Steady
    BY <1>1, <1>3, <1>4 DEF Steady
  <1>6. CASE UNCHANGED vars
    <2>1. UNCHANGED <<group, lost, failed, dev, view, stops, app, ch, str, buf>>
      BY <1>6 DEF vars
    <2>2. Pending' = Pending /\ SameDevices /\ SameWay
      BY <1>5, <2>1, PendingSteps, DevicesAlone DEF Steady, SameWay
    <2> QED BY <1>5, <2>1, <2>2, Undisturbed
  <1>7. CASE Next
    BY <1>5, <1>7, EnvironmentKept, MultsKept, OthersKept, StreamStepKept, BufferStepKept
    DEF Next, ThreadStep
  <1> QED BY <1>6, <1>7

(* What is held is kept. *)
LEMMA HeldIsKept ==
  ASSUME AudioInv, NEW n \in Nat, HeldIn(buf.buffers, Pending, n)
  PROVE  Kept(n)
  <1>0. /\ Pending \in Seq(Events) /\ DOMAIN Pending = 1 .. Len(Pending)
    BY SteadyTypes, LenProperties
  <1>1. CASE NoClear(Pending, 0) /\ \E i \in DOMAIN buf.buffers : buf.buffers[i] = n
    <2>1. 0 + 1 = 1
      OBVIOUS
    <2> QED BY <1>0, <1>1, <2>1 DEF NoClear, Kept
  <1>2. CASE ToCome(Pending, n)
    <2>1. PICK i \in DOMAIN Pending :
            Pending[i].event = "BUFFER" /\ Pending[i].n = n /\ NoClear(Pending, i)
      BY <1>2 DEF ToCome
    <2>2. Pending[i] \in Events
      BY <1>0, ElementOfSeq
    <2>3. Pending[i] = Event("BUFFER", n)
      BY <2>1, <2>2 DEF Events, Event
    <2> QED BY <2>1, <2>3 DEF Kept, NoClear
  <1> QED BY <1>1, <1>2 DEF HeldIn

(* In the loop, the history has what some player has not begun to decode. *)
LEMMA KeptImplies ==
  ASSUME AudioInv, Good => KeptInv, ~buf.overtook, buf.dropped = {}
  PROVE  UndecodedIsKept
  <1> DEFINE ps == {p \in str.players \ buf.dropped : dev[p].st \in {"streaming", "ended"}}
  <1> SUFFICES ASSUME str.pc = "loop", group.added \subseteq group.table \ lost, ps # {}
               PROVE  \E p \in ps : \A n \in Undecoded(p) : Kept(n)
    BY DEF UndecodedIsKept
  <1>0. /\ KeptInv /\ str.players \in Tables /\ dev \in [Players -> Devices]
    BY SteadyTypes DEF Good
  <1>1. PICK m \in Nat, l \in Nat : Even(m, l)
    BY <1>0 DEF KeptInv, KeptOK
  <1>2. (\A p \in str.players : dev[p].last = l) /\ \E p \in str.players : Covered(p)
    BY <1>1 DEF Even, Level
  <1>3. \E p \in ps : Covered(p)
    <2>1. PICK p \in str.players : Covered(p)
      BY <1>2
    <2>2. CASE p \in ps
      BY <2>1, <2>2
    <2>3. CASE p \notin ps
      <3>1. p \in Players /\ dev[p].st \in {"stopped", "started"}
        BY <1>0, <2>3 DEF Tables, Devices
      <3>2. l = 0
        BY <1>0, <1>2, <3>1 DEF KeptInv, DevicesSane, Sane
      <3>3. PICK r \in ps : TRUE
        OBVIOUS
      <3>4. r \in Players /\ dev[r].last = 0 /\ Sane(dev[r], stops[r])
        BY <1>0, <1>2, <3>2 DEF Tables, KeptInv, DevicesSane
      <3>5. Covered(r)
        BY <1>0, <3>4, NothingUndecoded
      <3> QED BY <3>5
    <2> QED BY <2>2, <2>3
  <1>4. PICK p \in ps : Covered(p)
    BY <1>3
  <1>5. ASSUME NEW n \in Undecoded(p) PROVE Kept(n)
    <2>1. p \in Players
      BY <1>0 DEF Tables
    <2>2. dev[p].first \in Nat /\ dev[p].last \in Nat
      BY <1>0, <2>1 DEF Devices
    <2>3. n \in Nat
      BY <2>2 DEF Undecoded
    <2>4. HeldIn(buf.buffers, Pending, n)
      BY <1>4 DEF Covered
    <2> QED BY <2>3, <2>4, HeldIsKept
  <1> QED BY <1>5

(* The history that buffer_thread prunes by the report of one player still has *)
(* all that some player has not begun to decode, for any players, capacities,  *)
(* guesses of the bitrate and bounds: whenever no rebuffer has overtaken an event (do_rebuffer then sends *)
(* less than was sent) or dropped a player.                                   *)
THEOREM UndecodedStaysKept == Spec => [](~buf.overtook /\ buf.dropped = {} => UndecodedIsKept)
  <1> DEFINE Inv == AudioInv /\ Up /\ (Good => KeptInv)
  <1>1. Init => Inv
    BY InitKept
  <1>2. Inv /\ [Next]_vars => Inv'
    BY NextKept
  <1>3. Inv => (~buf.overtook /\ buf.dropped = {} => UndecodedIsKept)
    BY KeptImplies
  <1> QED BY <1>1, <1>2, <1>3, PTL DEF Spec
=============================================================================
