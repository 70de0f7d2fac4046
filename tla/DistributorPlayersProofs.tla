---------------------- MODULE DistributorPlayersProofs ----------------------
(***************************************************************************)
(* What players_thread guarantees for any number of devices, Player        *)
(* objects and commands.                                                    *)
(***************************************************************************)
EXTENDS DistributorPlayers, TLAPS

\* A Player belongs to an id exactly from the moment it is created, and the
\* table only holds connected Players, each under its own id.
Ownership ==
    /\ \A p \in Instances : (owner[p] = None) <=> (phase[p] = "unused")
    /\ \A id \in Ids : players[id] # None =>
          owner[players[id]] = id /\ phase[players[id]] = "ready"

\* A Player waits in player_ready_ch at most once, before any thread knows it.
ReadyIsFresh ==
    \A i \in 1..Len(readyQ) : readyQ[i] # None =>
        /\ phase[readyQ[i]] = "ready"
        /\ readyQ[i] \notin everSent
        /\ \A id \in Ids : players[id] # readyQ[i]
        /\ \A j \in 1..Len(readyQ) : readyQ[j] = readyQ[i] => j = i

\* Only connected Players are handed out, and a Player fails either before it
\* is connected or after it was handed out.
FailureHasCause ==
    /\ \A p \in everSent : phase[p] = "ready"
    /\ \A p \in failed : phase[p] = "dead" \/ p \in everSent

\* player_errors_ch carries failed Players.
ErrorsAreFailures == \A i \in 1..Len(errorsQ) : errorsQ[i] \in failed

IndInv ==
    /\ TypeOK
    /\ PublishedOrPending
    /\ Ownership
    /\ ReadyIsFresh
    /\ FailureHasCause
    /\ ErrorsAreFailures
    /\ FailedIsLeaving

-----------------------------------------------------------------------------
\* The table type survives the assignments the thread makes to it.
LEMMA HeldInstances ==
    ASSUME NEW table \in Tables
    PROVE  /\ Held(table) \in SUBSET Instances
           /\ \A p \in Instances : p \in Held(table) <=> \E id \in Ids : table[id] = p
  BY NoneAssumption DEF Tables, Held

\* What appending to a queue does to its elements.
LEMMA AppendElements ==
    ASSUME NEW S, NEW q \in Seq(S), NEW e \in S
    PROVE  /\ Append(q, e) \in Seq(S)
           /\ Len(Append(q, e)) = Len(q) + 1
           /\ \A i \in 1..Len(q) : Append(q, e)[i] = q[i]
           /\ Append(q, e)[Len(q) + 1] = e
  OBVIOUS

\* What taking the head of a queue does to its elements.
LEMMA TailElements ==
    ASSUME NEW S, NEW q \in Seq(S), q # <<>>
    PROVE  /\ Head(q) = q[1] /\ Head(q) \in S
           /\ Tail(q) \in Seq(S)
           /\ Len(q) \in Nat \ {0}
           /\ Len(Tail(q)) = Len(q) - 1
           /\ \A i \in 1..Len(Tail(q)) : Tail(q)[i] = q[i + 1]
  OBVIOUS

\* A queue loses no element but its head.
LEMMA TailContains ==
    ASSUME NEW S, NEW q \in Seq(S), q # <<>>
    PROVE  \A x : x # Head(q) /\ (\E i \in 1..Len(q) : q[i] = x)
                       => \E i \in 1..Len(Tail(q)) : Tail(q)[i] = x
<1> SUFFICES ASSUME NEW x, x # Head(q), NEW i \in 1..Len(q), q[i] = x
             PROVE  \E j \in 1..Len(Tail(q)) : Tail(q)[j] = x
  OBVIOUS
<1>1. i # 1 /\ i - 1 \in 1..Len(Tail(q)) /\ Tail(q)[i - 1] = q[i]
  BY TailElements
<1> QED BY <1>1

\* Every step keeps every variable in its type.
LEMMA TypeStep == TypeOK /\ [Next]_vars => TypeOK'
<1> SUFFICES ASSUME TypeOK, [Next]_vars PROVE TypeOK' OBVIOUS
<1> USE DEF TypeOK
<1>1. CASE UNCHANGED vars
  BY <1>1 DEF vars
<1>2. ASSUME NEW c \in Commands, SendCommand(c) PROVE TypeOK'
  BY <1>2, AppendElements DEF SendCommand, threadVars, playerVars
<1>3. ASSUME NEW p \in Instances, PlayerStep(p) \/ PlayerFails(p) PROVE TypeOK'
  <2>1. /\ Append(errorsQ, p) \in Seq(Instances)
        /\ Append(readyQ, p) \in Seq(Instances \cup {None})
        /\ Append(readyQ, None) \in Seq(Instances \cup {None})
    BY AppendElements
  <2>2. {"stream", "stop", "ready", "dead"} \subseteq Phases BY DEF Phases
  <2>3. CASE InitAdvance(p)
    BY <2>2, <2>3 DEF InitAdvance, threadVars
  <2>4. CASE InitDone(p)
    BY <2>1, <2>2, <2>4 DEF InitDone, threadVars
  <2>5. CASE InitCallFails(p)
    BY <2>1, <2>2, <2>5 DEF InitCallFails, threadVars
  <2>6. CASE InitStreamFails(p)
    BY <2>1, <2>2, <2>6 DEF InitStreamFails, threadVars
  <2>7. CASE PlayerFails(p)
    <3>1. errorsQ \o <<p, p>> \in Seq(Instances) OBVIOUS
    <3> QED BY <2>1, <2>7, <3>1
            DEF PlayerFails, PlayerCallFails, PlayerStreamFails, threadVars
  <2> QED BY <1>3, <2>3, <2>4, <2>5, <2>6, <2>7 DEF PlayerStep
<1>4. CASE TimerFires
  BY <1>4 DEF TimerFires, playerVars
<1>5. CASE ThreadStep
  <2>1. \A t \in Tables : Held(t) \in SUBSET Instances BY HeldInstances
  <2>2. CASE HandleError
    <3>1. Tail(errorsQ) \in Seq(Instances) BY <2>2, TailElements DEF HandleError
    <3>2. players' \in Tables
      BY <2>2 DEF HandleError, threadVars, Tables
    <3> QED BY <2>1, <2>2, <3>1, <3>2 DEF HandleError, Publish, threadVars, playerVars
  <2>3. CASE HandleReady
    <3>1. Tail(readyQ) \in Seq(Instances \cup {None}) /\ Head(readyQ) \in Instances \cup {None}
      BY <2>3, TailElements DEF HandleReady
    <3>2. players' \in Tables
      BY <2>3, <3>1 DEF HandleReady, threadVars, Tables
    <3> QED BY <2>3, <3>1, <3>2 DEF HandleReady, threadVars, playerVars
  <2>4. CASE HandleCommand
    <3>1. Tail(commandQ) \in Seq(Commands) /\ Head(commandQ) \in Commands
      BY <2>4, TailElements DEF HandleCommand
    <3>2. ASSUME Head(commandQ).method = "add_player", AddPlayer(Head(commandQ).id),
                 UNCHANGED threadVars
          PROVE  TypeOK'
      <4>1. Head(commandQ).id \in Ids BY <3>1, <3>2 DEF Commands
      <4>2. "hello" \in Phases BY DEF Phases
      <4> QED BY <2>4, <3>1, <3>2, <4>1, <4>2 DEF HandleCommand, AddPlayer, playerVars, threadVars
    <3>3. ASSUME RemovePlayer(Head(commandQ).id), UNCHANGED playerVars
          PROVE  TypeOK'
      <4>1. players' \in Tables BY <3>3 DEF RemovePlayer, threadVars, Tables
      <4> QED BY <2>1, <2>4, <3>1, <3>3, <4>1 DEF HandleCommand, RemovePlayer, Publish, playerVars, threadVars
    <3>4. ASSUME RemoveAllPlayers, UNCHANGED playerVars
          PROVE  TypeOK'
      <4>1. players' \in Tables BY <3>4 DEF RemoveAllPlayers, Tables
      <4> QED BY <2>1, <2>4, <3>1, <3>4, <4>1 DEF HandleCommand, RemoveAllPlayers, Publish, playerVars
    <3> QED BY <2>4, <3>2, <3>3, <3>4 DEF HandleCommand
  <2>5. CASE HandleTimeout
    BY <2>1, <2>5 DEF HandleTimeout, Publish, playerVars
  <2> QED BY <1>5, <2>2, <2>3, <2>4, <2>5 DEF ThreadStep
<1> QED BY <1>1, <1>2, <1>3, <1>4, <1>5 DEF Next

\* A command waiting in the manager's queue concerns nobody yet.
LEMMA SendCommandStep ==
    ASSUME IndInv, NEW c \in Commands, SendCommand(c) PROVE IndInv'
<1>1. TypeOK' BY TypeStep DEF IndInv, Next
<1> QED BY <1>1 DEF IndInv, SendCommand, threadVars, playerVars, PublishedOrPending,
        Ownership, ReadyIsFresh, FailureHasCause, ErrorsAreFailures, FailedIsLeaving

\* The debounce timer firing keeps the publication pending.
LEMMA TimerStep == ASSUME IndInv, TimerFires PROVE IndInv'
<1>1. TypeOK' BY TypeStep DEF IndInv, Next
<1> QED BY <1>1 DEF IndInv, TimerFires, playerVars, PublishedOrPending,
        Ownership, ReadyIsFresh, FailureHasCause, ErrorsAreFailures, FailedIsLeaving

\* The connection protocol of one Player.
LEMMA PlayerInitStep ==
    ASSUME IndInv, NEW p \in Instances, PlayerStep(p) PROVE IndInv'
<1>1. TypeOK' BY TypeStep DEF IndInv, Next
<1>2. TypeOK BY DEF IndInv
<1>3. phase[p] \in {"hello", "stream", "stop"}
  BY DEF PlayerStep, InitAdvance, InitDone, InitCallFails, InitStreamFails
<1>4. p \notin everSent /\ (\A id \in Ids : players[id] # p)
      /\ (\A i \in 1..Len(readyQ) : readyQ[i] # p)
  BY <1>2, <1>3, NoneAssumption DEF IndInv, FailureHasCause, Ownership, ReadyIsFresh
<1>5. UNCHANGED <<players, playersCh, timer, everSent, owner>>
  BY DEF PlayerStep, InitAdvance, InitDone, InitCallFails, InitStreamFails, threadVars
<1>6. (\A q \in Instances : q # p => phase'[q] = phase[q]) /\ phase'[p] # "unused"
  BY <1>2 DEF TypeOK, PlayerStep, InitAdvance, InitDone, InitCallFails, InitStreamFails
<1>7. PublishedOrPending' BY <1>5 DEF IndInv, PublishedOrPending
<1>8. Ownership'
  BY <1>2, <1>3, <1>4, <1>5, <1>6 DEF IndInv, TypeOK, Tables, Ownership
<1>9. ReadyIsFresh'
  <2>1. ASSUME readyQ' = readyQ PROVE ReadyIsFresh'
    BY <1>2, <1>4, <1>5, <1>6, <2>1 DEF IndInv, TypeOK, ReadyIsFresh
  <2>2. CASE InitDone(p)
    <3>1. /\ Len(readyQ') = Len(readyQ) + 1
          /\ \A i \in 1..Len(readyQ) : readyQ'[i] = readyQ[i]
          /\ readyQ'[Len(readyQ) + 1] = p
      BY <2>2, <1>2, AppendElements DEF TypeOK, InitDone
    <3>2. phase'[p] = "ready" BY <2>2, <1>2 DEF InitDone, TypeOK
    <3> QED
      <4> SUFFICES ASSUME NEW i \in 1..Len(readyQ'), readyQ'[i] # None
                   PROVE  /\ phase'[readyQ'[i]] = "ready"
                          /\ readyQ'[i] \notin everSent'
                          /\ \A id \in Ids : players'[id] # readyQ'[i]
                          /\ \A j \in 1..Len(readyQ') : readyQ'[j] = readyQ'[i] => j = i
        BY DEF ReadyIsFresh
      <4>1. Len(readyQ) \in Nat BY <1>2 DEF TypeOK
      <4>2. CASE i = Len(readyQ) + 1
        BY <1>4, <1>5, <3>1, <3>2, <4>1, <4>2
      <4>3. CASE i \in 1..Len(readyQ)
        <5>1. readyQ'[i] = readyQ[i] /\ readyQ[i] \in Instances /\ readyQ[i] # p
          BY <1>2, <1>4, <3>1, <4>3 DEF TypeOK
        <5>2. phase'[readyQ[i]] = "ready" /\ readyQ[i] \notin everSent
              /\ \A id \in Ids : players[id] # readyQ[i]
          BY <1>6, <4>3, <5>1 DEF IndInv, ReadyIsFresh
        <5>3. \A j \in 1..Len(readyQ) : readyQ'[j] = readyQ[i] => j = i
          BY <3>1, <4>3, <5>1 DEF IndInv, ReadyIsFresh
        <5> QED BY <1>5, <3>1, <4>1, <5>1, <5>2, <5>3
      <4> QED BY <3>1, <4>1, <4>2, <4>3
  <2>3. CASE InitStreamFails(p)
    <3>1. /\ Len(readyQ') = Len(readyQ) + 1
          /\ \A i \in 1..Len(readyQ) : readyQ'[i] = readyQ[i]
          /\ readyQ'[Len(readyQ) + 1] = None
      BY <2>3, <1>2, AppendElements DEF TypeOK, InitStreamFails
    <3> QED
      <4> SUFFICES ASSUME NEW i \in 1..Len(readyQ'), readyQ'[i] # None
                   PROVE  /\ phase'[readyQ'[i]] = "ready"
                          /\ readyQ'[i] \notin everSent'
                          /\ \A id \in Ids : players'[id] # readyQ'[i]
                          /\ \A j \in 1..Len(readyQ') : readyQ'[j] = readyQ'[i] => j = i
        BY DEF ReadyIsFresh
      <4>1. Len(readyQ) \in Nat BY <1>2 DEF TypeOK
      <4>2. i \in 1..Len(readyQ) BY <3>1, <4>1
      <4>3. readyQ'[i] = readyQ[i] /\ readyQ[i] \in Instances /\ readyQ[i] # p
        BY <1>2, <1>4, <3>1, <4>2 DEF TypeOK
      <4>4. phase'[readyQ[i]] = "ready" /\ readyQ[i] \notin everSent
            /\ \A id \in Ids : players[id] # readyQ[i]
        BY <1>6, <4>2, <4>3 DEF IndInv, ReadyIsFresh
      <4>5. \A j \in 1..Len(readyQ) : readyQ'[j] = readyQ[i] => j = i
        BY <3>1, <4>2, <4>3 DEF IndInv, ReadyIsFresh
      <4> QED BY <1>5, <3>1, <4>1, <4>3, <4>4, <4>5, NoneAssumption
  <2> QED BY <2>1, <2>2, <2>3 DEF PlayerStep, InitAdvance, InitCallFails
<1>10. FailureHasCause' /\ ErrorsAreFailures' /\ FailedIsLeaving'
  <2>1. \A q \in everSent : phase'[q] = "ready"
    BY <1>2, <1>4, <1>6 DEF IndInv, TypeOK, FailureHasCause
  <2>2. ASSUME failed' = failed, errorsQ' = errorsQ
        PROVE FailureHasCause' /\ ErrorsAreFailures' /\ FailedIsLeaving'
    <3>1. p \notin failed BY <1>3, <1>4 DEF IndInv, FailureHasCause
    <3>2. FailureHasCause'
      BY <1>2, <1>5, <1>6, <2>1, <2>2, <3>1 DEF IndInv, TypeOK, FailureHasCause
    <3> QED BY <1>5, <2>2, <3>2 DEF IndInv, ErrorsAreFailures, FailedIsLeaving, Held
  <2>3. ASSUME failed' = failed \cup {p}, errorsQ' = Append(errorsQ, p), phase'[p] = "dead"
        PROVE FailureHasCause' /\ ErrorsAreFailures' /\ FailedIsLeaving'
    <3>1. /\ Len(errorsQ') = Len(errorsQ) + 1
          /\ \A i \in 1..Len(errorsQ) : errorsQ'[i] = errorsQ[i]
          /\ errorsQ'[Len(errorsQ) + 1] = p
      BY <2>3, <1>2, AppendElements DEF TypeOK
    <3>2. FailureHasCause'
      BY <1>2, <1>5, <1>6, <2>1, <2>3 DEF IndInv, TypeOK, FailureHasCause
    <3>3. ErrorsAreFailures'
      BY <1>2, <2>3, <3>1 DEF IndInv, TypeOK, ErrorsAreFailures
    <3>4. FailedIsLeaving'
      <4> SUFFICES ASSUME NEW q \in Held(players)' \cap failed'
                   PROVE  \E i \in 1..Len(errorsQ') : errorsQ'[i] = q
        BY DEF FailedIsLeaving
      <4>1. CASE q = p
        BY <1>2, <3>1, <4>1 DEF TypeOK
      <4>2. CASE q # p
        <5>1. q \in Held(players) \cap failed BY <1>5, <2>3, <4>2 DEF Held
        <5>2. PICK i \in 1..Len(errorsQ) : errorsQ[i] = q
          BY <5>1 DEF IndInv, FailedIsLeaving
        <5> QED BY <1>2, <3>1, <5>2 DEF TypeOK
      <4> QED BY <4>1, <4>2
    <3> QED BY <3>2, <3>3, <3>4
  <2> QED BY <1>2, <1>3, <2>2, <2>3 DEF TypeOK, PlayerStep, InitAdvance, InitDone,
             InitCallFails, InitStreamFails
<1> QED BY <1>1, <1>7, <1>8, <1>9, <1>10 DEF IndInv

\* A Player in use fails: its error is queued in the same step.
LEMMA PlayerFailsStep ==
    ASSUME IndInv, NEW p \in Instances, PlayerFails(p) PROVE IndInv'
<1>1. TypeOK' BY TypeStep DEF IndInv, Next
<1>2. TypeOK BY DEF IndInv
<1>3. /\ failed' = failed \cup {p} /\ p \in everSent
      /\ UNCHANGED <<players, playersCh, timer, everSent, readyQ, owner, phase>>
  BY DEF PlayerFails, PlayerCallFails, PlayerStreamFails, threadVars
<1>4. /\ Len(errorsQ) \in Nat /\ Len(errorsQ') \in Nat /\ Len(errorsQ) < Len(errorsQ')
      /\ \A i \in 1..Len(errorsQ) : errorsQ'[i] = errorsQ[i]
      /\ \A i \in 1..Len(errorsQ') : i > Len(errorsQ) => errorsQ'[i] = p
  BY <1>2 DEF TypeOK, PlayerFails, PlayerCallFails, PlayerStreamFails
<1>5. PublishedOrPending' /\ Ownership' /\ ReadyIsFresh' /\ FailureHasCause'
  BY <1>3 DEF IndInv, PublishedOrPending, Ownership, ReadyIsFresh, FailureHasCause
<1>6. ErrorsAreFailures'
  BY <1>3, <1>4 DEF IndInv, ErrorsAreFailures
<1>7. FailedIsLeaving'
  <2> SUFFICES ASSUME NEW q \in Held(players)' \cap failed'
               PROVE  \E i \in 1..Len(errorsQ') : errorsQ'[i] = q
    BY DEF FailedIsLeaving
  <2>1. CASE q = p
    BY <1>4, <2>1
  <2>2. CASE q # p
    <3>1. q \in Held(players) \cap failed BY <1>3, <2>2 DEF Held
    <3>2. PICK i \in 1..Len(errorsQ) : errorsQ[i] = q
      BY <3>1 DEF IndInv, FailedIsLeaving
    <3> QED BY <1>4, <3>2
  <2> QED BY <2>1, <2>2
<1> QED BY <1>1, <1>5, <1>6, <1>7 DEF IndInv

\* An error takes out the failed Player and leaves every other failed Player
\* with its own error still queued.
LEMMA HandleErrorStep == ASSUME IndInv, HandleError PROVE IndInv'
<1>1. TypeOK' BY TypeStep DEF IndInv, Next, ThreadStep
<1>2. TypeOK BY DEF IndInv
<1> DEFINE p == Head(errorsQ)
<1>3. p \in Instances /\ errorsQ \in Seq(Instances) /\ errorsQ # <<>> /\ errorsQ' = Tail(errorsQ)
  BY <1>2, TailElements DEF HandleError, TypeOK
<1>4. ErrorsAreFailures'
  BY <1>3, TailElements DEF IndInv, HandleError, playerVars, ErrorsAreFailures
<1>5. UNCHANGED <<readyQ, owner, phase, failed>> BY DEF HandleError, playerVars
<1>6. CASE UNCHANGED threadVars /\ ~IsCurrent(p)
  <2>1. PublishedOrPending' /\ Ownership' /\ ReadyIsFresh' /\ FailureHasCause'
    BY <1>5, <1>6 DEF IndInv, threadVars, PublishedOrPending, Ownership,
       ReadyIsFresh, FailureHasCause
  <2>2. p \notin Held(players)
    <3>1. \A id \in Ids : players[id] = p => owner[p] = id
      BY <1>3, NoneAssumption DEF IndInv, Ownership
    <3> QED BY <1>6, <3>1 DEF IsCurrent, Held
  <2>3. FailedIsLeaving'
    BY <1>3, <1>5, <1>6, <2>2, TailContains DEF IndInv, threadVars, FailedIsLeaving, Held
  <2> QED BY <1>1, <1>4, <2>1, <2>3 DEF IndInv
<1>7. CASE /\ IsCurrent(p) /\ players' = [players EXCEPT ![owner[p]] = None]
           /\ Publish(players')
  <2>1. \A id \in Ids : players'[id] = None \/ (players'[id] = players[id] /\ players[id] # p)
    BY <1>2, <1>7 DEF IndInv, TypeOK, Tables, Ownership
  <2>2. Held(players') \subseteq Held(players) /\ p \notin Held(players')
    BY <1>3, <2>1, NoneAssumption DEF Held
  <2>3. \A q \in Held(players') : phase[q] = "ready" /\ (\E id \in Ids : players[id] = q)
    <3> SUFFICES ASSUME NEW id \in Ids, players'[id] # None
                 PROVE  phase[players'[id]] = "ready" /\ players[id] = players'[id]
      BY DEF Held
    <3> QED BY <2>1 DEF IndInv, Ownership
  <2>4. PublishedOrPending'
    BY <1>7 DEF Publish, PublishedOrPending
  <2>7. Ownership'
    BY <1>5, <2>1 DEF IndInv, Ownership
  <2>8. FailureHasCause'
    BY <1>5, <1>7, <2>3 DEF IndInv, Publish, FailureHasCause
  <2>5. ReadyIsFresh'
    <3> SUFFICES ASSUME NEW i \in 1..Len(readyQ), readyQ[i] # None
                 PROVE  /\ phase[readyQ[i]] = "ready"
                        /\ readyQ[i] \notin everSent'
                        /\ \A id \in Ids : players'[id] # readyQ[i]
                        /\ \A j \in 1..Len(readyQ) : readyQ[j] = readyQ[i] => j = i
      BY <1>5 DEF ReadyIsFresh
    <3>1. readyQ[i] \notin Held(players') BY <2>3 DEF IndInv, ReadyIsFresh
    <3> QED BY <1>7, <2>1, <3>1 DEF IndInv, ReadyIsFresh, Publish
  <2>6. FailedIsLeaving'
    <3> SUFFICES ASSUME NEW q \in Held(players') \cap failed
                 PROVE  \E i \in 1..Len(Tail(errorsQ)) : Tail(errorsQ)[i] = q
      BY <1>3, <1>5 DEF FailedIsLeaving, Held
    <3>1. q # p /\ \E i \in 1..Len(errorsQ) : errorsQ[i] = q
      BY <2>2 DEF IndInv, FailedIsLeaving
    <3> QED BY <1>3, <3>1, TailContains
  <2> QED BY <1>1, <1>4, <2>4, <2>5, <2>6, <2>7, <2>8 DEF IndInv
<1> QED BY <1>6, <1>7 DEF HandleError

\* A connected Player enters the table; the debounce timer is started.
LEMMA HandleReadyStep == ASSUME IndInv, HandleReady PROVE IndInv'
<1>1. TypeOK' BY TypeStep DEF IndInv, Next, ThreadStep
<1>2. TypeOK BY DEF IndInv
<1> DEFINE p == Head(readyQ)
<1>3. /\ p = readyQ[1] /\ p \in Instances \cup {None}
      /\ Len(readyQ) \in Nat \ {0} /\ 1 \in 1..Len(readyQ)
      /\ Len(readyQ') = Len(readyQ) - 1
      /\ \A i \in 1..Len(readyQ') : readyQ'[i] = readyQ[i + 1] /\ i + 1 \in 1..Len(readyQ)
  BY <1>2, TailElements DEF HandleReady, TypeOK
<1>4. UNCHANGED <<errorsQ, owner, phase, failed, playersCh, everSent>>
  BY DEF HandleReady, playerVars, threadVars
<1>5. ErrorsAreFailures' /\ FailureHasCause'
  BY <1>4 DEF IndInv, ErrorsAreFailures, FailureHasCause
<1>6. CASE p = None /\ UNCHANGED threadVars
  <2>1. PublishedOrPending' /\ Ownership' /\ FailedIsLeaving'
    BY <1>4, <1>6 DEF IndInv, threadVars, PublishedOrPending, Ownership, FailedIsLeaving, Held
  <2>2. ReadyIsFresh'
    BY <1>2, <1>3, <1>4, <1>6 DEF IndInv, TypeOK, threadVars, ReadyIsFresh
  <2> QED BY <1>1, <1>5, <2>1, <2>2 DEF IndInv
<1>7. CASE /\ p # None /\ players' = [players EXCEPT ![owner[p]] = p] /\ timer' = "armed"
  <2>1. p \in Instances /\ phase[p] = "ready" /\ p \notin everSent /\ owner[p] \in Ids
    <3>1. p \in Instances /\ phase[p] = "ready" /\ p \notin everSent
      BY <1>3, <1>7 DEF IndInv, ReadyIsFresh
    <3>2. owner[p] # None BY <3>1 DEF IndInv, Ownership
    <3> QED BY <1>2, <3>1, <3>2 DEF TypeOK
  <2>2. p \notin failed
    BY <2>1 DEF IndInv, FailureHasCause
  <2>3. \A id \in Ids : players'[id] = (IF id = owner[p] THEN p ELSE players[id])
    BY <1>2, <1>7, <2>1 DEF TypeOK, Tables
  <2>4. PublishedOrPending' BY <1>7 DEF PublishedOrPending
  <2>5. Ownership'
    <3>1. ASSUME NEW id \in Ids, players'[id] # None
          PROVE  owner[players'[id]] = id /\ phase[players'[id]] = "ready"
      <4>1. CASE id = owner[p] BY <2>1, <2>3, <4>1
      <4>2. CASE id # owner[p] BY <2>3, <3>1, <4>2 DEF IndInv, Ownership
      <4> QED BY <4>1, <4>2
    <3> QED BY <1>4, <3>1 DEF IndInv, Ownership
  <2>6. ReadyIsFresh'
    <3> SUFFICES ASSUME NEW i \in 1..Len(readyQ'), readyQ'[i] # None
                 PROVE  /\ phase[readyQ'[i]] = "ready"
                        /\ readyQ'[i] \notin everSent
                        /\ \A id \in Ids : players'[id] # readyQ'[i]
                        /\ \A j \in 1..Len(readyQ') : readyQ'[j] = readyQ'[i] => j = i
      BY <1>4 DEF ReadyIsFresh
    <3>1. i + 1 \in 1..Len(readyQ) /\ readyQ[i + 1] = readyQ'[i] /\ i + 1 # 1
      BY <1>3
    <3>2. readyQ'[i] # p
      BY <1>3, <3>1 DEF IndInv, ReadyIsFresh
    <3>3. \A j \in 1..Len(readyQ') : readyQ'[j] = readyQ'[i] => j = i
      <4> SUFFICES ASSUME NEW j \in 1..Len(readyQ'), readyQ'[j] = readyQ'[i] PROVE j = i
        OBVIOUS
      <4>1. j + 1 \in 1..Len(readyQ) /\ readyQ[j + 1] = readyQ[i + 1]
        BY <1>3, <3>1
      <4>2. j + 1 = i + 1
        BY <3>1, <4>1 DEF IndInv, ReadyIsFresh
      <4> QED BY <4>2
    <3> QED BY <2>3, <3>1, <3>2, <3>3 DEF IndInv, ReadyIsFresh
  <2>7. FailedIsLeaving'
    <3>1. \A q \in Held(players') : q = p \/ q \in Held(players)
      BY <2>3 DEF Held
    <3> QED BY <1>4, <2>2, <3>1 DEF IndInv, FailedIsLeaving, Held
  <2> QED BY <1>1, <1>5, <2>4, <2>5, <2>6, <2>7 DEF IndInv
<1> QED BY <1>6, <1>7 DEF HandleReady

\* Taking Players out of the table and publishing what is left.
LEMMA RemovalStep ==
    ASSUME IndInv, TypeOK', Publish(players'),
           \A id \in Ids : players'[id] \in {None, players[id]},
           UNCHANGED <<errorsQ, readyQ, owner, phase, failed>>
    PROVE  IndInv'
<1>1. \A q \in Held(players') : phase[q] = "ready" /\ q \in Held(players)
  <2> SUFFICES ASSUME NEW id \in Ids, players'[id] # None
               PROVE  phase[players'[id]] = "ready" /\ players'[id] \in Held(players)
    BY DEF Held
  <2> QED BY DEF IndInv, Ownership, Held
<1>2. PublishedOrPending' BY DEF Publish, PublishedOrPending
<1>3. Ownership' BY DEF IndInv, Ownership
<1>4. FailureHasCause' BY <1>1 DEF IndInv, Publish, FailureHasCause
<1>5. ErrorsAreFailures' BY DEF IndInv, ErrorsAreFailures
<1>6. FailedIsLeaving' BY <1>1 DEF IndInv, FailedIsLeaving, Held
<1>7. ReadyIsFresh'
  <2> SUFFICES ASSUME NEW i \in 1..Len(readyQ), readyQ[i] # None
               PROVE  /\ phase[readyQ[i]] = "ready"
                      /\ readyQ[i] \notin everSent'
                      /\ \A id \in Ids : players'[id] # readyQ[i]
                      /\ \A j \in 1..Len(readyQ) : readyQ[j] = readyQ[i] => j = i
    BY DEF ReadyIsFresh
  <2>1. \A id \in Ids : players[id] # readyQ[i] BY DEF IndInv, ReadyIsFresh
  <2>2. readyQ[i] \notin Held(players') BY <2>1 DEF Held
  <2> QED BY <2>1, <2>2 DEF IndInv, ReadyIsFresh, Publish
<1> QED BY <1>2, <1>3, <1>4, <1>5, <1>6, <1>7 DEF IndInv

\* The three commands of the manager.
LEMMA HandleCommandStep == ASSUME IndInv, HandleCommand PROVE IndInv'
<1>1. TypeOK' BY TypeStep DEF IndInv, Next, ThreadStep
<1>2. TypeOK BY DEF IndInv
<1> DEFINE c == Head(commandQ)
<1>3. c \in Commands BY <1>2, TailElements DEF HandleCommand, TypeOK
<1>4. UNCHANGED <<errorsQ, readyQ>> BY DEF HandleCommand
<1>5. ASSUME c.method = "add_player", AddPlayer(c.id), UNCHANGED threadVars
      PROVE  IndInv'
  <2>1. c.id \in Ids BY <1>3, <1>5 DEF Commands
  <2>2. CASE UNCHANGED playerVars
    BY <1>1, <1>4, <1>5, <2>2 DEF IndInv, threadVars, playerVars, PublishedOrPending,
       Ownership, ReadyIsFresh, FailureHasCause, ErrorsAreFailures, FailedIsLeaving
  <2>3. ASSUME NEW p \in Instances, phase[p] = "unused",
               owner' = [owner EXCEPT ![p] = c.id],
               phase' = [phase EXCEPT ![p] = "hello"], failed' = failed
        PROVE  IndInv'
    <3>1. /\ \A q \in Instances : q # p => owner'[q] = owner[q] /\ phase'[q] = phase[q]
          /\ owner'[p] = c.id /\ phase'[p] = "hello"
      BY <1>2, <2>3 DEF TypeOK
    <3>2. /\ \A id \in Ids : players[id] # p
          /\ p \notin everSent /\ p \notin failed
          /\ \A i \in 1..Len(readyQ) : readyQ[i] # p
      BY <2>3, NoneAssumption DEF IndInv, Ownership, FailureHasCause, ReadyIsFresh
    <3>3. UNCHANGED <<players, playersCh, timer, everSent>> BY <1>5 DEF threadVars
    <3>4. PublishedOrPending' /\ ErrorsAreFailures' /\ FailedIsLeaving'
      BY <1>4, <2>3, <3>3 DEF IndInv, PublishedOrPending, ErrorsAreFailures, FailedIsLeaving, Held
    <3>5. Ownership'
      <4>1. \A q \in Instances : (owner'[q] = None) <=> (phase'[q] = "unused")
        BY <2>1, <3>1, NoneAssumption DEF IndInv, Ownership
      <4>2. \A id \in Ids : players[id] # None => players[id] \in Instances
        BY <1>2 DEF TypeOK, Tables
      <4> QED BY <3>1, <3>2, <3>3, <4>1, <4>2 DEF IndInv, Ownership
    <3>6. FailureHasCause'
      BY <1>2, <2>3, <3>1, <3>2, <3>3 DEF IndInv, TypeOK, FailureHasCause
    <3>7. ReadyIsFresh'
      <4>1. \A i \in 1..Len(readyQ) : readyQ[i] # None => readyQ[i] \in Instances
        BY <1>2 DEF TypeOK
      <4> QED BY <1>4, <3>1, <3>2, <3>3, <4>1 DEF IndInv, ReadyIsFresh
    <3> QED BY <1>1, <3>4, <3>5, <3>6, <3>7 DEF IndInv
  <2> QED BY <1>5, <2>2, <2>3 DEF AddPlayer
<1>6. ASSUME RemovePlayer(c.id), UNCHANGED playerVars PROVE IndInv'
  <2>1. CASE UNCHANGED threadVars
    BY <1>1, <1>4, <1>6, <2>1 DEF IndInv, threadVars, playerVars, PublishedOrPending,
       Ownership, ReadyIsFresh, FailureHasCause, ErrorsAreFailures, FailedIsLeaving
  <2>2. CASE players' = [players EXCEPT ![c.id] = None] /\ Publish(players')
    <3>1. \A id \in Ids : players'[id] \in {None, players[id]}
      BY <1>2, <2>2 DEF TypeOK, Tables
    <3> QED BY <1>1, <1>4, <1>6, <2>2, <3>1, RemovalStep DEF playerVars
  <2> QED BY <1>6, <2>1, <2>2 DEF RemovePlayer
<1>7. ASSUME RemoveAllPlayers, UNCHANGED playerVars PROVE IndInv'
  <2>1. \A id \in Ids : players'[id] \in {None, players[id]}
    BY <1>7 DEF RemoveAllPlayers
  <2> QED BY <1>1, <1>4, <1>7, <2>1, RemovalStep DEF RemoveAllPlayers, playerVars
<1> QED BY <1>5, <1>6, <1>7 DEF HandleCommand

\* The debounce timer expires with nothing else to do.
LEMMA HandleTimeoutStep == ASSUME IndInv, HandleTimeout PROVE IndInv'
<1>1. TypeOK' BY TypeStep DEF IndInv, Next, ThreadStep
<1>2. Publish(players') /\ \A id \in Ids : players'[id] \in {None, players[id]}
  BY DEF HandleTimeout
<1> QED BY <1>1, <1>2, RemovalStep DEF HandleTimeout, playerVars

\* The strengthened invariant is inductive.
LEMMA IndInvStep == IndInv /\ [Next]_vars => IndInv'
<1> SUFFICES ASSUME IndInv, [Next]_vars PROVE IndInv' OBVIOUS
<1>1. CASE UNCHANGED vars
  <2>1. TypeOK' BY TypeStep DEF IndInv
  <2> QED BY <1>1, <2>1 DEF vars, IndInv, PublishedOrPending, Ownership, ReadyIsFresh,
          FailureHasCause, ErrorsAreFailures, FailedIsLeaving, Held
<1>2. CASE Next
  BY <1>2, SendCommandStep, TimerStep, PlayerInitStep, PlayerFailsStep, HandleErrorStep,
     HandleReadyStep, HandleCommandStep, HandleTimeoutStep DEF Next, ThreadStep
<1> QED BY <1>1, <1>2

LEMMA IndInvInit == Init => IndInv
<1> SUFFICES ASSUME Init PROVE IndInv OBVIOUS
<1>1. TypeOK BY DEF Init, TypeOK, Tables, Phases
<1>2. Held(players) = {} BY DEF Init, Held
<1> QED BY <1>1, <1>2 DEF Init, IndInv, PublishedOrPending, Ownership, ReadyIsFresh,
        FailureHasCause, ErrorsAreFailures, FailedIsLeaving

\* Taking the head of a queue is neither leaving it alone nor adding to it.
LEMMA TailDiffers ==
    ASSUME NEW S, NEW s \in Seq(S), s # <<>>
    PROVE  /\ Tail(s) # s
           /\ \A q \in S : Tail(s) # Append(s, q) /\ Tail(s) # s \o <<q, q>>
<1>1. Len(Tail(s)) = Len(s) - 1 /\ Len(s) \in Nat OBVIOUS
<1>2. \A q \in S : Len(Append(s, q)) = Len(s) + 1 /\ Len(s \o <<q, q>>) = Len(s) + 2
  OBVIOUS
<1>3. \A n \in Nat : n - 1 # n /\ n - 1 # n + 1 /\ n - 1 # n + 2 OBVIOUS
<1>4. Len(Tail(s)) # Len(s) BY <1>1, <1>3, Zenon
<1>5. \A q \in S : /\ Len(Tail(s)) # Len(Append(s, q))
                   /\ Len(Tail(s)) # Len(s \o <<q, q>>)
  BY <1>1, <1>2, <1>3, Zenon
<1> QED BY <1>4, <1>5, Zenon

\* Every reachable state satisfies the strengthened invariant.
THEOREM Inductive == Spec => []IndInv
<1> QED BY IndInvInit, IndInvStep, PTL DEF Spec

\* Type correctness of players_thread's state.
THEOREM TypeCorrect == Spec => []TypeOK
<1>1. IndInv => TypeOK BY DEF IndInv
<1> QED BY <1>1, Inductive, PTL

\* players_thread never leaves the other threads with an outdated table and
\* no timer that would correct it.
THEOREM NeverOutdated == Spec => []PublishedOrPending
<1>1. IndInv => PublishedOrPending BY DEF IndInv
<1> QED BY <1>1, Inductive, PTL

\* A failed Player in the table always has its error queued.
THEOREM FailuresLeave == Spec => []FailedIsLeaving
<1>1. IndInv => FailedIsLeaving BY DEF IndInv
<1> QED BY <1>1, Inductive, PTL

\* An error in player_errors_ch never removes a healthy Player, in particular
\* not the one that replaced the Player that failed.
THEOREM StaleErrorsAreHarmless == Spec => OnlyFailedPlayersAreDropped
<1>1. IndInv /\ [Next]_vars
        => [errorsQ # <<>> /\ errorsQ' = Tail(errorsQ)
              => \A p \in Held(players) \ Held(players') : p \in failed]_vars
  <2> SUFFICES ASSUME IndInv, Next, errorsQ # <<>>, errorsQ' = Tail(errorsQ),
                      NEW p \in Held(players) \ Held(players')
               PROVE  p \in failed
    BY DEF vars, Held
  <2>1. errorsQ \in Seq(Instances) BY DEF IndInv, TypeOK
  <2>3. HandleError
    <3>3. errorsQ' # errorsQ
      BY <2>1, TailDiffers
    <3>4. \A q \in Instances : errorsQ' # Append(errorsQ, q)
      BY <2>1, TailDiffers
    <3>5. ASSUME NEW c \in Commands PROVE ~SendCommand(c)
      BY <3>3 DEF SendCommand
    <3>6. ASSUME NEW q \in Instances PROVE ~PlayerStep(q)
      BY <3>3, <3>4 DEF PlayerStep, InitAdvance, InitDone, InitCallFails, InitStreamFails
    <3>7. ASSUME NEW q \in Instances PROVE ~PlayerFails(q)
      BY <2>1, <3>4, TailDiffers DEF PlayerFails, PlayerCallFails, PlayerStreamFails
    <3>8. ~TimerFires
      BY <3>3 DEF TimerFires
    <3>9. ~HandleReady /\ ~HandleCommand /\ ~HandleTimeout
      BY DEF HandleReady, HandleCommand, HandleTimeout
    <3> QED BY <3>5, <3>6, <3>7, <3>8, <3>9 DEF Next, ThreadStep
  <2>4. Head(errorsQ) \in failed
    BY <2>1, TailElements DEF IndInv, ErrorsAreFailures
  <2>5. p = Head(errorsQ)
    <3>1. PICK id \in Ids : players[id] = p BY DEF Held
    <3>2. players'[id] # p BY <3>1 DEF Held
    <3>3. players' = [players EXCEPT ![owner[Head(errorsQ)]] = None] /\ IsCurrent(Head(errorsQ))
      BY <2>3, <3>1, <3>2 DEF HandleError, threadVars
    <3> QED BY <3>1, <3>2, <3>3 DEF IndInv, TypeOK, Tables, IsCurrent
  <2> QED BY <2>4, <2>5
<1> QED BY <1>1, Inductive, PTL DEF Spec, OnlyFailedPlayersAreDropped
=============================================================================
