-------------------------- MODULE P2pcdEngine_proofs --------------------------
(* Theorems about P2pcdEngine, for any number of peers and sockets.           *)
EXTENDS P2pcdEngine, TLAPS

USE DEF ConnOrNone, SessionStates, RunnerPcs, WindowPcs, DropPcs, SetupPcs, TearPcs,
        TearKinds, RbPcs

LEMMA RbNextType ==
  ASSUME NEW todo \in SUBSET Peer
  PROVE  RbNext(todo) \in RbStates
BY DEF RbNext, IdleRb, RbStates

--------------------------------------------------------------------------------
(* Type correctness.                                                          *)

LEMMA InitType == Init => TypeOK
  BY ConnAssumption DEF Init, TypeOK, IdleRb, RbStates

LEMMA StepType == ASSUME TypeOK, [Next]_vars PROVE TypeOK'
<1> USE ParamAssumption
<1> USE DEF TypeOK, RbStates, table, maps, sockets, runner, teardown
<1>1. ASSUME NEW c \in Conn, ExchangeFails(c) \/ ExchangeEnds(c) PROVE TypeOK'
  BY <1>1 DEF ExchangeFails, ExchangeEnds, Goto
<1>2. ASSUME NEW c \in Conn, GlareCheck(c) PROVE TypeOK'
  BY <1>2 DEF GlareCheck, Goto, SetupPc, Enter
<1>3. ASSUME NEW c \in Conn, Yield(c) PROVE TypeOK'
  BY <1>3 DEF Yield, Goto
<1>4. ASSUME NEW c \in Conn, RunnerDrops(c) PROVE TypeOK'
  BY <1>4 DEF RunnerDrops, DropHb, DropSenders, DropMux, Goto, SetupPc
<1>5. ASSUME NEW c \in Conn, SetSenders(c) \/ SetMux(c) \/ SetHb(c) PROVE TypeOK'
  BY <1>5 DEF SetSenders, SetMux, SetHb, Goto
<1>6. ASSUME NEW c \in Conn, NotifyActive(c) PROVE TypeOK'
  <2>1. told' \in [Peer -> BOOLEAN]
    <3>1. PICK resolved \in BOOLEAN :
            told' = [told EXCEPT ![rpeer[c]] = told[rpeer[c]] \/ resolved]
      BY <1>6, Zenon DEF NotifyActive
    <3>2. (told[rpeer[c]] \/ resolved) \in BOOLEAN
      OBVIOUS
    <3>3. QED
      BY <3>1, <3>2
  <2>2. UNCHANGED <<sessions, held, cache, senders, muxHandle, hbHandle, sockets,
                    runner, teardown, evict, rb, raced>>
    BY <1>6 DEF NotifyActive
  <2>3. /\ handlers' \in [Peer -> ConnOrNone]
        /\ rpc' \in [Conn -> RunnerPcs]
    BY <1>6 DEF NotifyActive, Goto
  <2>4. QED
    BY <2>1, <2>2, <2>3
<1>7. ASSUME NEW c \in Conn, RecordOutcome(c) \/ InsertSession(c) PROVE TypeOK'
  BY <1>7 DEF RecordOutcome, InsertSession, Goto
<1>8. ASSUME NEW p \in Peer, NEW c \in Conn, OnPeerVisible(p, c) \/ Accept(p, c)
      PROVE TypeOK'
  <2>1. PICK initiator \in BOOLEAN : StartRunner(c, p, initiator)
    BY <1>8 DEF OnPeerVisible, Accept
  <2>2. QED
    BY <2>1 DEF StartRunner, Goto
<1>9. ASSUME NEW c \in Conn, OnHbTimeout(c) PROVE TypeOK'
  BY <1>9 DEF OnHbTimeout, StartTeardown, Enter
<1>10. ASSUME NEW p \in Peer, OnWgDown(p) \/ OnDeny(p) PROVE TypeOK'
  <2>1. PICK a \in Agents, kind \in TearKinds : StartTeardown(a, p, kind)
    BY <1>10 DEF OnWgDown, OnDeny
  <2>2. hbq' = hbq
    BY <1>10 DEF OnWgDown, OnDeny
  <2>3. QED
    BY <2>1, <2>2 DEF StartTeardown, Enter
<1>11. ASSUME NEW a \in Agents, TearDrops(a) PROVE TypeOK'
  BY <1>11 DEF TearDrops, DropHb, DropSenders, DropMux, TearGoto
<1>12. ASSUME NEW a \in Agents, TakeSession(a) PROVE TypeOK'
  BY <1>12 DEF TakeSession, TearGoto
<1>13. ASSUME NEW a \in Agents, NotifyInactive(a) PROVE TypeOK'
  BY <1>13 DEF NotifyInactive, TearGoto
<1>14. ASSUME NEW a \in Agents, FinishTeardown(a) PROVE TypeOK'
  BY <1>14 DEF FinishTeardown, RemoveSession, SetCache, TearGoto
<1>15. CASE RbStart
  BY <1>15 DEF RbStart, Enter
<1>16. CASE RbOldSet \/ RbExchange \/ \E p \in Peer : RbPick(p)
  <2> HIDE DEF RbStates
  <2> RbNext(rb.todo) \in RbStates /\ \A p \in Peer : RbNext(rb.todo \ {p}) \in RbStates
    BY RbNextType DEF RbStates
  <2>1. CASE RbOldSet
    BY <2>1 DEF RbOldSet, RbStates
  <2>2. CASE RbExchange
    <3>1. CASE rb' = RbNext(rb.todo)
      BY <2>2, <3>1 DEF RbExchange
    <3>2. CASE \E out \in Outcomes : rb' = [rb EXCEPT !.pc = "record", !.out = out]
      <4>1. PICK out \in {"Active", "None"} : rb' = [rb EXCEPT !.pc = "record", !.out = out]
        BY <3>2
      <4>2. rb' \in RbStates
        BY <4>1 DEF RbStates
      <4>3. UNCHANGED <<table, maps, sockets, rpc, runner, teardown, evict, raced>>
        BY <2>2 DEF RbExchange
      <4>4. QED
        BY <4>2, <4>3
    <3>3. QED
      BY <2>2, <3>1, <3>2 DEF RbExchange
  <2>3. ASSUME NEW p \in Peer, RbPick(p) PROVE TypeOK'
    BY <2>3 DEF RbPick, RbStates
  <2>4. QED
    BY <1>16, <2>1, <2>2, <2>3
<1>17. CASE RbFinish
  <2>1. CASE rb.pc = "record"
    BY <1>17, <2>1 DEF RbFinish, SetCache
  <2>2. CASE rb.pc = "notify"
    <3>1. /\ told' = [told EXCEPT ![rb.peer] = told[rb.peer] /\ ~(rb.old /\ rb.out # "Active")]
          /\ rb' = [rb EXCEPT !.pc = "insert"]
          /\ UNCHANGED <<sessions, held, cache, maps, sockets, rpc, runner, teardown,
                         evict, raced>>
      BY <1>17, <2>2 DEF RbFinish
    <3>2. (told[rb.peer] /\ ~(rb.old /\ rb.out # "Active")) \in BOOLEAN
      OBVIOUS
    <3>3. told' \in [Peer -> BOOLEAN]
      BY <3>1, <3>2
    <3>4. QED
      BY <3>1, <3>3
  <2>3. CASE rb.pc = "insert"
    <3>1. rb' \in RbStates
      BY <1>17, <2>3, RbNextType DEF RbFinish
    <3>2. /\ sessions' \in [Peer -> SessionStates]
          /\ held' \in [Peer -> ConnOrNone]
      BY <1>17, <2>3 DEF RbFinish
    <3>3. UNCHANGED <<cache, told, maps, sockets, rpc, runner, teardown, evict, raced>>
      BY <1>17, <2>3 DEF RbFinish
    <3>4. QED
      BY <3>1, <3>2, <3>3
  <2>4. QED
    BY <1>17, <2>1, <2>2, <2>3 DEF RbFinish
<1>18. ASSUME NEW c \in Conn, SocketBreaks(c) \/ WriterEnds(c) \/ HbTimeout(c)
       PROVE TypeOK'
  BY <1>18 DEF SocketBreaks, WriterEnds, HbTimeout
<1>19. ASSUME NEW p \in Peer, SendFails(p) \/ SendEvicts(p) \/ CacheLapses(p)
       PROVE TypeOK'
  <2>1. CASE SendFails(p)
    BY <2>1 DEF SendFails, Enter
  <2>2. CASE SendEvicts(p) \/ CacheLapses(p)
    BY <2>2 DEF SendEvicts, CacheLapses, DropSenders, SetCache
  <2>3. QED
    BY <1>19, <2>1, <2>2
<1>20. CASE UNCHANGED vars
  BY <1>20 DEF vars
<1>21. QED
  BY <1>1, <1>2, <1>3, <1>4, <1>5, <1>6, <1>7, <1>8, <1>9, <1>10, <1>11, <1>12,
     <1>13, <1>14, <1>15, <1>16, <1>17, <1>18, <1>19, <1>20
     DEF Next, Runner, Teardown, Rebroadcast, Environment

(* Every variable keeps its type: no runner, teardown or rebroadcast leaves   *)
(* its code, and no table gets an entry of another kind.                      *)
THEOREM TypeCorrect == Spec => []TypeOK
  BY InitType, StepType, PTL DEF Spec

--------------------------------------------------------------------------------
(* Invariants of the engine's maps.                                           *)

\* A runner that sets up or has set up a socket agreed on something.
SetupVetted ==
  \A c \in Conn : rpc[c] \in SetupPcs => rout[c] = "Active"

\* Runners, teardowns, mux and heartbeat tasks are about a peer.
TargetsKnown ==
  /\ \A c \in Conn : rpc[c] # "unused" => rpeer[c] \in Peer
  /\ \A a \in Agents : tpc[a] # "idle" => tpeer[a] \in Peer
  /\ \A c \in hbUp \cup hbq \cup muxUp : rpc[c] # "unused"

\* A heartbeat handle stored for p is the handle of one of p's sockets.
HbHandleOwned ==
  \A p \in Peer : hbHandle[p] # NoConn =>
    rpeer[hbHandle[p]] = p /\ rpc[hbHandle[p]] # "unused"

\* Two peers never share a socket, so aborting the heartbeat stored for one peer
\* cannot stop the task that watches another one: without HbHandleOwned and
\* SendersVetted the watch would not be preserved by somebody else's teardown.
Inv ==
  TypeOK /\ SetupVetted /\ TargetsKnown /\ SendersVetted /\ HbHandleOwned /\ InUseIsWatched

LEMMA InitInv == Init => Inv
  BY InitType, ConnAssumption
     DEF Init, Inv, SetupVetted, TargetsKnown, SendersVetted, HbHandleOwned, InUseIsWatched

\* Where a runner stands once its socket may be in peer_senders.
WiredPcs == {"setMux", "setHb", "notify", "record", "insert", "done"}

\* What a step may do to the runners.
RunnersStep ==
  \A c \in Conn :
    /\ rpc[c] # "unused" => rpeer'[c] = rpeer[c] /\ rpc'[c] # "unused"
    /\ rpc[c] = "unused" /\ rpc'[c] # "unused" => rpeer'[c] \in Peer
    /\ rpc[c] \notin {"unused", "exchange"} => rout'[c] = rout[c] /\ rhb'[c] = rhb[c]
    /\ rpc[c] \in WiredPcs => rpc'[c] \in WiredPcs
    /\ rpc'[c] \in SetupPcs => rpc[c] \in SetupPcs \/ rout'[c] = "Active"

\* What a step may do to peer_senders ...
SendersStep ==
  \A p \in Peer :
    \/ senders'[p] \in {senders[p], NoConn}
    \/ rpc[senders'[p]] = "setSenders" /\ rpc'[senders'[p]] = "setMux"
       /\ rpeer[senders'[p]] = p

\* ... and to heartbeat_handles.
HbHandleStep ==
  \A p \in Peer :
    \/ hbHandle'[p] \in {hbHandle[p], NoConn}
    \/ rpc[hbHandle'[p]] = "setHb" /\ rpeer[hbHandle'[p]] = p

\* Where a new teardown gets its peer, and a new task or Timeout its socket.
TargetsStep ==
  /\ \A a \in Agents : tpc'[a] # "idle" =>
       \/ tpc[a] # "idle" /\ tpeer'[a] = tpeer[a]
       \/ tpeer'[a] \in Peer
       \/ \E c \in hbq : tpeer'[a] = rpeer[c]
  /\ \A c \in hbUp' \cup hbq' \cup muxUp' :
       c \in hbUp \cup hbq \cup muxUp \/ rpc[c] \in {"setHb", "setSenders"}

StepFacts == RunnersStep /\ SendersStep /\ HbHandleStep /\ TargetsStep

LEMMA StepEffect == ASSUME TypeOK, [Next]_vars PROVE StepFacts
<1> USE DEF TypeOK, StepFacts, RunnersStep, SendersStep, HbHandleStep, TargetsStep, WiredPcs,
            table, maps, sockets, runner, teardown
<1>1. ASSUME NEW c \in Conn, ExchangeFails(c) \/ ExchangeEnds(c) PROVE StepFacts
  BY <1>1 DEF ExchangeFails, ExchangeEnds, Goto
<1>2. ASSUME NEW c \in Conn, GlareCheck(c) PROVE StepFacts
  BY <1>2 DEF GlareCheck, Goto, SetupPc
<1>3. ASSUME NEW c \in Conn, Yield(c) PROVE StepFacts
  BY <1>3 DEF Yield, Goto
<1>4. ASSUME NEW c \in Conn, RunnerDrops(c) PROVE StepFacts
  BY <1>4 DEF RunnerDrops, DropHb, DropSenders, DropMux, Goto, SetupPc
<1>5. ASSUME NEW c \in Conn, SetSenders(c) \/ SetMux(c) \/ SetHb(c) PROVE StepFacts
  BY <1>5 DEF SetSenders, SetMux, SetHb, Goto
<1>6. ASSUME NEW c \in Conn, NotifyActive(c) \/ RecordOutcome(c) \/ InsertSession(c)
      PROVE StepFacts
  BY <1>6 DEF NotifyActive, RecordOutcome, InsertSession, Goto
<1>7. ASSUME NEW p \in Peer, NEW c \in Conn, OnPeerVisible(p, c) \/ Accept(p, c)
      PROVE StepFacts
  <2>1. PICK initiator \in BOOLEAN : StartRunner(c, p, initiator)
    BY <1>7 DEF OnPeerVisible, Accept
  <2>2. QED
    BY <2>1 DEF StartRunner, Goto
<1>8. ASSUME NEW c \in Conn, OnHbTimeout(c) PROVE StepFacts
  BY <1>8 DEF OnHbTimeout, StartTeardown
<1>9. ASSUME NEW p \in Peer, OnWgDown(p) \/ OnDeny(p) PROVE StepFacts
  BY <1>9 DEF OnWgDown, OnDeny, StartTeardown
<1>10. ASSUME NEW a \in Agents, TearDrops(a) PROVE StepFacts
  BY <1>10 DEF TearDrops, DropHb, DropSenders, DropMux, TearGoto
<1>11. ASSUME NEW a \in Agents, TakeSession(a) \/ NotifyInactive(a) \/ FinishTeardown(a)
       PROVE StepFacts
  BY <1>11 DEF TakeSession, NotifyInactive, FinishTeardown, TearGoto
<1>12. CASE RbStart \/ Rebroadcast
  BY <1>12 DEF RbStart, Rebroadcast, RbOldSet, RbExchange, RbPick, RbFinish
<1>13. CASE Environment
  BY <1>13 DEF Environment, SocketBreaks, WriterEnds, HbTimeout, SendFails, SendEvicts,
     CacheLapses, DropSenders, SetCache
<1>14. CASE UNCHANGED vars
  BY <1>14 DEF vars
<1>15. QED
  BY <1>1, <1>2, <1>3, <1>4, <1>5, <1>6, <1>7, <1>8, <1>9, <1>10, <1>11, <1>12, <1>13,
     <1>14 DEF Next, Runner, Teardown

LEMMA VettedStep ==
  ASSUME TypeOK, TypeOK', SetupVetted, TargetsKnown, SendersVetted, HbHandleOwned,
         [Next]_vars
  PROVE  SetupVetted' /\ TargetsKnown' /\ SendersVetted' /\ HbHandleOwned'
<1> USE DEF TypeOK, WiredPcs
<1>1. StepFacts
  BY StepEffect
<1>2. SetupVetted'
  BY <1>1 DEF StepFacts, RunnersStep, SetupVetted
<1>3. SendersVetted'
  <2> SUFFICES ASSUME NEW p \in Peer, senders'[p] # NoConn
               PROVE  /\ rpeer'[senders'[p]] = p
                      /\ rout'[senders'[p]] = "Active"
                      /\ rpc'[senders'[p]] \in WiredPcs
    BY DEF SendersVetted
  <2>1. CASE senders'[p] = senders[p]
    BY <1>1, <2>1 DEF StepFacts, RunnersStep, SendersVetted
  <2>2. CASE rpc[senders'[p]] = "setSenders" /\ rpc'[senders'[p]] = "setMux"
             /\ rpeer[senders'[p]] = p
    BY <1>1, <2>2 DEF StepFacts, RunnersStep, SetupVetted
  <2>3. QED
    BY <1>1, <2>1, <2>2 DEF StepFacts, SendersStep
<1>4. HbHandleOwned'
  BY <1>1 DEF StepFacts, RunnersStep, HbHandleStep, HbHandleOwned
<1>5. TargetsKnown'
  BY <1>1, SMTT(30) DEF StepFacts, RunnersStep, TargetsStep, TargetsKnown
<1>6. QED
  BY <1>2, <1>3, <1>4, <1>5

\* The heartbeat watch of p is in order.
Watched(p) ==
  senders[p] # NoConn /\ rhb[senders[p]] =>
    \/ senders[p] \in hbUp \cup hbq
    \/ rpc[senders[p]] \in {"setMux", "setHb"}
    \/ RemovingSender(p)

\* One case per action that touches the watch.  The interesting ones are those
\* that drop a heartbeat: for p itself a removal of the sender is under way, and
\* for another peer HbHandleOwned says that the handle is not p's.
LEMMA WatchedStep ==
  ASSUME TypeOK, TargetsKnown, SendersVetted, HbHandleOwned, InUseIsWatched, [Next]_vars,
         NEW p \in Peer
  PROVE  Watched(p)'
<1> USE DEF TypeOK, Watched, RemovingSender, table, maps, sockets, runner, teardown
<1>1. Watched(p)
  BY DEF InUseIsWatched
<1>2. /\ senders[p] # NoConn => /\ senders[p] \in Conn
                               /\ rpeer[senders[p]] = p
                               /\ rpc[senders[p]] \in WiredPcs
      /\ \A q \in Peer : hbHandle[q] # NoConn => rpeer[hbHandle[q]] = q
  BY DEF SendersVetted, HbHandleOwned, WiredPcs
<1> USE <1>1, <1>2 DEF WiredPcs
<1>3. ASSUME NEW c \in Conn, ExchangeFails(c) \/ ExchangeEnds(c) PROVE Watched(p)'
  BY <1>3 DEF ExchangeFails, ExchangeEnds, Goto
<1>4. ASSUME NEW c \in Conn, GlareCheck(c) PROVE Watched(p)'
  BY <1>4 DEF GlareCheck, Goto, SetupPc
<1>5. ASSUME NEW c \in Conn, Yield(c) PROVE Watched(p)'
  BY <1>5 DEF Yield, Goto
<1>6. ASSUME NEW c \in Conn, RunnerDrops(c) PROVE Watched(p)'
  <2>1. CASE rpc[c] = "dropHb"
    <3>1. rpeer[c] \in Peer
      BY <2>1 DEF TargetsKnown
    <3>2. CASE rpeer[c] = p
      BY <1>6, <2>1, <3>2 DEF RunnerDrops, DropHb, Goto
    <3>3. CASE rpeer[c] # p
      BY <1>6, <2>1, <3>1, <3>3 DEF RunnerDrops, DropHb, Goto
    <3>4. QED
      BY <3>2, <3>3
  <2>2. CASE rpc[c] = "dropSenders"
    BY <1>6, <2>2 DEF RunnerDrops, DropSenders, Goto
  <2>3. CASE rpc[c] = "dropMux"
    BY <1>6, <2>3 DEF RunnerDrops, DropMux, Goto, SetupPc
  <2>4. QED
    BY <1>6, <2>1, <2>2, <2>3 DEF RunnerDrops
<1>7. ASSUME NEW c \in Conn, SetSenders(c) PROVE Watched(p)'
  BY <1>7 DEF SetSenders, Goto
<1>8. ASSUME NEW c \in Conn, SetMux(c) \/ SetHb(c) PROVE Watched(p)'
  BY <1>8 DEF SetMux, SetHb, Goto
<1>9. ASSUME NEW c \in Conn, NotifyActive(c) \/ RecordOutcome(c) \/ InsertSession(c)
      PROVE Watched(p)'
  BY <1>9 DEF NotifyActive, RecordOutcome, InsertSession, Goto
<1>10. ASSUME NEW q \in Peer, NEW c \in Conn, OnPeerVisible(q, c) \/ Accept(q, c)
       PROVE Watched(p)'
  <2>1. PICK initiator \in BOOLEAN : StartRunner(c, q, initiator)
    BY <1>10 DEF OnPeerVisible, Accept
  <2>2. QED
    BY <2>1 DEF StartRunner, Goto
<1>11. ASSUME NEW c \in Conn, OnHbTimeout(c) PROVE Watched(p)'
  BY <1>11 DEF OnHbTimeout, StartTeardown
<1>12. ASSUME NEW q \in Peer, OnWgDown(q) \/ OnDeny(q) PROVE Watched(p)'
  <2>1. PICK a \in Agents, kind \in TearKinds : StartTeardown(a, q, kind)
    BY <1>12 DEF OnWgDown, OnDeny
  <2>2. hbq' = hbq
    BY <1>12 DEF OnWgDown, OnDeny
  <2>3. QED
    BY <2>1, <2>2 DEF StartTeardown
<1>13. ASSUME NEW a \in Agents, TearDrops(a) PROVE Watched(p)'
  <2>1. CASE tpc[a] = "hb"
    <3>1. tpeer[a] \in Peer
      BY <2>1 DEF TargetsKnown
    <3>2. CASE tpeer[a] = p
      BY <1>13, <2>1, <3>2 DEF TearDrops, DropHb, TearGoto
    <3>3. CASE tpeer[a] # p
      BY <1>13, <2>1, <3>1, <3>3 DEF TearDrops, DropHb, TearGoto
    <3>4. QED
      BY <3>2, <3>3
  <2>2. CASE tpc[a] = "senders"
    BY <1>13, <2>2 DEF TearDrops, DropSenders, TearGoto
  <2>3. CASE tpc[a] = "mux"
    BY <1>13, <2>3 DEF TearDrops, DropMux, TearGoto
  <2>4. QED
    BY <1>13, <2>1, <2>2, <2>3 DEF TearDrops
<1>14. ASSUME NEW a \in Agents, TakeSession(a) \/ NotifyInactive(a) \/ FinishTeardown(a)
       PROVE Watched(p)'
  BY <1>14 DEF TakeSession, NotifyInactive, FinishTeardown, TearGoto
<1>15. CASE RbStart \/ Rebroadcast
  BY <1>15, ZenonT(40) DEF RbStart, Rebroadcast, RbOldSet, RbExchange, RbPick, RbFinish
<1>16. CASE Environment
  <2>1. ASSUME NEW c \in Conn, SocketBreaks(c) \/ WriterEnds(c) \/ HbTimeout(c)
        PROVE Watched(p)'
    BY <2>1 DEF SocketBreaks, WriterEnds, HbTimeout
  <2>2. ASSUME NEW q \in Peer, SendFails(q) \/ SendEvicts(q) \/ CacheLapses(q)
        PROVE Watched(p)'
    BY <2>2 DEF SendFails, SendEvicts, CacheLapses, DropSenders, SetCache
  <2>3. QED
    BY <1>16, <2>1, <2>2 DEF Environment
<1>17. CASE UNCHANGED vars
  BY <1>17 DEF vars
<1>18. QED
  BY <1>3, <1>4, <1>5, <1>6, <1>7, <1>8, <1>9, <1>10, <1>11, <1>12, <1>13, <1>14, <1>15,
     <1>16, <1>17 DEF Next, Runner, Teardown

THEOREM InvInductive == Spec => []Inv
<1>1. Init => Inv
  BY InitInv
<1>2. ASSUME Inv, [Next]_vars PROVE Inv'
  <2>1. TypeOK'
    BY <1>2, StepType DEF Inv
  <2>2. SetupVetted' /\ TargetsKnown' /\ SendersVetted' /\ HbHandleOwned'
    BY <1>2, <2>1, VettedStep DEF Inv
  <2>3. InUseIsWatched'
    BY <1>2, WatchedStep DEF Inv, InUseIsWatched, Watched
  <2>4. QED
    BY <2>1, <2>2, <2>3 DEF Inv
<1>3. QED
  BY <1>1, <1>2, PTL DEF Spec

(* What send_to_peer finds for a peer is a socket of that peer on which the   *)
(* exchange agreed on something, however runners and teardowns interleave.    *)
THEOREM SendersAreVetted == Spec => []SendersVetted
  BY InvInductive, PTL DEF Inv

(* The socket in use is never left without somebody who would notice that it  *)
(* died: the heartbeat side of every glare replacement and every teardown.    *)
THEOREM SocketInUseIsWatched == Spec => []InUseIsWatched
  BY InvInductive, PTL DEF Inv

--------------------------------------------------------------------------------
(* Serial activities.  As long as the activities of a peer did not overlap,   *)
(* the program counter of the one that is under way says how far the maps of  *)
(* the peer may be from agreeing.                                             *)

\* The activities of a peer; the fourth is the eviction of its sender.
Runs(c, p)   == rpeer[c] = p /\ rpc[c] \in WindowPcs
Tears(a, p)  == tpeer[a] = p /\ tpc[a] # "idle"
Reoffered(p) == p \in rb.todo \/ rb.peer = p

\* At most one is under way.
Alone(p) ==
  /\ \A c, d \in Conn : Runs(c, p) /\ Runs(d, p) => c = d
  /\ \A a, b \in Agents : Tears(a, p) /\ Tears(b, p) => a = b
  /\ \A c \in Conn : Runs(c, p) =>
       (\A a \in Agents : ~Tears(a, p)) /\ ~Reoffered(p) /\ p \notin evict
  /\ \A a \in Agents : Tears(a, p) => ~Reoffered(p) /\ p \notin evict
  /\ ~(Reoffered(p) /\ p \in evict)

RunnerAt(p, pcs) == \E c \in Conn : Runs(c, p) /\ rpc[c] \in pcs
TearAt(p, pc) == \E a \in Agents : Tears(a, p) /\ tpc[a] = pc

\* The multiplexer is gone, or nobody can write to its socket.
Spent(p) == muxHandle[p] \in closed \cup {NoConn}

\* No heartbeat of a live socket of p runs, and none is tracked.
NoBeat(p) == hbHandle[p] = NoConn /\ \A c \in hbUp \ closed : rpeer[c] # p

\* The maps agree but for what the activity has yet to do.
Agree(p) ==
  /\ senders[p] \in {NoConn, muxHandle[p]} \/ RunnerAt(p, {"setMux"})
  /\ handlers[p] = muxHandle[p] \/ RunnerAt(p, {"setHb", "notify"})
  /\ hbHandle[p] \in {NoConn, muxHandle[p]} \cup closed
  /\ \A c \in hbUp \ closed : rpeer[c] = p => c = muxHandle[p] /\ hbHandle[p] = c
  /\ \A c \in muxUp \ closed : rpeer[c] = p => c = muxHandle[p] \/ rpc[c] = "setMux"
  /\ senders[p] = NoConn => Spent(p) \/ RunnerAt(p, {"dropMux"}) \/ TearAt(p, "mux")
  /\ sessions[p] = "Active" =>
       \/ muxHandle[p] # NoConn
       \/ RunnerAt(p, {"setSenders", "setMux"})
       \/ \E c \in Conn : Runs(c, p) /\ rpc[c] \in {"record", "insert"} /\ rout[c] = "None"
       \/ TearAt(p, "take")

\* What a runner of p knows at its segment ...
RunnerKnows(c, p) ==
  /\ rpc[c] = "yield" => muxHandle[p] # NoConn
  /\ rpc[c] \in {"dropSenders", "dropMux"} => NoBeat(p)
  /\ rpc[c] = "dropMux" => senders[p] = NoConn
  /\ rpc[c] \in {"setSenders", "setMux"} => Spent(p)
  /\ rpc[c] = "setMux" => senders[p] = c
  /\ rpc[c] \in {"setHb", "notify"} => muxHandle[p] = c
  /\ rpc[c] \in {"record", "insert"} /\ rout[c] = "Active" => muxHandle[p] = c

\* ... and a teardown at its own.
TearKnows(a, p) ==
  /\ tpc[a] \in {"senders", "mux"} => NoBeat(p)
  /\ tpc[a] = "mux" => senders[p] = NoConn
  /\ tpc[a] = "take" => muxHandle[p] = NoConn

Serial(p) ==
  /\ Alone(p) /\ Agree(p)
  /\ \A c \in Conn : Runs(c, p) => RunnerKnows(c, p)
  /\ \A a \in Agents : Tears(a, p) => TearKnows(a, p)
  /\ Reoffered(p) => muxHandle[p] # NoConn
  /\ p \in evict => senders[p] \in closed

SerialInv == \A p \in Peer : ~raced[p] => Serial(p)

\* A step that is none of p's: sockets break, close and stop, but nothing that is
\* kept for p, and none of its activities, changes.
Untouched(p) ==
  /\ senders'[p] = senders[p] /\ handlers'[p] = handlers[p]
  /\ muxHandle'[p] = muxHandle[p] /\ hbHandle'[p] = hbHandle[p]
  /\ sessions'[p] = sessions[p]
  /\ closed \subseteq closed'
  /\ \A c \in muxUp' : rpeer'[c] = p => c \in muxUp /\ rpeer[c] = p
  /\ \A c \in hbUp' : rpeer'[c] = p => c \in hbUp /\ rpeer[c] = p
  /\ \A c \in Conn : /\ Runs(c, p)' <=> Runs(c, p)
                     /\ Runs(c, p) => rpc'[c] = rpc[c] /\ rout'[c] = rout[c]
  /\ \A a \in Agents : /\ Tears(a, p)' <=> Tears(a, p)
                       /\ Tears(a, p) => tpc'[a] = tpc[a]
  /\ Reoffered(p)' <=> Reoffered(p)
  /\ p \in evict' <=> p \in evict

LEMMA UntouchedStays ==
  ASSUME NEW p \in Peer, TypeOK, TypeOK', TargetsKnown, Serial(p), Untouched(p)
  PROVE  Serial(p)'
<1>1. Alone(p)'
  BY DEF Serial, Untouched, Alone
<1>2. /\ Spent(p) => Spent(p)'
      /\ NoBeat(p) => NoBeat(p)'
  BY DEF Untouched, Spent, NoBeat
<1>3. \A pcs : RunnerAt(p, pcs) => RunnerAt(p, pcs)'
  BY DEF Untouched, RunnerAt
<1>4. \A pc : TearAt(p, pc) => TearAt(p, pc)'
  BY DEF Untouched, TearAt
<1>5. Agree(p)'
  <2>1. \A c \in muxUp' \ closed' :
          rpeer'[c] = p => c = muxHandle'[p] \/ rpc'[c] = "setMux"
    BY DEF Serial, Agree, Untouched, TypeOK, Runs
  <2>2. \A c \in hbUp' \ closed' : rpeer'[c] = p => c = muxHandle'[p] /\ hbHandle'[p] = c
    BY DEF Serial, Agree, Untouched
  <2>3. sessions'[p] = "Active" =>
          \/ muxHandle'[p] # NoConn
          \/ RunnerAt(p, {"setSenders", "setMux"})'
          \/ \E c \in Conn : Runs(c, p)' /\ rpc'[c] \in {"record", "insert"} /\ rout'[c] = "None"
          \/ TearAt(p, "take")'
    BY <1>3, <1>4 DEF Serial, Agree, Untouched
  <2>4. QED
    BY <1>2, <1>3, <1>4, <2>1, <2>2, <2>3 DEF Serial, Agree, Untouched
<1>6. \A c \in Conn : Runs(c, p)' => RunnerKnows(c, p)'
  BY <1>2 DEF Serial, Untouched, RunnerKnows
<1>7. \A a \in Agents : Tears(a, p)' => TearKnows(a, p)'
  BY <1>2 DEF Serial, Untouched, TearKnows
<1>8. QED
  BY <1>1, <1>5, <1>6, <1>7 DEF Serial, Untouched

\* The steps of a runner and of a teardown are about their peer alone.
LEMMA RunnerElsewhere ==
  ASSUME TypeOK, TargetsKnown, SendersVetted, NEW c \in Conn, NEW q \in Peer, Runner(c),
         rpeer[c] # q \/ ExchangeFails(c) \/ ExchangeEnds(c)
  PROVE  Untouched(q)
<1> USE DEF TypeOK, TargetsKnown, Untouched, Runs, Tears, Reoffered, table, maps, sockets,
            runner, teardown
<1>1. CASE ExchangeFails(c) \/ ExchangeEnds(c)
  BY <1>1 DEF ExchangeFails, ExchangeEnds, Goto
<1>2. CASE rpeer[c] # q /\ GlareCheck(c)
  BY <1>2 DEF GlareCheck, Goto
<1>3. CASE rpeer[c] # q /\ (Yield(c) \/ RecordOutcome(c) \/ InsertSession(c))
  BY <1>3 DEF Yield, RecordOutcome, InsertSession, Goto
<1>4. CASE rpeer[c] # q /\ RunnerDrops(c)
  BY <1>4 DEF RunnerDrops, DropHb, DropSenders, DropMux, Goto
<1>5. CASE rpeer[c] # q /\ (SetSenders(c) \/ SetMux(c) \/ SetHb(c))
  BY <1>5 DEF SetSenders, SetMux, SetHb, Goto
<1>6. CASE rpeer[c] # q /\ NotifyActive(c)
  BY <1>6 DEF NotifyActive, Goto
<1>7. QED
  BY <1>1, <1>2, <1>3, <1>4, <1>5, <1>6 DEF Runner

LEMMA TearElsewhere ==
  ASSUME TypeOK, NEW a \in Agents, NEW q \in Peer, Teardown(a), tpeer[a] # q
  PROVE  Untouched(q)
<1> USE DEF TypeOK, Untouched, Runs, Tears, Reoffered, table, maps, sockets, runner
<1>1. CASE TearDrops(a)
  BY <1>1 DEF TearDrops, DropHb, DropSenders, DropMux, TearGoto
<1>2. CASE TakeSession(a) \/ NotifyInactive(a)
  BY <1>2 DEF TakeSession, NotifyInactive, TearGoto
<1>3. CASE FinishTeardown(a)
  BY <1>3 DEF FinishTeardown, RemoveSession, SetCache, TearGoto
<1>4. QED
  BY <1>1, <1>2, <1>3 DEF Teardown

\* Starting an exchange, and what sockets and the cache do, touches nobody.
LEMMA NobodysStep ==
  ASSUME TypeOK, TargetsKnown, NEW q \in Peer,
         \/ \E p \in Peer, c \in Conn : OnPeerVisible(p, c) \/ Accept(p, c)
         \/ \E c \in Conn : SocketBreaks(c) \/ WriterEnds(c) \/ HbTimeout(c)
         \/ \E p \in Peer : CacheLapses(p)
  PROVE  Untouched(q)
<1> USE DEF TypeOK, TargetsKnown, Untouched, Runs, Tears, Reoffered, table, maps, sockets,
            runner, teardown
<1>1. ASSUME NEW p \in Peer, NEW c \in Conn, NEW i \in BOOLEAN, StartRunner(c, p, i)
      PROVE  Untouched(q)
  BY <1>1 DEF StartRunner, Goto
<1>2. ASSUME NEW c \in Conn, SocketBreaks(c) \/ WriterEnds(c) \/ HbTimeout(c)
      PROVE  Untouched(q)
  BY <1>2 DEF SocketBreaks, WriterEnds, HbTimeout
<1>3. ASSUME NEW p \in Peer, CacheLapses(p)
      PROVE  Untouched(q)
  BY <1>3 DEF CacheLapses, SetCache
<1>4. QED
  BY <1>1, <1>2, <1>3 DEF OnPeerVisible, Accept

\* Where the rebroadcast loop is.
RbKnown ==
  /\ rb.pc = "idle" => rb.todo = {}
  /\ IF rb.pc \in {"idle", "pick"} THEN rb.peer = NoPeer ELSE rb.peer \in Peer

LEMMA RbNextValue ==
  ASSUME NEW todo \in SUBSET Peer
  PROVE  /\ RbNext(todo).todo = todo /\ RbNext(todo).peer = NoPeer
         /\ RbNext(todo).pc = IF todo = {} THEN "idle" ELSE "pick"
BY DEF RbNext, IdleRb

\* A step of the loop goes on with the peer it is at, or takes another one, or
\* is done with it.
LEMMA RbSteps ==
  ASSUME TypeOK, RbKnown, RbStart \/ Rebroadcast
  PROVE  \/ /\ RbStart /\ rb.todo = {} /\ rb.peer = NoPeer /\ rb'.peer = NoPeer
            /\ rb'.todo = {p \in Peer : sessions[p] = "Active"} /\ rb'.pc = "pick"
         \/ /\ rb.peer \in Peer /\ (RbOldSet \/ RbExchange \/ RbFinish)
            /\ rb'.peer = rb.peer /\ rb'.todo = rb.todo /\ rb'.pc \notin {"idle", "pick"}
         \/ /\ rb.peer \in Peer /\ (RbOldSet \/ RbExchange \/ RbFinish)
            /\ rb' = RbNext(rb.todo)
         \/ \E p \in rb.todo : /\ RbPick(p) /\ rb.peer = NoPeer
                               /\ \/ rb' = RbNext(rb.todo \ {p})
                                  \/ rb'.todo = rb.todo \ {p} /\ rb'.peer = p /\ rb'.pc = "old"
<1> USE DEF TypeOK, RbStates, RbKnown
<1>1. CASE RbStart
  BY <1>1 DEF RbStart
<1>2. CASE RbOldSet
  BY <1>2 DEF RbOldSet
<1>3. CASE RbExchange
  BY <1>3, ZenonT(40) DEF RbExchange
<1>4. CASE RbFinish
  BY <1>4 DEF RbFinish
<1>5. ASSUME NEW p \in Peer, RbPick(p)
      PROVE  /\ RbPick(p) /\ rb.peer = NoPeer /\ p \in rb.todo
             /\ \/ rb' = RbNext(rb.todo \ {p})
                \/ rb'.todo = rb.todo \ {p} /\ rb'.peer = p /\ rb'.pc = "old"
  BY <1>5 DEF RbPick
<1>6. QED
  BY <1>1, <1>2, <1>3, <1>4, <1>5 DEF Rebroadcast

LEMMA RbKnownStep ==
  ASSUME TypeOK, TypeOK', RbKnown, [Next]_vars
  PROVE  RbKnown'
<1> DEFINE past == rb'.peer \in Peer /\ rb'.pc \notin {"idle", "pick"}
<1> rb.todo \in SUBSET Peer
  BY DEF TypeOK, RbStates
<1>1. CASE RbStart \/ Rebroadcast
  <2>1. \/ rb'.peer = NoPeer /\ rb'.pc = "pick"
        \/ past
        \/ \E todo \in SUBSET Peer : rb' = RbNext(todo)
    BY <1>1, RbSteps
  <2>2. CASE (rb'.peer = NoPeer /\ rb'.pc = "pick") \/ past
    BY <2>2 DEF RbKnown
  <2>3. ASSUME NEW todo \in SUBSET Peer, rb' = RbNext(todo)
        PROVE  RbKnown'
    BY <2>3, RbNextValue DEF RbKnown
  <2>4. QED
    BY <2>1, <2>2, <2>3
<1>2. CASE UNCHANGED rb
  BY <1>2 DEF RbKnown
<1>3. QED
  BY <1>1, <1>2 DEF Next, vars, Runner, Teardown, Environment, ExchangeFails, ExchangeEnds,
     GlareCheck, Yield, RunnerDrops, SetSenders, SetMux, SetHb, NotifyActive, RecordOutcome,
     InsertSession, OnHbTimeout, OnPeerVisible, Accept, StartRunner, OnWgDown, OnDeny,
     StartTeardown, TearDrops, TakeSession, NotifyInactive, FinishTeardown, SocketBreaks,
     WriterEnds, HbTimeout, SendFails, SendEvicts, CacheLapses

\* The steps of rebroadcast for a peer that it is not at.
LEMMA RbElsewhere ==
  ASSUME TypeOK, RbKnown, NEW q \in Peer, RbStart \/ Rebroadcast, rb.peer # q,
         RbStart => sessions[q] # "Active", ~RbPick(q)
  PROVE  Untouched(q)
<1> rb.todo \in SUBSET Peer /\ NoPeer # q
  BY ConnAssumption DEF TypeOK, RbStates
<1>1. Reoffered(q)' <=> Reoffered(q)
  <2>1. CASE RbStart
    BY <2>1, RbSteps DEF Reoffered, RbStart, Rebroadcast, RbOldSet, RbExchange, RbFinish, RbPick
  <2>2. CASE rb'.peer = rb.peer /\ rb'.todo = rb.todo
    BY <2>2 DEF Reoffered
  <2>3. CASE rb' = RbNext(rb.todo)
    BY <2>3, RbNextValue DEF Reoffered
  <2>4. ASSUME NEW p \in rb.todo, p # q,
               \/ rb' = RbNext(rb.todo \ {p})
               \/ rb'.todo = rb.todo \ {p} /\ rb'.peer = p
        PROVE  Reoffered(q)' <=> Reoffered(q)
    BY <2>4, RbNextValue DEF Reoffered
  <2>5. QED
    BY <2>1, <2>2, <2>3, <2>4, RbSteps
<1>2. UNCHANGED <<maps, sockets, rpc, runner, teardown, evict>> /\ sessions'[q] = sessions[q]
  BY DEF RbStart, Rebroadcast, RbOldSet, RbExchange, RbPick, RbFinish, SetCache, table, TypeOK,
     RbStates
<1>3. QED
  BY <1>1, <1>2 DEF Untouched, Runs, Tears, maps, sockets, runner, teardown

\* The steps of a new teardown and of an eviction for other peers.
LEMMA OthersElsewhere ==
  ASSUME TypeOK, NEW q \in Peer,
         \/ \E a \in Agents, p \in Peer \ {q}, kind \in TearKinds : StartTeardown(a, p, kind)
         \/ \E p \in Peer \ {q} : SendFails(p) \/ SendEvicts(p)
  PROVE  Untouched(q)
<1> USE DEF TypeOK, Untouched, Runs, Tears, Reoffered, table, maps, sockets, runner
<1>1. ASSUME NEW a \in Agents, NEW p \in Peer \ {q}, NEW kind \in TearKinds,
             StartTeardown(a, p, kind)
      PROVE  Untouched(q)
  BY <1>1 DEF StartTeardown
<1>2. ASSUME NEW p \in Peer \ {q}, SendFails(p) \/ SendEvicts(p)
      PROVE  Untouched(q)
  BY <1>2 DEF SendFails, SendEvicts, DropSenders, teardown
<1>3. QED
  BY <1>1, <1>2

\* An activity that begins alone: p was quiet.
LEMMA EnterAlone ==
  ASSUME TypeOK, NEW ps \in SUBSET Peer, Enter(ps), NEW p \in Peer, ~raced'[p]
  PROVE  ~raced[p] /\ (p \in ps => Quiet(p))
BY DEF TypeOK, Enter

LEMMA QuietFacts ==
  ASSUME NEW p \in Peer, Quiet(p)
  PROVE  /\ \A c \in Conn : ~Runs(c, p)
         /\ \A a \in Agents : ~Tears(a, p)
         /\ ~Reoffered(p) /\ p \notin evict
BY DEF Quiet, Runs, Tears, Reoffered

\* While a runner of p is under way it is the only activity, before and after its
\* own step.
LEMMA RunnerAlone ==
  ASSUME TypeOK, NEW p \in Peer, NEW c \in Conn, Runs(c, p), Serial(p),
         UNCHANGED <<rpeer, teardown, evict, rb>>, NEW pc, Goto(c, pc)
  PROVE  /\ Alone(p)'
         /\ \A d \in Conn : Runs(d, p) => d = c
         /\ \A d \in Conn : Runs(d, p)' => d = c
         /\ \A d \in Conn \ {c} : rpc'[d] = rpc[d]
         /\ rpc'[c] = pc
         /\ \A a \in Agents : ~Tears(a, p) /\ ~Tears(a, p)'
         /\ ~Reoffered(p)' /\ p \notin evict'
BY DEF TypeOK, Serial, Alone, Runs, Tears, Reoffered, Goto, teardown

\* What is left to show then.
LEMMA RunnerSerial ==
  ASSUME NEW p \in Peer, NEW c \in Conn, Alone(p)', Agree(p)',
         \A d \in Conn : Runs(d, p)' => d = c,
         Runs(c, p)' => RunnerKnows(c, p)',
         \A a \in Agents : ~Tears(a, p)', ~Reoffered(p)', p \notin evict'
  PROVE  Serial(p)'
BY DEF Serial

\* The steps of a runner for its own peer.
LEMMA GlareCheckSerial ==
  ASSUME TypeOK, SendersVetted, NEW p \in Peer, NEW c \in Conn, rpeer[c] = p,
         GlareCheck(c), ~raced'[p], SerialInv
  PROVE  Serial(p)'
<1>1. ~raced[p] /\ Quiet(p)
  BY EnterAlone DEF GlareCheck
<1>2. /\ Serial(p) /\ ~Reoffered(p) /\ p \notin evict
      /\ \A d \in Conn : ~Runs(d, p)
      /\ \A a \in Agents : ~Tears(a, p)
  BY <1>1, QuietFacts DEF SerialInv
<1>3. /\ senders[p] \in {NoConn, muxHandle[p]} /\ handlers[p] = muxHandle[p]
      /\ senders[p] = NoConn => Spent(p)
      /\ sessions[p] = "Active" => muxHandle[p] # NoConn
  BY <1>2 DEF Serial, Agree, RunnerAt, TearAt
<1>4. /\ UNCHANGED <<sessions, maps, sockets, runner, teardown, evict, rb>>
      /\ \A d \in Conn \ {c} : rpc'[d] = rpc[d]
  BY DEF GlareCheck, table, Goto, TypeOK
<1>5. /\ rpc'[c] \in {"yield", "dropHb", "setSenders", "record"}
      /\ rpc'[c] = "yield" => senders[p] # NoConn
      /\ rpc'[c] \in {"setSenders", "record"} => Spent(p)
      /\ rpc'[c] = "record" => rout[c] # "Active"
  BY <1>3 DEF GlareCheck, Goto, SetupPc, TypeOK, Alive, Spent
<1>6. /\ Alone(p)' /\ ~Reoffered(p)' /\ p \notin evict'
      /\ \A d \in Conn : Runs(d, p)' => d = c
      /\ \A a \in Agents : ~Tears(a, p)'
  BY <1>2, <1>4 DEF Alone, Runs, Tears, Reoffered, runner, teardown
<1>7. Agree(p)'
  <2>1. \A d \in muxUp \ closed : rpeer[d] = p => d = muxHandle[p]
    BY <1>2 DEF Serial, Agree, Runs, TypeOK
  <2>2. Spent(p) => Spent(p)'
    BY <1>4 DEF Spent, maps, sockets
  <2>3. QED
    BY <1>2, <1>3, <1>4, <2>1, <2>2 DEF Serial, Agree, maps, sockets, runner
<1>8. RunnerKnows(c, p)'
  BY <1>3, <1>4, <1>5 DEF RunnerKnows, Spent, maps, sockets, runner
<1>9. QED
  BY <1>6, <1>7, <1>8, RunnerSerial

LEMMA RunnerStoresSerial ==
  ASSUME TypeOK, NEW p \in Peer, NEW c \in Conn, rpeer[c] = p,
         Yield(c) \/ RecordOutcome(c) \/ InsertSession(c), Serial(p)
  PROVE  Serial(p)'
<1>1. Runs(c, p) /\ RunnerKnows(c, p)
  BY DEF Yield, RecordOutcome, InsertSession, Runs, Serial
<1>2. UNCHANGED <<rpeer, teardown, evict, rb>> /\ \E pc : Goto(c, pc)
  BY DEF Yield, RecordOutcome, InsertSession, runner
<1>3. /\ Alone(p)' /\ ~Reoffered(p)' /\ p \notin evict'
      /\ \A d \in Conn : (Runs(d, p) => d = c) /\ (Runs(d, p)' => d = c)
      /\ \A a \in Agents : ~Tears(a, p) /\ ~Tears(a, p)'
      /\ \A d \in Conn \ {c} : rpc'[d] = rpc[d]
  BY <1>1, <1>2, RunnerAlone
<1>4. UNCHANGED <<maps, sockets, runner>>
  BY DEF Yield, RecordOutcome, InsertSession
<1>5. Agree(p)' /\ (Runs(c, p)' => RunnerKnows(c, p)')
  <2> USE DEF TypeOK, Serial, Agree, RunnerAt, TearAt, RunnerKnows, Spent, NoBeat, Runs,
              maps, sockets, runner
  <2>1. CASE Yield(c)
    BY <1>1, <1>3, <1>4, <2>1 DEF Yield, Goto
  <2>2. CASE RecordOutcome(c)
    BY <1>1, <1>3, <1>4, <2>2 DEF RecordOutcome, Goto
  <2>3. CASE InsertSession(c)
    BY <1>1, <1>3, <1>4, <2>3, ConnAssumption DEF InsertSession, Goto
  <2>4. QED
    BY <2>1, <2>2, <2>3
<1>6. QED
  BY <1>3, <1>5, RunnerSerial

LEMMA RunnerDropsSerial ==
  ASSUME TypeOK, NEW p \in Peer, NEW c \in Conn, rpeer[c] = p, RunnerDrops(c), Serial(p)
  PROVE  Serial(p)'
<1>1. Runs(c, p) /\ RunnerKnows(c, p)
  BY DEF RunnerDrops, Runs, Serial
<1>2. UNCHANGED <<rpeer, teardown, evict, rb>> /\ \E pc : Goto(c, pc)
  BY DEF RunnerDrops, runner
<1>3. /\ Alone(p)' /\ ~Reoffered(p)' /\ p \notin evict'
      /\ \A d \in Conn : (Runs(d, p) => d = c) /\ (Runs(d, p)' => d = c)
      /\ \A a \in Agents : ~Tears(a, p) /\ ~Tears(a, p)'
      /\ \A d \in Conn \ {c} : rpc'[d] = rpc[d]
  BY <1>1, <1>2, RunnerAlone
<1>4. UNCHANGED <<sessions, runner>>
  BY DEF RunnerDrops, table
<1>5. Agree(p)' /\ (Runs(c, p)' => RunnerKnows(c, p)')
  <2> USE DEF TypeOK, Serial, Agree, RunnerAt, TearAt, RunnerKnows, Spent, NoBeat, Runs,
              sockets, runner, RunnerDrops, Goto
  <2>1. CASE rpc[c] = "dropHb"
    BY <1>1, <1>3, <1>4, <2>1 DEF DropHb
  <2>2. CASE rpc[c] = "dropSenders"
    BY <1>1, <1>3, <1>4, <2>2 DEF DropSenders
  <2>3. CASE rpc[c] = "dropMux"
    BY <1>1, <1>3, <1>4, <2>3 DEF DropMux, SetupPc
  <2>4. QED
    BY <2>1, <2>2, <2>3
<1>6. QED
  BY <1>3, <1>5, RunnerSerial

LEMMA RunnerSetsSerial ==
  ASSUME TypeOK, NEW p \in Peer, NEW c \in Conn, rpeer[c] = p,
         SetSenders(c) \/ SetMux(c) \/ SetHb(c) \/ NotifyActive(c), Serial(p)
  PROVE  Serial(p)'
<1>1. Runs(c, p) /\ RunnerKnows(c, p)
  BY DEF SetSenders, SetMux, SetHb, NotifyActive, Runs, Serial
<1>2. UNCHANGED <<rpeer, teardown, evict, rb>> /\ \E pc : Goto(c, pc)
  BY DEF SetSenders, SetMux, SetHb, NotifyActive, runner
<1>3. /\ Alone(p)' /\ ~Reoffered(p)' /\ p \notin evict'
      /\ \A d \in Conn : (Runs(d, p) => d = c) /\ (Runs(d, p)' => d = c)
      /\ \A a \in Agents : ~Tears(a, p) /\ ~Tears(a, p)'
      /\ \A d \in Conn \ {c} : rpc'[d] = rpc[d]
  BY <1>1, <1>2, RunnerAlone
<1>4. UNCHANGED <<sessions, runner>>
  BY DEF SetSenders, SetMux, SetHb, NotifyActive, table
<1>5. Agree(p)' /\ (Runs(c, p)' => RunnerKnows(c, p)')
  <2> USE ConnAssumption
  <2> USE DEF TypeOK, Serial, Agree, RunnerAt, TearAt, RunnerKnows, Spent, NoBeat, Runs,
              sockets, runner, Goto
  <2>1. CASE SetSenders(c)
    BY <1>1, <1>3, <1>4, <2>1 DEF SetSenders
  <2>2. CASE SetMux(c)
    BY <1>1, <1>3, <1>4, <2>2 DEF SetMux
  <2>3. CASE SetHb(c)
    BY <1>1, <1>3, <1>4, <2>3 DEF SetHb
  <2>4. CASE NotifyActive(c)
    BY <1>1, <1>3, <1>4, <2>4 DEF NotifyActive
  <2>5. QED
    BY <2>1, <2>2, <2>3, <2>4
<1>6. QED
  BY <1>3, <1>5, RunnerSerial

\* A teardown of p, from its start to its end.
LEMMA StartTeardownSerial ==
  ASSUME TypeOK, NEW p \in Peer, NEW a \in Agents, NEW kind \in TearKinds,
         StartTeardown(a, p, kind), ~raced'[p], SerialInv
  PROVE  Serial(p)'
<1>1. ~raced[p] /\ Quiet(p)
  BY EnterAlone DEF StartTeardown
<1>2. /\ Serial(p) /\ ~Reoffered(p) /\ p \notin evict
      /\ \A d \in Conn : ~Runs(d, p)
      /\ \A b \in Agents : ~Tears(b, p)
  BY <1>1, QuietFacts DEF SerialInv
<1>3. /\ UNCHANGED <<sessions, maps, muxUp, hbUp, closed, rpc, runner, evict, rb>>
      /\ tpc'[a] = "hb" /\ \A b \in Agents \ {a} : tpc'[b] = tpc[b] /\ tpeer'[b] = tpeer[b]
  BY DEF StartTeardown, table, TypeOK
<1>4. /\ Alone(p)' /\ ~Reoffered(p)' /\ p \notin evict'
      /\ \A d \in Conn : ~Runs(d, p)'
      /\ \A b \in Agents : Tears(b, p)' => b = a
  BY <1>2, <1>3 DEF Alone, Runs, Tears, Reoffered, runner
<1>5. Agree(p)'
  BY <1>2, <1>3 DEF Serial, Agree, Spent, RunnerAt, TearAt, maps, runner
<1>6. TearKnows(a, p)'
  BY <1>3 DEF TearKnows
<1>7. QED
  BY <1>4, <1>5, <1>6 DEF Serial

LEMMA TeardownSerial ==
  ASSUME TypeOK, NEW p \in Peer, NEW a \in Agents, tpeer[a] = p, Teardown(a), Serial(p)
  PROVE  Serial(p)'
<1>1. Tears(a, p) /\ TearKnows(a, p)
  BY DEF Teardown, TearDrops, TakeSession, NotifyInactive, FinishTeardown, Tears, Serial
<1>2. /\ UNCHANGED <<rpc, runner, tpeer, evict, rb, closed>>
      /\ \A b \in Agents \ {a} : tpc'[b] = tpc[b]
  BY DEF Teardown, TearDrops, TakeSession, NotifyInactive, FinishTeardown, TearGoto, TypeOK,
     DropHb, DropSenders, DropMux, sockets
<1>3. /\ Alone(p)' /\ ~Reoffered(p)' /\ p \notin evict'
      /\ \A d \in Conn : ~Runs(d, p) /\ ~Runs(d, p)'
      /\ \A b \in Agents : (Tears(b, p) => b = a) /\ (Tears(b, p)' => b = a)
  BY <1>1, <1>2 DEF Serial, Alone, Runs, Tears, Reoffered, runner
<1>4. Agree(p)' /\ (Tears(a, p)' => TearKnows(a, p)')
  <2> USE DEF TypeOK, Serial, Agree, RunnerAt, TearAt, TearKnows, Spent, NoBeat, Tears,
              sockets, runner, TearGoto
  <2>1. CASE TearDrops(a) /\ tpc[a] = "hb"
    BY <1>1, <1>2, <1>3, <2>1 DEF TearDrops, DropHb, table
  <2>2. CASE TearDrops(a) /\ tpc[a] = "senders"
    BY <1>1, <1>2, <1>3, <2>2 DEF TearDrops, DropSenders, table
  <2>3. CASE TearDrops(a) /\ tpc[a] = "mux"
    BY <1>1, <1>2, <1>3, <2>3 DEF TearDrops, DropMux, table
  <2>4. CASE TakeSession(a)
    BY <1>1, <1>2, <1>3, <2>4 DEF TakeSession, maps
  <2>5. CASE NotifyInactive(a)
    BY <1>1, <1>2, <1>3, <2>5 DEF NotifyInactive, maps
  <2>6. CASE FinishTeardown(a)
    BY <1>1, <1>2, <1>3, <2>6 DEF FinishTeardown, RemoveSession, SetCache, maps
  <2>7. QED
    BY <2>1, <2>2, <2>3, <2>4, <2>5, <2>6 DEF Teardown, TearDrops
<1>5. QED
  BY <1>3, <1>4 DEF Serial

\* Rebroadcast, for a peer it is about: it begins with Active sessions, which
\* have a multiplexer, and nobody else takes that away meanwhile.
LEMMA RbSerial ==
  ASSUME TypeOK, TypeOK', RbKnown, NEW p \in Peer, RbStart \/ Rebroadcast,
         rb.peer = p \/ RbPick(p) \/ (RbStart /\ sessions[p] = "Active"),
         ~raced'[p], SerialInv
  PROVE  Serial(p)'
<1>1. /\ ~raced[p] /\ Serial(p) /\ muxHandle[p] # NoConn /\ p \notin evict
      /\ \A d \in Conn : ~Runs(d, p)
      /\ \A b \in Agents : ~Tears(b, p)
  <2>1. CASE RbStart
    <3>1. ~raced[p] /\ Quiet(p) /\ sessions[p] = "Active"
      <4>1. sessions[p] = "Active"
        BY <2>1, ConnAssumption DEF RbStart, RbKnown, RbPick
      <4>2. QED
        BY <2>1, <4>1, EnterAlone DEF RbStart
    <3>2. QED
      BY <3>1, QuietFacts DEF SerialInv, Serial, Agree, RunnerAt, TearAt
  <2>2. CASE Rebroadcast /\ ~RbStart
    <3>1. raced' = raced
      BY <2>2 DEF Rebroadcast, RbOldSet, RbExchange, RbPick, RbFinish
    <3>2. Reoffered(p)
      BY <2>2 DEF RbPick, Reoffered
    <3>3. QED
      BY <3>1, <3>2 DEF SerialInv, Serial, Alone
  <2>3. QED
    BY <2>1, <2>2
<1>2. UNCHANGED <<maps, sockets, rpc, runner, teardown, evict>>
  BY DEF RbStart, Rebroadcast, RbOldSet, RbExchange, RbPick, RbFinish
<1>3. /\ Alone(p)' /\ p \notin evict'
      /\ \A d \in Conn : ~Runs(d, p)'
      /\ \A b \in Agents : ~Tears(b, p)'
  BY <1>1, <1>2 DEF Alone, Runs, Tears, runner, teardown
<1>4. Agree(p)'
  BY <1>1, <1>2 DEF Serial, Agree, Spent, RunnerAt, TearAt, maps, sockets, runner
<1>5. QED
  BY <1>1, <1>2, <1>3, <1>4 DEF Serial, maps

\* The bridge evicts a sender that was closed and still is the same.
LEMMA EvictionSerial ==
  ASSUME TypeOK, NEW p \in Peer, SendFails(p) \/ SendEvicts(p), ~raced'[p], SerialInv
  PROVE  Serial(p)'
<1>1. CASE SendFails(p)
  <2>1. ~raced[p] /\ Quiet(p)
    BY <1>1, EnterAlone DEF SendFails
  <2>2. /\ Serial(p) /\ ~Reoffered(p)
        /\ \A d \in Conn : ~Runs(d, p)
        /\ \A b \in Agents : ~Tears(b, p)
    BY <2>1, QuietFacts DEF SerialInv
  <2>3. /\ UNCHANGED <<sessions, maps, sockets, rpc, runner, teardown, rb>>
        /\ senders[p] \in closed
    BY <1>1 DEF SendFails, table
  <2>4. /\ Alone(p)' /\ ~Reoffered(p)'
        /\ \A d \in Conn : ~Runs(d, p)'
        /\ \A b \in Agents : ~Tears(b, p)'
    BY <2>2, <2>3 DEF Alone, Runs, Tears, Reoffered, runner, teardown
  <2>5. Agree(p)'
    BY <2>2, <2>3 DEF Serial, Agree, Spent, RunnerAt, TearAt, maps, sockets, runner
  <2>6. QED
    BY <2>3, <2>4, <2>5 DEF Serial, maps, sockets
<1>2. CASE SendEvicts(p)
  <2>1. Serial(p) /\ p \in evict
    BY <1>2 DEF SendEvicts, SerialInv
  <2>2. /\ ~Reoffered(p) /\ senders[p] \in closed
        /\ \A d \in Conn : ~Runs(d, p)
        /\ \A b \in Agents : ~Tears(b, p)
    BY <2>1 DEF Serial, Alone
  <2>3. /\ UNCHANGED <<sessions, handlers, muxHandle, hbHandle, sockets, rpc, runner, teardown, rb>>
        /\ senders'[p] = NoConn /\ p \notin evict'
    BY <1>2 DEF SendEvicts, DropSenders, table, TypeOK
  <2>4. /\ Alone(p)' /\ ~Reoffered(p)'
        /\ \A d \in Conn : ~Runs(d, p)'
        /\ \A b \in Agents : ~Tears(b, p)'
    BY <2>2, <2>3 DEF Alone, Runs, Tears, Reoffered, runner, teardown
  <2>5. Agree(p)'
    BY <2>1, <2>2, <2>3 DEF Serial, Agree, Spent, RunnerAt, TearAt, sockets, runner
  <2>6. QED
    BY <2>3, <2>4, <2>5 DEF Serial
<1>3. QED
  BY <1>1, <1>2

LEMMA SerialStep ==
  ASSUME Inv, TypeOK', RbKnown, SerialInv, [Next]_vars
  PROVE  SerialInv'
<1> SUFFICES ASSUME NEW p \in Peer, ~raced'[p]
             PROVE  Serial(p)'
  BY DEF SerialInv
<1> USE DEF Inv
<1>1. UNCHANGED raced => Serial(p)
  BY DEF SerialInv
<1>2. \A ps \in SUBSET Peer : Enter(ps) => Serial(p)
  BY EnterAlone DEF SerialInv
<1>3. Serial(p) /\ Untouched(p) => Serial(p)'
  BY UntouchedStays
<1>4. ASSUME NEW c \in Conn, Runner(c)
      PROVE  Serial(p)'
  <2>1. Serial(p)
    <3>1. CASE GlareCheck(c)
      BY <1>2, <3>1 DEF GlareCheck, TargetsKnown
    <3>2. CASE ~GlareCheck(c)
      <4>1. UNCHANGED raced
        BY <1>4, <3>2 DEF Runner, ExchangeFails, ExchangeEnds, Yield, RunnerDrops, SetSenders,
           SetMux, SetHb, NotifyActive, RecordOutcome, InsertSession
      <4>2. QED
        BY <4>1, <1>1
    <3>3. QED
      BY <3>1, <3>2
  <2>2. CASE rpeer[c] # p \/ ExchangeFails(c) \/ ExchangeEnds(c)
    BY <1>3, <1>4, <2>1, <2>2, RunnerElsewhere
  <2>3. CASE rpeer[c] = p /\ ~ExchangeFails(c) /\ ~ExchangeEnds(c)
    BY <1>4, <2>1, <2>3, GlareCheckSerial, RunnerStoresSerial, RunnerDropsSerial,
       RunnerSetsSerial DEF Runner
  <2>4. QED
    BY <2>2, <2>3
<1>5. ASSUME NEW a \in Agents, NEW q \in Peer, NEW kind \in TearKinds, StartTeardown(a, q, kind)
      PROVE  Serial(p)'
  <2>1. Serial(p)
    BY <1>2, <1>5 DEF StartTeardown
  <2>2. CASE q = p
    BY <1>5, <2>2, StartTeardownSerial
  <2>3. CASE q # p
    BY <1>3, <1>5, <2>1, <2>3, OthersElsewhere
  <2>4. QED
    BY <2>2, <2>3
<1>6. ASSUME NEW c \in Conn, OnHbTimeout(c)
      PROVE  Serial(p)'
  <2>1. rpeer[c] \in Peer
    BY <1>6 DEF OnHbTimeout, TargetsKnown
  <2>2. QED
    BY <1>5, <1>6, <2>1 DEF OnHbTimeout
<1>7. ASSUME NEW q \in Peer, OnWgDown(q) \/ OnDeny(q)
      PROVE  Serial(p)'
  BY <1>5, <1>7 DEF OnWgDown, OnDeny
<1>8. ASSUME NEW a \in Agents, Teardown(a)
      PROVE  Serial(p)'
  <2>1. Serial(p)
    BY <1>1, <1>8 DEF Teardown, TearDrops, TakeSession, NotifyInactive, FinishTeardown
  <2>2. QED
    BY <1>3, <1>8, <2>1, TeardownSerial, TearElsewhere
<1>9. CASE RbStart \/ Rebroadcast
  <2>1. Serial(p)
    <3>1. CASE RbStart
      BY <1>2, <3>1 DEF RbStart
    <3>2. CASE Rebroadcast
      BY <1>1, <3>2 DEF Rebroadcast, RbOldSet, RbExchange, RbPick, RbFinish
    <3>3. QED
      BY <1>9, <3>1, <3>2
  <2>2. CASE rb.peer = p \/ RbPick(p) \/ (RbStart /\ sessions[p] = "Active")
    BY <1>9, <2>2, RbSerial
  <2>3. CASE ~(rb.peer = p \/ RbPick(p) \/ (RbStart /\ sessions[p] = "Active"))
    BY <1>3, <1>9, <2>1, <2>3, RbElsewhere
  <2>4. QED
    BY <2>2, <2>3
<1>10. ASSUME NEW q \in Peer, SendFails(q) \/ SendEvicts(q)
       PROVE  Serial(p)'
  <2>1. Serial(p)
    BY <1>1, <1>2, <1>10 DEF SendFails, SendEvicts
  <2>2. CASE q = p
    BY <1>10, <2>2, EvictionSerial
  <2>3. CASE q # p
    BY <1>3, <1>10, <2>1, <2>3, OthersElsewhere
  <2>4. QED
    BY <2>2, <2>3
<1>11. CASE \/ \E q \in Peer, c \in Conn : OnPeerVisible(q, c) \/ Accept(q, c)
            \/ \E c \in Conn : SocketBreaks(c) \/ WriterEnds(c) \/ HbTimeout(c)
            \/ \E q \in Peer : CacheLapses(q)
  <2>1. UNCHANGED raced
    BY <1>11 DEF OnPeerVisible, Accept, StartRunner, SocketBreaks, WriterEnds, HbTimeout,
       CacheLapses
  <2>2. QED
    BY <1>1, <1>3, <1>11, <2>1, NobodysStep
<1>12. CASE UNCHANGED vars
  BY <1>1, <1>3, <1>12 DEF vars, table, maps, sockets, runner, teardown, Untouched, Runs, Tears,
     Reoffered, TypeOK
<1>13. QED
  BY <1>4, <1>6, <1>7, <1>8, <1>9, <1>10, <1>11, <1>12 DEF Next, Environment

LEMMA SerialInit == Init => RbKnown /\ SerialInv
BY ConnAssumption DEF Init, RbKnown, IdleRb, SerialInv, Serial, Alone, Agree, Runs, Tears,
   Reoffered, RunnerAt, TearAt, Spent

(* Where the activities of a peer never overlapped, whenever none is under    *)
(* way its maps agree on one socket and nothing runs that no handle tracks.   *)
THEOREM SerialStaysTracked == Spec => []SerialTracked
<1>1. Init => RbKnown /\ SerialInv
  BY SerialInit
<1>2. ASSUME Inv, Inv', RbKnown, SerialInv, [Next]_vars
      PROVE  (RbKnown /\ SerialInv)'
  BY <1>2, RbKnownStep, SerialStep DEF Inv
<1>3. ASSUME Inv, SerialInv
      PROVE  SerialTracked
  <2> SUFFICES ASSUME NEW p \in Peer, ~raced[p], Quiet(p)
               PROVE  /\ senders[p] \in {NoConn, muxHandle[p]}
                      /\ handlers[p] = muxHandle[p]
                      /\ hbHandle[p] \in {NoConn, muxHandle[p]} \cup closed
                      /\ \A c \in (muxUp \cup hbUp) \ closed : rpeer[c] = p => c = muxHandle[p]
                      /\ sessions[p] = "Active" => muxHandle[p] # NoConn
    BY DEF SerialTracked
  <2>1. Agree(p) /\ (\A c \in Conn : ~Runs(c, p)) /\ (\A a \in Agents : ~Tears(a, p))
    BY <1>3, QuietFacts DEF SerialInv, Serial
  <2>2. \A c \in muxUp : rpeer[c] = p => rpc[c] # "setMux"
    BY <1>3, <2>1 DEF Runs, Inv, TypeOK
  <2>3. QED
    BY <2>1, <2>2 DEF Agree, RunnerAt, TearAt
<1>4. QED
  BY <1>1, <1>2, <1>3, InvInductive, PTL DEF Spec

--------------------------------------------------------------------------------
(* What the capabilities were told, when every exchange finds something in    *)
(* common.                                                                    *)

\* The outcome of every exchange that is over is Active.
AllActive ==
  /\ \A c \in Conn : rpc[c] \in WindowPcs \cup {"glare"} => rout[c] = "Active"
  /\ rb.pc \in {"record", "notify", "insert"} => rb.out = "Active"

\* A peer is announced before its session is stored and unannounced after it was
\* taken: in between, the activity under way knows.
Announced(p) ==
  /\ told[p] => \/ sessions[p] = "Active"
                \/ RunnerAt(p, {"record", "insert"})
                \/ \E a \in Agents : Tears(a, p) /\ tpc[a] = "notify" /\ tcaps[a]
  /\ \A a \in Agents : Tears(a, p) =>
       /\ tpc[a] = "notify" => sessions[p] = "Absent"
       /\ tpc[a] \in {"finish", "finish2"} => ~told[p]

AnnouncedInv == \A p \in Peer : ~raced[p] => Announced(p)

\* A step that nobody announces anything of p in, nor takes or stores its session.
Unheard(p) ==
  /\ sessions'[p] = sessions[p] /\ (told'[p] => told[p])
  /\ \A c \in Conn : Runs(c, p) /\ rpc[c] \in {"record", "insert"} =>
                       Runs(c, p)' /\ rpc'[c] \in {"record", "insert"}
  /\ \A a \in Agents : Tears(a, p) /\ tpc[a] = "notify" =>
                         Tears(a, p)' /\ tpc'[a] = "notify" /\ tcaps'[a] = tcaps[a]
  /\ \A a \in Agents : Tears(a, p)' /\ tpc'[a] \in {"notify", "finish", "finish2"} =>
                         Tears(a, p) /\ tpc'[a] = tpc[a]

LEMMA UnheardStays ==
  ASSUME NEW p \in Peer, Announced(p), Unheard(p)
  PROVE  Announced(p)'
<1>1. told'[p] => \/ sessions'[p] = "Active"
                  \/ RunnerAt(p, {"record", "insert"})'
                  \/ \E a \in Agents : Tears(a, p)' /\ tpc'[a] = "notify" /\ tcaps'[a]
  BY DEF Announced, Unheard, RunnerAt
<1>2. QED
  BY <1>1 DEF Announced, Unheard

LEMMA AllActiveStep ==
  ASSUME TypeOK, AllActive, Outcomes = {"Active"}, [Next]_vars
  PROVE  AllActive'
<1> USE DEF TypeOK, RbStates, AllActive
<1>1. ASSUME NEW c \in Conn, Runner(c)
      PROVE  AllActive'
  <2>1. UNCHANGED rb
    BY <1>1 DEF Runner, ExchangeFails, ExchangeEnds, GlareCheck, Yield, RunnerDrops,
       SetSenders, SetMux, SetHb, NotifyActive, RecordOutcome, InsertSession
  <2>2. CASE ExchangeFails(c)
    BY <2>1, <2>2 DEF ExchangeFails, Goto, runner, WindowPcs, DropPcs, SetupPcs
  <2>3. CASE ExchangeEnds(c)
    BY <2>1, <2>3 DEF ExchangeEnds, Goto
  <2>4. CASE ~ExchangeFails(c) /\ ~ExchangeEnds(c)
    <3>1. /\ rpc[c] \in WindowPcs \cup {"glare"} /\ UNCHANGED rout
          /\ \A d \in Conn \ {c} : rpc'[d] = rpc[d]
      BY <1>1, <2>4 DEF Runner, GlareCheck, Yield, RunnerDrops, SetSenders, SetMux, SetHb,
         NotifyActive, RecordOutcome, InsertSession, Goto, runner, WindowPcs, DropPcs, SetupPcs
    <3>2. QED
      BY <2>1, <3>1
  <2>5. QED
    BY <2>2, <2>3, <2>4
<1>2. CASE Rebroadcast \/ RbStart
  <2>1. UNCHANGED <<rpc, rout>>
    BY <1>2 DEF Rebroadcast, RbStart, RbOldSet, RbExchange, RbFinish, RbPick, runner
  <2>2. rb'.pc \in {"record", "notify", "insert"} => rb'.out = "Active"
    <3>1. CASE RbStart
      BY <3>1 DEF RbStart
    <3>2. CASE RbExchange
      BY <3>2, RbNextValue, ZenonT(40) DEF RbExchange
    <3>3. CASE RbFinish
      BY <3>3, RbNextValue DEF RbFinish
    <3>4. CASE RbOldSet
      BY <3>4, RbNextValue DEF RbOldSet
    <3>5. ASSUME NEW p \in Peer, RbPick(p)
          PROVE  rb'.pc \notin {"record", "notify", "insert"}
      BY <3>5, RbNextValue DEF RbPick
    <3>6. QED
      BY <1>2, <3>1, <3>2, <3>3, <3>4, <3>5 DEF Rebroadcast
  <2>3. QED
    BY <2>1, <2>2
<1>3. ASSUME NEW c \in Conn, NEW p \in Peer, NEW i \in BOOLEAN, StartRunner(c, p, i)
      PROVE  AllActive'
  BY <1>3 DEF StartRunner, Goto, WindowPcs, DropPcs, SetupPcs
<1>4. CASE UNCHANGED <<rpc, rout, rb>>
  BY <1>4
<1>5. QED
  BY <1>1, <1>2, <1>3, <1>4 DEF Next, vars, runner, Teardown, Environment, OnHbTimeout,
     OnPeerVisible, Accept, OnWgDown, OnDeny, StartTeardown, TearDrops, TakeSession,
     NotifyInactive, FinishTeardown, SocketBreaks, WriterEnds, HbTimeout, SendFails,
     SendEvicts, CacheLapses

\* The steps that announce, store or take are about one peer, whose only activity
\* takes them.
LEMMA RunnerAnnounces ==
  ASSUME TypeOK, TargetsKnown, AllActive, NEW p \in Peer, NEW c \in Conn, Runner(c),
         Announced(p), Alone(p)
  PROVE  Announced(p)'
<1> USE DEF TypeOK, Unheard, Runs, Tears, table, maps, sockets, runner, teardown, Goto
<1>1. CASE ExchangeFails(c) \/ ExchangeEnds(c) \/ GlareCheck(c)
  BY <1>1, UnheardStays DEF ExchangeFails, ExchangeEnds, GlareCheck, WindowPcs, DropPcs, SetupPcs
<1>2. CASE RunnerDrops(c) \/ SetSenders(c) \/ SetMux(c) \/ SetHb(c)
  BY <1>2, UnheardStays DEF RunnerDrops, SetSenders, SetMux, SetHb, SetupPc
<1>3. CASE RecordOutcome(c) \/ (rpeer[c] # p /\ (Yield(c) \/ InsertSession(c) \/ NotifyActive(c)))
  BY <1>3, UnheardStays DEF RecordOutcome, Yield, InsertSession, NotifyActive, WindowPcs
<1>4. ASSUME rpeer[c] = p, Yield(c) \/ InsertSession(c) \/ NotifyActive(c)
      PROVE  Announced(p)'
  <2>1. rout[c] = "Active" /\ Runs(c, p) /\ \A a \in Agents : ~Tears(a, p)
    BY <1>4 DEF AllActive, Yield, InsertSession, NotifyActive, Alone, WindowPcs, SetupPcs
  <2>2. \A a \in Agents : ~Tears(a, p)'
    BY <1>4, <2>1 DEF Yield, InsertSession, NotifyActive
  <2>3. CASE Yield(c) \/ InsertSession(c)
    <3>1. sessions'[p] = "Active"
      BY <1>4, <2>1, <2>3 DEF Yield, InsertSession
    <3>2. QED
      BY <2>2, <3>1 DEF Announced
  <2>4. CASE NotifyActive(c)
    <3>1. RunnerAt(p, {"record", "insert"})'
      BY <1>4, <2>4 DEF NotifyActive, RunnerAt, WindowPcs
    <3>2. QED
      BY <2>2, <3>1 DEF Announced
  <2>5. QED
    BY <1>4, <2>3, <2>4
<1>5. QED
  BY <1>1, <1>2, <1>3, <1>4 DEF Runner

LEMMA TeardownAnnounces ==
  ASSUME TypeOK, NEW p \in Peer, NEW a \in Agents, Teardown(a), Announced(p), Alone(p)
  PROVE  Announced(p)'
<1> USE DEF TypeOK, Runs, Tears, table, maps, sockets, runner, teardown, TearGoto
<1>1. CASE TearDrops(a)
  BY <1>1, UnheardStays DEF TearDrops, Unheard
<1>2. CASE tpeer[a] # p
  BY <1>2, UnheardStays DEF Teardown, TearDrops, TakeSession, NotifyInactive, FinishTeardown,
     RemoveSession, SetCache, Unheard
<1>3. ASSUME tpeer[a] = p, TakeSession(a) \/ NotifyInactive(a) \/ FinishTeardown(a)
      PROVE  Announced(p)'
  <2>1. /\ Tears(a, p) /\ \A c \in Conn : ~Runs(c, p)
        /\ \A b \in Agents : Tears(b, p) => b = a
    BY <1>3 DEF TakeSession, NotifyInactive, FinishTeardown, Alone
  <2>2. \A b \in Agents \ {a} : ~Tears(b, p)'
    BY <1>3, <2>1 DEF TakeSession, NotifyInactive, FinishTeardown
  <2>3. CASE TakeSession(a)
    BY <1>3, <2>1, <2>2, <2>3 DEF TakeSession, Announced, RunnerAt
  <2>4. CASE NotifyInactive(a)
    <3>1. /\ told[p] => tcaps[a]
          /\ told'[p] = (told[p] /\ ~tcaps[a])
      BY <1>3, <2>1, <2>4 DEF NotifyInactive, Announced, RunnerAt
    <3>2. ~told'[p] /\ tpc'[a] # "notify"
      BY <2>4, <3>1 DEF NotifyInactive
    <3>3. QED
      BY <2>2, <3>2 DEF Announced
  <2>5. CASE FinishTeardown(a)
    BY <1>3, <2>1, <2>2, <2>5 DEF FinishTeardown, RemoveSession, SetCache, Announced, RunnerAt
  <2>6. QED
    BY <1>3, <2>3, <2>4, <2>5
<1>4. QED
  BY <1>1, <1>2, <1>3 DEF Teardown

LEMMA RbAnnounces ==
  ASSUME TypeOK, AllActive, NEW p \in Peer, RbStart \/ Rebroadcast, Announced(p), Alone(p)
  PROVE  Announced(p)'
<1> USE DEF TypeOK, RbStates, Runs, Tears, table, maps, sockets, runner, teardown
<1>1. CASE ~RbFinish \/ rb.peer # p
  <2>1. /\ UNCHANGED <<rpc, rpeer, teardown>>
        /\ sessions'[p] = sessions[p]
    BY <1>1 DEF RbStart, Rebroadcast, RbOldSet, RbExchange, RbPick, RbFinish, SetCache
  <2>2. told'[p] => told[p]
    BY <1>1, ZenonT(40) DEF RbStart, Rebroadcast, RbOldSet, RbExchange, RbPick, RbFinish, SetCache
  <2>3. QED
    BY <2>1, <2>2, UnheardStays DEF Unheard
<1>2. CASE RbFinish /\ rb.peer = p
  <2>1. \A a \in Agents : ~Tears(a, p)'
    BY <1>2 DEF RbFinish, Alone, Reoffered
  <2>2. UNCHANGED <<rpc, rpeer>> /\ (told'[p] => told[p])
    BY <1>2 DEF RbFinish, SetCache
  <2>3. sessions'[p] = sessions[p] \/ sessions'[p] = "Active"
    BY <1>2 DEF RbFinish, SetCache, AllActive
  <2>4. \A a \in Agents : ~Tears(a, p)
    BY <1>2 DEF Alone, Reoffered
  <2>5. QED
    BY <2>1, <2>2, <2>3, <2>4 DEF Announced, RunnerAt
<1>3. QED
  BY <1>1, <1>2

LEMMA AnnouncedStep ==
  ASSUME Inv, SerialInv, AllActive, AnnouncedInv, [Next]_vars
  PROVE  AnnouncedInv'
<1> SUFFICES ASSUME NEW p \in Peer, ~raced'[p]
             PROVE  Announced(p)'
  BY DEF AnnouncedInv
<1> USE DEF Inv
<1>1. UNCHANGED raced => Announced(p) /\ Alone(p)
  BY DEF AnnouncedInv, SerialInv, Serial
<1>2. \A ps \in SUBSET Peer : Enter(ps) => Announced(p) /\ Alone(p)
  BY EnterAlone DEF AnnouncedInv, SerialInv, Serial
<1>3. ASSUME NEW c \in Conn, Runner(c)
      PROVE  Announced(p)'
  <2>1. Announced(p) /\ Alone(p)
    <3>1. CASE GlareCheck(c)
      BY <1>2, <3>1 DEF GlareCheck, TargetsKnown
    <3>2. CASE ~GlareCheck(c)
      BY <1>1, <1>3, <3>2 DEF Runner, ExchangeFails, ExchangeEnds, Yield, RunnerDrops, SetSenders,
         SetMux, SetHb, NotifyActive, RecordOutcome, InsertSession
    <3>3. QED
      BY <3>1, <3>2
  <2>2. QED
    BY <1>3, <2>1, RunnerAnnounces
<1>4. ASSUME NEW a \in Agents, NEW q \in Peer, NEW kind \in TearKinds, StartTeardown(a, q, kind)
      PROVE  Announced(p)'
  <2>1. Announced(p)
    BY <1>2, <1>4 DEF StartTeardown
  <2>2. Unheard(p)
    BY <1>4 DEF StartTeardown, Unheard, Runs, Tears, table, runner, TypeOK
  <2>3. QED
    BY <2>1, <2>2, UnheardStays
<1>5. ASSUME NEW c \in Conn, OnHbTimeout(c)
      PROVE  Announced(p)'
  <2>1. rpeer[c] \in Peer
    BY <1>5 DEF OnHbTimeout, TargetsKnown
  <2>2. QED
    BY <1>4, <1>5, <2>1 DEF OnHbTimeout, Agents, TearKinds
<1>6. ASSUME NEW q \in Peer, OnWgDown(q) \/ OnDeny(q)
      PROVE  Announced(p)'
  BY <1>4, <1>6 DEF OnWgDown, OnDeny, TearKinds
<1>7. ASSUME NEW a \in Agents, Teardown(a)
      PROVE  Announced(p)'
  <2>1. UNCHANGED raced
    BY <1>7 DEF Teardown, TearDrops, TakeSession, NotifyInactive, FinishTeardown
  <2>2. QED
    BY <1>1, <1>7, <2>1, TeardownAnnounces
<1>8. CASE RbStart \/ Rebroadcast
  <2>1. Announced(p) /\ Alone(p)
    <3>1. CASE RbStart
      BY <1>2, <3>1 DEF RbStart
    <3>2. CASE Rebroadcast
      BY <1>1, <3>2 DEF Rebroadcast, RbOldSet, RbExchange, RbPick, RbFinish
    <3>3. QED
      BY <1>8, <3>1, <3>2
  <2>2. QED
    BY <1>8, <2>1, RbAnnounces
<1>9. ASSUME NEW q \in Peer, SendFails(q) \/ SendEvicts(q)
      PROVE  Announced(p)'
  <2>1. Announced(p)
    BY <1>1, <1>2, <1>9 DEF SendFails, SendEvicts
  <2>2. Unheard(p)
    BY <1>9 DEF SendFails, SendEvicts, DropSenders, Unheard, Runs, Tears, table, runner, teardown
  <2>3. QED
    BY <2>1, <2>2, UnheardStays
<1>10. CASE \/ \E q \in Peer, c \in Conn : OnPeerVisible(q, c) \/ Accept(q, c)
            \/ \E c \in Conn : SocketBreaks(c) \/ WriterEnds(c) \/ HbTimeout(c)
            \/ \E q \in Peer : CacheLapses(q)
            \/ UNCHANGED vars
  <2>1. Announced(p)
    BY <1>1, <1>10 DEF OnPeerVisible, Accept, StartRunner, SocketBreaks, WriterEnds, HbTimeout,
       CacheLapses, vars
  <2>2. Unheard(p)
    <3> USE DEF Unheard, Runs, Tears, table, runner, teardown, TypeOK
    <3>1. ASSUME NEW q \in Peer, NEW c \in Conn, NEW i \in BOOLEAN, StartRunner(c, q, i)
          PROVE  Unheard(p)
      BY <3>1 DEF StartRunner, Goto, WindowPcs, DropPcs, SetupPcs
    <3>2. CASE \/ \E c \in Conn : SocketBreaks(c) \/ WriterEnds(c) \/ HbTimeout(c)
               \/ \E q \in Peer : CacheLapses(q)
               \/ UNCHANGED vars
      BY <3>2 DEF SocketBreaks, WriterEnds, HbTimeout, CacheLapses, SetCache, vars
    <3>3. QED
      BY <1>10, <3>1, <3>2 DEF OnPeerVisible, Accept
  <2>3. QED
    BY <2>1, <2>2, UnheardStays
<1>11. QED
  BY <1>3, <1>5, <1>6, <1>7, <1>8, <1>9, <1>10 DEF Next, Environment

(* If no exchange ends with nothing in common, and the activities of a peer   *)
(* never overlapped, then whenever none is under way a peer that the          *)
(* capabilities believe to be active has a session whose end will be          *)
(* announced.                                                                 *)
THEOREM SerialStaysTold == Outcomes = {"Active"} => (Spec => []SerialTold)
<1> SUFFICES ASSUME Outcomes = {"Active"}
             PROVE  Spec => []SerialTold
  OBVIOUS
<1>1. Init => RbKnown /\ SerialInv /\ AllActive /\ AnnouncedInv
  BY SerialInit DEF Init, AllActive, AnnouncedInv, Announced, Tears, IdleRb, WindowPcs, DropPcs,
     SetupPcs
<1>2. ASSUME Inv, Inv', RbKnown, SerialInv, AllActive, AnnouncedInv, [Next]_vars
      PROVE  (RbKnown /\ SerialInv /\ AllActive /\ AnnouncedInv)'
  BY <1>2, RbKnownStep, SerialStep, AllActiveStep, AnnouncedStep DEF Inv
<1>3. AnnouncedInv => SerialTold
  BY QuietFacts DEF AnnouncedInv, Announced, SerialTold, RunnerAt
<1>4. QED
  BY <1>1, <1>2, <1>3, InvInductive, PTL DEF Spec

================================================================================
