------------------------------ MODULE P2pcdEngine ------------------------------
(* The session engine of one node: node/daemon/src/p2pcd/engine/.             *)
(*                                                                            *)
(* The engine keeps one entry per remote peer in several maps, each behind a  *)
(* lock of its own.  Session runners (one tokio task per TCP socket), the two *)
(* event loops (WireGuard events, heartbeat events), the HTTP handlers (deny, *)
(* rebroadcast) and the bridge (send_to_peer) all change those maps, and none *)
(* of them holds a lock across two maps.  Every action below is one segment   *)
(* between two lock acquisitions.                                             *)
EXTENDS FiniteSets, Integers

CONSTANTS
  Peer,        \* the remote peers
  Conn,        \* the TCP sockets a behaviour may use, each at most once
  NoPeer,      \* rpeer of a socket not opened yet
  NoConn,      \* an absent entry of a per-peer map
  Higher,      \* the peers whose id is greater than local_peer_id
  Outcomes,    \* what an OFFER/CONFIRM exchange may end in
  HbChoices,   \* whether core.session.heartbeat.1 may be in the active set
  Tasks        \* the daemon's tasks that take part beside the session runners

SessionStates == {"Absent", "Active", "None"}

\* The WireGuard event loop, the heartbeat event loop, an HTTP handler calling
\* deny_session, one calling rebroadcast, and the bridge's send_to_peer.
AllTasks == {"wg", "hb", "api", "rebroadcast", "bridge"}

\* The tasks that run on_peer_unreachable.
Agents == Tasks \cap {"wg", "hb", "api"}

ASSUME ConnAssumption  == NoConn \notin Conn /\ NoPeer \notin Peer
ASSUME ParamAssumption ==
  /\ Higher \subseteq Peer
  /\ Outcomes \subseteq {"Active", "None"}
  /\ HbChoices \subseteq BOOLEAN
  /\ Tasks \subseteq AllTasks

VARIABLES
  sessions,   \* ProtocolEngine.sessions: state of the stored session
  held,       \* transport still inside the stored session (raw, not multiplexed)
  senders,    \* peer_senders: the socket send_to_peer writes to
  handlers,   \* the per-peer senders of the rpc, blob, stream, ... handlers
  muxHandle,  \* mux_handles
  hbHandle,   \* heartbeat_handles
  muxUp,      \* sockets whose mux task is running
  hbUp,       \* sockets whose heartbeat task is running
  hbq,        \* sockets whose HeartbeatEvent::Timeout waits in the channel
  broken,     \* sockets the network or the remote end has given up
  closed,     \* sockets whose writer task ended: SharedSender::is_closed()
  cache,      \* peer_cache: last outcome
  told,       \* peers whose last published event is peer-active
  rpc,        \* program counter of the socket's session runner
  rpeer,      \* the socket's remote peer
  rinit,      \* we dialled the socket (run_initiator_session)
  rout,       \* outcome of the runner's exchange
  rhb,        \* the runner's active set contains the heartbeat capability
  tpc,        \* program counter of an agent inside on_peer_unreachable
  tpeer,      \* its argument
  tkind,      \* its caller: on_peer_unreachable itself, on_peer_removed, deny_session
  tcaps,      \* the active set it took out of sessions was not empty
  evict,      \* peers whose sender send_to_peer found closed and will remove
  rb,         \* the rebroadcast loop
  raced       \* history: two activities of a peer have overlapped

maps      == <<senders, handlers, muxHandle, hbHandle>>
sockets   == <<muxUp, hbUp, hbq, broken, closed>>
runner    == <<rpeer, rinit, rout, rhb>>
teardown  == <<tpc, tpeer, tkind, tcaps>>
table     == <<sessions, held, cache, told>>
vars == <<table, maps, sockets, rpc, runner, teardown, evict, rb, raced>>

\* The segments of a session runner.  "glare" is the read of peer_senders that
\* follows the exchange, dropXxx is tear_down_mux_only, setXxx and "notify" are
\* post_session_setup, "record" is record_session_outcome.
DropPcs   == {"dropHb", "dropSenders", "dropMux"}
SetupPcs  == {"setSenders", "setMux", "setHb", "notify"}
WindowPcs == DropPcs \cup SetupPcs \cup {"yield", "record", "insert"}
RunnerPcs == WindowPcs \cup {"unused", "exchange", "glare", "done"}
TearPcs   == {"idle", "hb", "senders", "mux", "take", "notify", "finish", "finish2"}
RbPcs     == {"idle", "pick", "old", "exchange", "record", "notify", "insert"}
TearKinds == {"unreachable", "removed", "deny"}
ConnOrNone == Conn \cup {NoConn}

--------------------------------------------------------------------------------
(* Shared vocabulary.                                                         *)

\* peer_senders.get(p).map(|tx| !tx.is_closed()).unwrap_or(false)
Alive(p) == senders[p] # NoConn /\ senders[p] \notin closed

\* The lower peer id is the canonical initiator.
Canonical(c) == rinit[c] = (rpeer[c] \in Higher)

\* Mutant: post_session_setup forgets to look at the state.
SetupPcAlways(c) == "setSenders"

\* post_session_setup returns at once unless the session is Active.
SetupPc(c) == IF rout[c] = "Active" THEN "setSenders" ELSE "record"

\* p has no runner past its glare check, no teardown, no rebroadcast, and no sender
\* that the bridge is about to remove.
Quiet(p) ==
  /\ \A c \in Conn : rpeer[c] = p => rpc[c] \notin WindowPcs
  /\ \A a \in Agents : tpc[a] # "idle" => tpeer[a] # p
  /\ p \notin rb.todo /\ rb.peer # p
  /\ p \notin evict

\* An activity for the peers in ps begins.
Enter(ps) == raced' = [p \in Peer |-> raced[p] \/ (p \in ps /\ ~Quiet(p))]

Goto(c, pc) == rpc' = [rpc EXCEPT ![c] = pc]
TearGoto(a, pc) == tpc' = [tpc EXCEPT ![a] = pc]

IdleRb == [pc |-> "idle", todo |-> {}, peer |-> NoPeer, old |-> FALSE, out |-> "None"]

Init ==
  /\ sessions = [p \in Peer |-> "Absent"]
  /\ held = [p \in Peer |-> NoConn]
  /\ senders = [p \in Peer |-> NoConn]
  /\ handlers = [p \in Peer |-> NoConn]
  /\ muxHandle = [p \in Peer |-> NoConn]
  /\ hbHandle = [p \in Peer |-> NoConn]
  /\ muxUp = {} /\ hbUp = {} /\ hbq = {} /\ broken = {} /\ closed = {}
  /\ cache = [p \in Peer |-> "Absent"]
  /\ told = [p \in Peer |-> FALSE]
  /\ rpc = [c \in Conn |-> "unused"]
  /\ rpeer = [c \in Conn |-> NoPeer]
  /\ rinit = [c \in Conn |-> FALSE]
  /\ rout = [c \in Conn |-> "None"]
  /\ rhb = [c \in Conn |-> FALSE]
  /\ tpc = [a \in Agents |-> "idle"]
  /\ tpeer = [a \in Agents |-> NoPeer]
  /\ tkind = [a \in Agents |-> "unreachable"]
  /\ tcaps = [a \in Agents |-> FALSE]
  /\ evict = {}
  /\ rb = IdleRb
  /\ raced = [p \in Peer |-> FALSE]

--------------------------------------------------------------------------------
(* Session runners: one per socket.                                           *)

StartRunner(c, p, initiator) ==
  /\ rpc[c] = "unused"
  /\ Goto(c, "exchange")
  /\ rpeer' = [rpeer EXCEPT ![c] = p]
  /\ rinit' = [rinit EXCEPT ![c] = initiator]
  /\ UNCHANGED <<table, maps, sockets, rout, rhb, teardown, evict, rb, raced>>

\* The event loop handles one WireGuard event at a time.  A peer with an Active
\* session and a peer cached as None are skipped; an unresolvable address is the
\* event not happening.
OnPeerVisible(p, c) ==
  /\ "wg" \in Agents => tpc["wg"] = "idle"
  /\ sessions[p] # "Active"
  /\ cache[p] # "None"
  /\ StartRunner(c, p, TRUE)

\* accept_loop: an inbound socket from an address that resolves to p.
Accept(p, c) == StartRunner(c, p, FALSE)

\* Connect, OFFER and CONFIRM: no engine state changes before they end.
ExchangeFails(c) ==
  /\ rpc[c] = "exchange"
  /\ Goto(c, "done")
  /\ UNCHANGED <<table, maps, sockets, runner, teardown, evict, rb, raced>>

ExchangeEnds(c) ==
  /\ rpc[c] = "exchange"
  /\ Goto(c, "glare")
  /\ \E out \in Outcomes, hb \in HbChoices :
       /\ rout' = [rout EXCEPT ![c] = out]
       /\ rhb' = [rhb EXCEPT ![c] = hb]
  /\ UNCHANGED <<table, maps, sockets, rpeer, rinit, teardown, evict, rb, raced>>

\* The post-exchange glare check: read peer_senders, then act on what was read.
GlareCheck(c) ==
  LET p == rpeer[c] IN
  /\ rpc[c] = "glare"
  /\ Goto(c, CASE ~Canonical(c) /\ Alive(p)            -> "yield"
               [] Canonical(c) /\ senders[p] # NoConn  -> "dropHb"
               [] OTHER                                -> SetupPc(c))
  /\ Enter({p})
  /\ UNCHANGED <<table, maps, sockets, runner, teardown, evict, rb>>

\* The other side's socket wins: store the session with its transport and stop.
Yield(c) ==
  /\ rpc[c] = "yield"
  /\ sessions' = [sessions EXCEPT ![rpeer[c]] = rout[c]]
  /\ held' = [held EXCEPT ![rpeer[c]] = c]
  /\ Goto(c, "done")
  /\ UNCHANGED <<cache, told, maps, sockets, runner, teardown, evict, rb, raced>>

\* heartbeat_handles.remove(p) and abort
DropHb(p) ==
  /\ hbUp' = hbUp \ {hbHandle[p]}
  /\ hbHandle' = [hbHandle EXCEPT ![p] = NoConn]
  /\ UNCHANGED <<senders, handlers, muxHandle, muxUp, hbq, broken, closed>>

DropSenders(p) ==
  /\ senders' = [senders EXCEPT ![p] = NoConn]
  /\ UNCHANGED <<handlers, muxHandle, hbHandle, sockets>>

\* The handlers' remove_peer_sender calls, then mux_handles.remove(p) and abort.
DropMux(p) ==
  /\ muxUp' = muxUp \ {muxHandle[p]}
  /\ muxHandle' = [muxHandle EXCEPT ![p] = NoConn]
  /\ handlers' = [handlers EXCEPT ![p] = NoConn]
  /\ UNCHANGED <<senders, hbHandle, hbUp, hbq, broken, closed>>

\* Mutant: tear_down_mux_only ends before the mux handle.
RunnerDropsNoMux(c) ==
  /\ \/ rpc[c] = "dropHb"      /\ DropHb(rpeer[c])      /\ Goto(c, "dropSenders")
     \/ rpc[c] = "dropSenders" /\ DropSenders(rpeer[c]) /\ Goto(c, SetupPc(c))
  /\ UNCHANGED <<table, runner, teardown, evict, rb, raced>>

\* tear_down_mux_only: the canonical socket replaces whatever is wired.
RunnerDrops(c) ==
  /\ \/ rpc[c] = "dropHb"      /\ DropHb(rpeer[c])      /\ Goto(c, "dropSenders")
     \/ rpc[c] = "dropSenders" /\ DropSenders(rpeer[c]) /\ Goto(c, "dropMux")
     \/ rpc[c] = "dropMux"     /\ DropMux(rpeer[c])     /\ Goto(c, SetupPc(c))
  /\ UNCHANGED <<table, runner, teardown, evict, rb, raced>>

\* build_session_mux spawns the mux task, then the shared sender is stored.  On a
\* broken socket the task ends as soon as it starts.
SetSenders(c) ==
  /\ rpc[c] = "setSenders"
  /\ muxUp' = muxUp \cup ({c} \ broken)
  /\ senders' = [senders EXCEPT ![rpeer[c]] = c]
  /\ Goto(c, "setMux")
  /\ UNCHANGED <<table, handlers, muxHandle, hbHandle, hbUp, hbq, broken, closed,
                 runner, teardown, evict, rb, raced>>

\* An overwritten JoinHandle detaches its task; it is not aborted.
SetMux(c) ==
  /\ rpc[c] = "setMux"
  /\ muxHandle' = [muxHandle EXCEPT ![rpeer[c]] = c]
  /\ Goto(c, IF rhb[c] THEN "setHb" ELSE "notify")
  /\ UNCHANGED <<table, senders, handlers, hbHandle, sockets, runner, teardown,
                 evict, rb, raced>>

SetHb(c) ==
  /\ rpc[c] = "setHb"
  /\ hbUp' = hbUp \cup {c}
  /\ hbHandle' = [hbHandle EXCEPT ![rpeer[c]] = c]
  /\ Goto(c, "notify")
  /\ UNCHANGED <<table, senders, handlers, muxHandle, muxUp, hbq, broken, closed,
                 runner, teardown, evict, rb, raced>>

\* The handlers' add_peer_sender calls, then notify_peer_active unless the peer's
\* address no longer resolves.
NotifyActive(c) ==
  /\ rpc[c] = "notify"
  /\ handlers' = [handlers EXCEPT ![rpeer[c]] = c]
  /\ \E resolved \in BOOLEAN : told' = [told EXCEPT ![rpeer[c]] = @ \/ resolved]
  /\ Goto(c, "record")
  /\ UNCHANGED <<sessions, held, cache, senders, muxHandle, hbHandle, sockets, runner,
                 teardown, evict, rb, raced>>

RecordOutcome(c) ==
  /\ rpc[c] = "record"
  /\ cache' = [cache EXCEPT ![rpeer[c]] = rout[c]]
  /\ Goto(c, "insert")
  /\ UNCHANGED <<sessions, held, told, maps, sockets, runner, teardown, evict, rb, raced>>

\* A session that did not become Active still owns its transport.
InsertSession(c) ==
  /\ rpc[c] = "insert"
  /\ sessions' = [sessions EXCEPT ![rpeer[c]] = rout[c]]
  /\ held' = [held EXCEPT ![rpeer[c]] = IF rout[c] = "Active" THEN NoConn ELSE c]
  /\ Goto(c, "done")
  /\ UNCHANGED <<cache, told, maps, sockets, runner, teardown, evict, rb, raced>>

Runner(c) ==
  \/ ExchangeFails(c) \/ ExchangeEnds(c)
  \/ GlareCheck(c) \/ Yield(c) \/ RunnerDrops(c)
  \/ SetSenders(c) \/ SetMux(c) \/ SetHb(c)
  \/ NotifyActive(c) \/ RecordOutcome(c) \/ InsertSession(c)

--------------------------------------------------------------------------------
(* Teardown: on_peer_unreachable and its callers.                             *)

StartTeardown(a, p, kind) ==
  /\ tpc[a] = "idle"
  /\ tpc' = [tpc EXCEPT ![a] = "hb"]
  /\ tpeer' = [tpeer EXCEPT ![a] = p]
  /\ tkind' = [tkind EXCEPT ![a] = kind]
  /\ Enter({p})
  /\ UNCHANGED <<table, maps, muxUp, hbUp, broken, closed, rpc, runner, tcaps, evict, rb>>

\* WgPeerEvent::PeerUnreachable and PeerRemoved
OnWgDown(p) ==
  /\ "wg" \in Agents
  /\ \E kind \in {"unreachable", "removed"} : StartTeardown("wg", p, kind)
  /\ UNCHANGED hbq

\* Mutant: a Timeout for a peer whose session is not Active yet is dropped.
OnHbTimeoutIfActive(c) ==
  /\ "hb" \in Agents
  /\ c \in hbq
  /\ hbq' = hbq \ {c}
  /\ \/ sessions[rpeer[c]] = "Active" /\ StartTeardown("hb", rpeer[c], "unreachable")
     \/ /\ sessions[rpeer[c]] # "Active"
        /\ UNCHANGED <<table, maps, muxUp, hbUp, broken, closed, rpc, runner, teardown,
                       evict, rb, raced>>

\* HeartbeatEvent::Timeout names the peer, not the socket.
OnHbTimeout(c) ==
  /\ "hb" \in Agents
  /\ c \in hbq
  /\ hbq' = hbq \ {c}
  /\ StartTeardown("hb", rpeer[c], "unreachable")

\* deny_session, called by the access and node routes
OnDeny(p) ==
  /\ "api" \in Agents
  /\ StartTeardown("api", p, "deny")
  /\ UNCHANGED hbq

TearDrops(a) ==
  /\ \/ tpc[a] = "hb"      /\ DropHb(tpeer[a])      /\ TearGoto(a, "senders")
     \/ tpc[a] = "senders" /\ DropSenders(tpeer[a]) /\ TearGoto(a, "mux")
     \/ tpc[a] = "mux"     /\ DropMux(tpeer[a])     /\ TearGoto(a, "take")
  /\ UNCHANGED <<table, rpc, runner, tpeer, tkind, tcaps, evict, rb, raced>>

\* Mutant: the session is removed before its active set is read.
TakeSessionLate(a) ==
  LET p == tpeer[a] IN
  /\ tpc[a] = "take"
  /\ sessions' = [sessions EXCEPT ![p] = "Absent"]
  /\ held' = [held EXCEPT ![p] = NoConn]
  /\ tcaps' = [tcaps EXCEPT ![a] = sessions'[p] = "Active"]
  /\ TearGoto(a, "notify")
  /\ UNCHANGED <<cache, told, maps, sockets, rpc, runner, tpeer, tkind, evict, rb, raced>>

\* Under the sessions lock: best-effort CLOSE (a session that owns no transport
\* any more sends none), keep the active set, remove.
TakeSession(a) ==
  LET p == tpeer[a] IN
  /\ tpc[a] = "take"
  /\ tcaps' = [tcaps EXCEPT ![a] = sessions[p] = "Active"]
  /\ sessions' = [sessions EXCEPT ![p] = "Absent"]
  /\ held' = [held EXCEPT ![p] = NoConn]
  /\ TearGoto(a, "notify")
  /\ UNCHANGED <<cache, told, maps, sockets, rpc, runner, tpeer, tkind, evict, rb, raced>>

\* notify_peer_inactive, when the active set was not empty
NotifyInactive(a) ==
  /\ tpc[a] = "notify"
  /\ told' = [told EXCEPT ![tpeer[a]] = @ /\ ~tcaps[a]]
  /\ tcaps' = [tcaps EXCEPT ![a] = FALSE]
  /\ TearGoto(a, IF tkind[a] = "unreachable" THEN "idle" ELSE "finish")
  /\ UNCHANGED <<sessions, held, cache, maps, sockets, rpc, runner, tpeer, tkind,
                 evict, rb, raced>>

RemoveSession(p) ==
  /\ sessions' = [sessions EXCEPT ![p] = "Absent"]
  /\ held' = [held EXCEPT ![p] = NoConn]
  /\ UNCHANGED <<cache, told>>

SetCache(p, out) ==
  /\ cache' = [cache EXCEPT ![p] = out]
  /\ UNCHANGED <<sessions, held, told>>

\* on_peer_removed: sessions.remove, then peer_cache.remove.
\* deny_session: cache as Denied, then sessions.remove.
FinishTeardown(a) ==
  LET p == tpeer[a] IN
  /\ \/ tpc[a] = "finish"  /\ tkind[a] = "removed" /\ RemoveSession(p)      /\ TearGoto(a, "finish2")
     \/ tpc[a] = "finish2" /\ tkind[a] = "removed" /\ SetCache(p, "Absent") /\ TearGoto(a, "idle")
     \/ tpc[a] = "finish"  /\ tkind[a] = "deny"    /\ SetCache(p, "Denied") /\ TearGoto(a, "finish2")
     \/ tpc[a] = "finish2" /\ tkind[a] = "deny"    /\ RemoveSession(p)      /\ TearGoto(a, "idle")
  /\ UNCHANGED <<maps, sockets, rpc, runner, tpeer, tkind, tcaps, evict, rb, raced>>

Teardown(a) == TearDrops(a) \/ TakeSession(a) \/ NotifyInactive(a) \/ FinishTeardown(a)

--------------------------------------------------------------------------------
(* Rebroadcast: re-run the exchange with every Active peer whose sender is    *)
(* dead, on a socket that is dropped again afterwards.                        *)

RbStart ==
  /\ rb.pc = "idle"
  /\ "rebroadcast" \in Tasks
  /\ LET active == {p \in Peer : sessions[p] = "Active"} IN
       /\ active # {}
       /\ rb' = [rb EXCEPT !.pc = "pick", !.todo = active]
       /\ Enter(active)
  /\ UNCHANGED <<table, maps, sockets, rpc, runner, teardown, evict>>

RbNext(todo) == IF todo = {} THEN IdleRb ELSE [IdleRb EXCEPT !.pc = "pick", !.todo = todo]

\* Skip a peer whose transport is still alive.
RbPick(p) ==
  /\ rb.pc = "pick" /\ p \in rb.todo
  /\ rb' = IF Alive(p) THEN RbNext(rb.todo \ {p})
           ELSE [rb EXCEPT !.pc = "old", !.todo = @ \ {p}, !.peer = p]
  /\ UNCHANGED <<table, maps, sockets, rpc, runner, teardown, evict, raced>>

RbOldSet ==
  /\ rb.pc = "old"
  /\ rb' = IF sessions[rb.peer] = "Absent" THEN RbNext(rb.todo)
           ELSE [rb EXCEPT !.pc = "exchange", !.old = sessions[rb.peer] = "Active"]
  /\ UNCHANGED <<table, maps, sockets, rpc, runner, teardown, evict, raced>>

RbExchange ==
  /\ rb.pc = "exchange"
  /\ \/ rb' = RbNext(rb.todo)
     \/ \E out \in Outcomes : rb' = [rb EXCEPT !.pc = "record", !.out = out]
  /\ UNCHANGED <<table, maps, sockets, rpc, runner, teardown, evict, raced>>

RbFinish ==
  /\ \/ /\ rb.pc = "record"
        /\ SetCache(rb.peer, rb.out)
        /\ rb' = [rb EXCEPT !.pc = "notify"]
     \/ /\ rb.pc = "notify"
        /\ told' = [told EXCEPT ![rb.peer] = @ /\ ~(rb.old /\ rb.out # "Active")]
        /\ UNCHANGED <<sessions, held, cache>>
        /\ rb' = [rb EXCEPT !.pc = "insert"]
     \/ /\ rb.pc = "insert"
        /\ sessions' = [sessions EXCEPT ![rb.peer] = rb.out]
        /\ held' = [held EXCEPT ![rb.peer] = NoConn]
        /\ UNCHANGED <<cache, told>>
        /\ rb' = RbNext(rb.todo)
  /\ UNCHANGED <<maps, sockets, rpc, runner, teardown, evict, raced>>

Rebroadcast == RbOldSet \/ RbExchange \/ RbFinish \/ \E p \in Peer : RbPick(p)

--------------------------------------------------------------------------------
(* Sockets, heartbeats, the bridge and the clock.                             *)

\* The engine still depends on the socket.
InUse(c) ==
  /\ rpc[c] \notin {"unused", "exchange"}
  /\ rpc[c] # "done" \/ c \in muxUp \cup hbUp \/ senders[rpeer[c]] = c

\* The reader task stops, so the mux task runs out of messages and ends.
SocketBreaks(c) ==
  /\ InUse(c) /\ c \notin broken
  /\ broken' = broken \cup {c}
  /\ muxUp' = muxUp \ {c}
  /\ UNCHANGED <<table, maps, hbUp, hbq, closed, rpc, runner, teardown, evict, rb, raced>>

WriterEnds(c) ==
  /\ InUse(c) /\ c \in broken \ closed
  /\ closed' = closed \cup {c}
  /\ UNCHANGED <<table, maps, muxUp, hbUp, hbq, broken, rpc, runner, teardown, evict, rb, raced>>

\* Mutant: the heartbeat task ends without sending its Timeout.
HbTimeoutSilent(c) ==
  /\ c \in hbUp
  /\ c \in broken \/ c \notin muxUp
  /\ hbUp' = hbUp \ {c}
  /\ UNCHANGED <<table, maps, muxUp, hbq, broken, closed, rpc, runner, teardown, evict, rb, raced>>

\* The PING cannot be sent, the PONG channel is gone, or three PONGs are missing.
HbTimeout(c) ==
  /\ c \in hbUp
  /\ c \in broken \/ c \notin muxUp
  /\ hbUp' = hbUp \ {c}
  /\ hbq' = hbq \cup {c}
  /\ UNCHANGED <<table, maps, muxUp, broken, closed, rpc, runner, teardown, evict, rb, raced>>

\* send_to_peer finds the channel closed and releases the lock ...
SendFails(p) ==
  /\ "bridge" \in Tasks
  /\ senders[p] \in closed
  /\ p \notin evict
  /\ evict' = evict \cup {p}
  /\ Enter({p})
  /\ UNCHANGED <<table, maps, sockets, rpc, runner, teardown, rb>>

\* ... then takes it again to remove the entry.
SendEvicts(p) ==
  /\ p \in evict
  /\ evict' = evict \ {p}
  /\ DropSenders(p)
  /\ UNCHANGED <<table, rpc, runner, teardown, rb, raced>>

\* The entry is older than CACHE_TTL_SECS, or invalidate_cache removed it.  (An
\* Active entry reads like none.)
CacheLapses(p) ==
  /\ cache[p] \in {"None", "Denied"}
  /\ SetCache(p, "Absent")
  /\ UNCHANGED <<maps, sockets, rpc, runner, teardown, evict, rb, raced>>

Environment ==
  \/ \E c \in Conn : SocketBreaks(c) \/ WriterEnds(c) \/ HbTimeout(c)
  \/ \E p \in Peer : SendFails(p) \/ SendEvicts(p) \/ CacheLapses(p)

Next ==
  \/ \E c \in Conn : Runner(c) \/ OnHbTimeout(c)
  \/ \E p \in Peer, c \in Conn : OnPeerVisible(p, c) \/ Accept(p, c)
  \/ \E p \in Peer : OnWgDown(p) \/ OnDeny(p)
  \/ \E a \in Agents : Teardown(a)
  \/ RbStart \/ Rebroadcast
  \/ Environment

Spec == Init /\ [][Next]_vars

\* tokio polls every ready task: a runner finishes (every read of the exchange
\* has a 10 s timeout), a started teardown goes on, the heartbeat task's timers
\* fire and the heartbeat event loop drains its channel.
Fairness ==
  /\ \A c \in Conn : WF_vars(Runner(c)) /\ WF_vars(HbTimeout(c)) /\ WF_vars(OnHbTimeout(c))
  /\ \A a \in Agents : WF_vars(Teardown(a))

FairSpec == Spec /\ Fairness

--------------------------------------------------------------------------------
(* Properties.                                                                *)

RbStates == [pc : RbPcs, todo : SUBSET Peer, peer : Peer \cup {NoPeer},
             old : BOOLEAN, out : {"Active", "None"}]

TypeOK ==
  /\ sessions \in [Peer -> SessionStates]
  /\ held \in [Peer -> ConnOrNone]
  /\ senders \in [Peer -> ConnOrNone]
  /\ handlers \in [Peer -> ConnOrNone]
  /\ muxHandle \in [Peer -> ConnOrNone]
  /\ hbHandle \in [Peer -> ConnOrNone]
  /\ muxUp \in SUBSET Conn /\ hbUp \in SUBSET Conn /\ hbq \in SUBSET Conn
  /\ broken \in SUBSET Conn /\ closed \in SUBSET Conn
  /\ cache \in [Peer -> {"Absent", "Active", "None", "Denied"}]
  /\ told \in [Peer -> BOOLEAN]
  /\ rpc \in [Conn -> RunnerPcs]
  /\ rpeer \in [Conn -> Peer \cup {NoPeer}]
  /\ rinit \in [Conn -> BOOLEAN]
  /\ rout \in [Conn -> {"Active", "None"}]
  /\ rhb \in [Conn -> BOOLEAN]
  /\ tpc \in [Agents -> TearPcs]
  /\ tpeer \in [Agents -> Peer \cup {NoPeer}]
  /\ tkind \in [Agents -> TearKinds]
  /\ tcaps \in [Agents -> BOOLEAN]
  /\ evict \in SUBSET Peer
  /\ rb \in RbStates
  /\ raced \in [Peer -> BOOLEAN]

\* What peer_senders holds for a peer is a socket of that very peer on which the
\* exchange found something in common, whatever runners and teardowns overlap.
SendersVetted ==
  \A p \in Peer : senders[p] # NoConn =>
    /\ rpeer[senders[p]] = p
    /\ rout[senders[p]] = "Active"
    /\ rpc[senders[p]] \in {"setMux", "setHb", "notify", "record", "insert", "done"}

\* A teardown or a glare replacement of p has yet to remove its sender.
RemovingSender(p) ==
  \/ \E c \in Conn : rpeer[c] = p /\ rpc[c] \in {"dropHb", "dropSenders"}
  \/ \E a \in Agents : tpeer[a] = p /\ tpc[a] \in {"hb", "senders"}

\* The socket in use is never left unwatched: when heartbeats were negotiated,
\* its heartbeat task runs, or its Timeout is on its way, or its runner is about
\* to start the task, or somebody is about to remove the sender.  It rests on
\* every teardown dropping the heartbeat before the sender, and on every setup
\* storing the sender before the heartbeat.
InUseIsWatched ==
  \A p \in Peer :
    LET c == senders[p] IN
    c # NoConn /\ rhb[c] =>
      c \in hbUp \cup hbq \/ rpc[c] \in {"setMux", "setHb"} \/ RemovingSender(p)

\* As long as a peer's runners and teardowns never overlapped, its maps agree
\* whenever none of them runs: the same socket everywhere (send_to_peer may have
\* evicted the sender), a mux behind every Active session, and no mux or heartbeat
\* that no handle tracks, except those of a socket whose writer had already ended
\* when a socket that is not the canonical one replaced it.
SerialTracked ==
  \A p \in Peer : ~raced[p] /\ Quiet(p) =>
    /\ senders[p] \in {NoConn, muxHandle[p]}
    /\ handlers[p] = muxHandle[p]
    /\ hbHandle[p] \in {NoConn, muxHandle[p]} \cup closed
    /\ \A c \in (muxUp \cup hbUp) \ closed : rpeer[c] = p => c = muxHandle[p]
    /\ sessions[p] = "Active" => muxHandle[p] # NoConn

\* Under the same condition a peer that capabilities were told is active has an
\* Active session, so that its end will be announced.
SerialTold ==
  \A p \in Peer : ~raced[p] /\ Quiet(p) /\ told[p] => sessions[p] = "Active"

\* A broken socket does not stay in peer_senders: if it negotiated heartbeats,
\* the Timeout it causes removes it, whatever else happens to the peer.
BrokenRetired ==
  \A p \in Peer, c \in Conn :
    senders[p] = c /\ c \in broken /\ rhb[c] ~> senders[p] # c

================================================================================
