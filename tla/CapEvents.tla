------------------------------- MODULE CapEvents -------------------------------
(* How a capability process learns which peers are active: the daemon's event  *)
(* bus (daemon/src/p2pcd/event_bus.rs), its event stream                       *)
(* (daemon/src/p2pcd/bridge/events.rs) and the client that keeps a PeerTracker *)
(* from it (p2pcd/src/capability_sdk.rs).  One capability of one daemon.  The  *)
(* events about one peer are published in the order of its session's changes;  *)
(* what orders them is P2pcdEngine's subject.                                  *)
EXTENDS Integers, Sequences, FiniteSets

CONSTANTS
  Peer,
  Capacity,      \* of the broadcast channel: 1024 in event_bus.rs
  MaxChanges,    \* bound on changes of sessions
  MaxBreaks      \* bound on broken streams and daemon restarts

ASSUME CapEventsAssumption ==
  Capacity \in Nat \ {0} /\ MaxChanges \in Nat /\ MaxBreaks \in Nat

VARIABLES
  active,     \* peers with an Active session whose active_set has the capability
  due,        \* due[p]: events about p the engine has still to publish
  dropping,   \* peers a re-exchange has reported inactive, session not yet replaced
  bus,        \* events the subscription of the stream holds
  lagged,     \* an event was lost to the capacity of the bus
  stream,     \* the daemon's side of the connection
  wire,       \* what the daemon has written and the client not read
  tracker,    \* the peers of the PeerTracker
  hooks,      \* hooks[p]: on_inactive futures spawned and not started
  untold,     \* peers of whose session a change was published late or never
  vanished,   \* peers a snapshot took out of the tracker
  changes, breaks

busVars == <<bus, lagged>>
streamVars == <<busVars, stream, wire>>
ghostVars == <<untold, vanished>>
capVars == <<active, due, dropping, streamVars, tracker, hooks, ghostVars, changes, breaks>>

Event(kind, p) == [type |-> kind, peer |-> p]
Snapshot(peers) == [type |-> "snapshot", peers |-> peers]
Message == [type : {"peer-active", "peer-inactive"}, peer : Peer]
             \cup [type : {"snapshot"}, peers : SUBSET Peer]

CapInit ==
  /\ active = {} /\ due = [p \in Peer |-> <<>>] /\ dropping = {}
  /\ bus = <<>> /\ lagged = FALSE /\ stream = "off" /\ wire = <<>>
  /\ tracker = {} /\ hooks = [p \in Peer |-> 0]
  /\ untold = {} /\ vanished = {} /\ changes = 0 /\ breaks = 0

--------------------------------------------------------------------------------
(* The engine.                                                                 *)

Change(p) == changes < MaxChanges /\ changes' = changes + 1 /\ p \notin dropping

\* A session reaches Active with the capability.  Nobody is told when the peer's
\* address is not known, or when a re-exchange brought the capability.
Up(p, told) ==
  /\ Change(p) /\ p \notin active
  /\ active' = active \cup {p}
  /\ due' = IF told THEN [due EXCEPT ![p] = Append(@, Event("peer-active", p))] ELSE due
  /\ untold' = IF told THEN untold ELSE untold \cup {p}
  /\ UNCHANGED <<dropping, streamVars, tracker, hooks, vanished, breaks>>

\* A teardown removes the session, and reports it afterwards.
Down(p) ==
  /\ Change(p) /\ p \in active
  /\ active' = active \ {p}
  /\ due' = [due EXCEPT ![p] = Append(@, Event("peer-inactive", p))]
  /\ UNCHANGED <<dropping, streamVars, tracker, hooks, ghostVars, breaks>>

\* EventBus::publish: a full channel loses its oldest event, and the next recv
\* says so.  Without a subscription the event is gone.
Published(e) ==
  IF stream \notin {"subscribed", "open"} \/ lagged THEN UNCHANGED busVars
  ELSE IF Len(bus) < Capacity THEN bus' = Append(bus, e) /\ UNCHANGED lagged
  ELSE bus' = <<>> /\ lagged' = TRUE

Publish(p) ==
  /\ due[p] # <<>>
  /\ Published(Head(due[p]))
  /\ due' = [due EXCEPT ![p] = Tail(@)]
  /\ UNCHANGED <<active, dropping, stream, wire, tracker, hooks, ghostVars, changes, breaks>>

\* rebroadcast: a re-exchange that loses the capability reports that first,
Report(p) ==
  /\ Change(p) /\ p \in active /\ due[p] = <<>>
  /\ Published(Event("peer-inactive", p))
  /\ dropping' = dropping \cup {p}
  /\ UNCHANGED <<active, due, stream, wire, tracker, hooks, ghostVars, breaks>>

\* and replaces the session's record afterwards.
Replace(p) ==
  /\ p \in dropping
  /\ active' = active \ {p} /\ dropping' = dropping \ {p}
  /\ UNCHANGED <<due, streamVars, tracker, hooks, ghostVars, changes, breaks>>

--------------------------------------------------------------------------------
(* The stream.                                                                 *)

\* handle_events subscribes before it reads the sessions,
Subscribe ==
  /\ stream = "off"
  /\ stream' = "subscribed" /\ bus' = <<>> /\ lagged' = FALSE
  /\ UNCHANGED <<active, due, dropping, wire, tracker, hooks, ghostVars, changes, breaks>>

\* and starts the stream with them.
SendSnapshot ==
  /\ stream = "subscribed"
  /\ stream' = "open" /\ wire' = <<Snapshot(active)>>
  /\ untold' = untold \cup dropping
  /\ UNCHANGED <<active, due, dropping, busVars, tracker, hooks, vanished, changes, breaks>>

Forward ==
  /\ stream = "open" /\ bus # <<>>
  /\ wire' = Append(wire, Head(bus)) /\ bus' = Tail(bus)
  /\ UNCHANGED <<active, due, dropping, lagged, stream, tracker, hooks, ghostVars, changes, breaks>>

\* Mutant: goes on after Lagged with the events that are left.
EndNever ==
  /\ stream = "open" /\ lagged
  /\ lagged' = FALSE
  /\ UNCHANGED <<active, due, dropping, bus, stream, wire, tracker, hooks, ghostVars, changes, breaks>>

\* RecvError::Lagged: the daemon ends the stream, so that the client comes back.
End ==
  /\ stream = "open" /\ lagged
  /\ stream' = "ended"
  /\ UNCHANGED <<active, due, dropping, busVars, wire, tracker, hooks, ghostVars, changes, breaks>>

\* sse_reconnect_loop: the client has read all there was, and connects again.
Reconnect ==
  /\ stream = "ended" /\ wire = <<>>
  /\ stream' = "off"
  /\ UNCHANGED <<active, due, dropping, busVars, wire, tracker, hooks, ghostVars, changes, breaks>>

\* handle_sse_message.  A snapshot replaces the list and runs no on_inactive.
Receive ==
  /\ wire # <<>>
  /\ wire' = Tail(wire)
  /\ LET msg == Head(wire) IN
       CASE msg.type = "snapshot" ->
              /\ tracker' = msg.peers
              /\ vanished' = vanished \cup (tracker \ msg.peers)
              /\ UNCHANGED hooks
         [] msg.type = "peer-active" ->
              tracker' = tracker \cup {msg.peer} /\ UNCHANGED <<hooks, vanished>>
         [] msg.type = "peer-inactive" ->
              /\ tracker' = tracker \ {msg.peer}
              /\ hooks' = [hooks EXCEPT ![msg.peer] = @ + 1]
              /\ UNCHANGED vanished
  /\ UNCHANGED <<active, due, dropping, busVars, stream, untold, changes, breaks>>

\* The connection breaks; the daemon may have gone down, and its sessions with it.
Break(restart) ==
  /\ stream # "off" /\ breaks < MaxBreaks
  /\ breaks' = breaks + 1
  /\ stream' = "off" /\ wire' = <<>> /\ bus' = <<>> /\ lagged' = FALSE
  /\ IF restart THEN active' = {} /\ due' = [p \in Peer |-> <<>>] /\ dropping' = {}
                ELSE UNCHANGED <<active, due, dropping>>
  /\ UNCHANGED <<tracker, hooks, ghostVars, changes>>

Streams == Subscribe \/ SendSnapshot \/ Forward \/ End \/ Reconnect \/ Receive

CapNext ==
  \/ \E p \in Peer : \/ \E told \in BOOLEAN : Up(p, told)
                     \/ Down(p) \/ Publish(p) \/ Report(p) \/ Replace(p)
  \/ Streams
  \/ \E restart \in BOOLEAN : Break(restart)

\* The engine's tasks and both ends of the stream run on.
CapFairness ==
  /\ \A p \in Peer : WF_capVars(Publish(p)) /\ WF_capVars(Replace(p))
  /\ WF_capVars(Subscribe) /\ WF_capVars(SendSnapshot) /\ WF_capVars(Forward)
  /\ WF_capVars(End) /\ WF_capVars(Reconnect) /\ WF_capVars(Receive)

--------------------------------------------------------------------------------
CapTypeOK ==
  /\ active \subseteq Peer /\ dropping \subseteq active /\ tracker \subseteq Peer
  /\ due \in [Peer -> Seq(Message)] /\ bus \in Seq(Message) /\ wire \in Seq(Message)
  /\ Len(bus) <= Capacity /\ lagged \in BOOLEAN
  /\ stream \in {"off", "subscribed", "open", "ended"}
  /\ hooks \in [Peer -> Nat] /\ untold \subseteq Peer /\ vanished \subseteq Peer
  /\ changes \in 0 .. MaxChanges /\ breaks \in 0 .. MaxBreaks

\* The tracker ends up with the peers that are active, whatever streams broke,
\* fell behind or met a session that was changing; but for a peer with a change
\* the engine never published, or published before it made it
\* (bridge/events.rs handle_events, capability_sdk.rs handle_sse_message).
Converges == <>[](\A p \in Peer \ untold : p \in tracker <=> p \in active)
================================================================================
