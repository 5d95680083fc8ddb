----------------------------- MODULE RelayCircuits -----------------------------
(* Relay circuits (p2pcd/src/capabilities/relay.rs): a node opens a circuit to *)
(* a peer it has no session with, through a relay that has one with both.  The *)
(* handler of every node plays all three parts - relay, initiator, target - by *)
(* what its tables hold.  Messages of one session are handled in order by one  *)
(* dispatch loop; the loops of a node run concurrently.  Senders are given to  *)
(* the handler with add_peer_sender, as its tests do: the engine does not yet. *)
EXTENDS Integers, FiniteSets, Sequences, FiniteSetsExt, SequencesExt

CONSTANTS
  Node,
  Session,       \* pairs of nodes with a session at the start
  Channel,       \* event channels: of the daemons (nodes) and of calls
  MaxCircuits,   \* RELAY_MAX_CIRCUITS of a session
  MaxFaults      \* bound on broken sessions, expired circuits and calls given up

ASSUME RelayAssumption ==
  /\ MaxCircuits \in [Session -> Nat] /\ MaxFaults \in Nat /\ Node \subseteq Channel
  /\ \A s \in Session : \E n, m \in Node : n # m /\ s = {n, m}

VARIABLES
  circuits,   \* circuits[n]: the circuits n relays, by id
  ends,       \* endpoint_circuits, by id
  pending,    \* pending_initiations
  counter,    \* next_circuit_id
  peers,      \* peers[n]: the keys of peer_senders
  opening,    \* opening[n][m]: an OPEN of m that n has checked and not yet stored
  wire,       \* wire[m][n]: messages m has sent n
  listener,   \* the channel that set_event_callback has set
  inbox,      \* the events in a channel
  disturbed,  \* an id was used by two circuits, an OPEN refused, or a session broke
  raced,      \* two OPENs were checked before either was stored
  faults

circuitVars == <<circuits, ends, pending, counter, opening>>
relayVars == <<circuitVars, peers, wire, listener, inbox, disturbed, raced, faults>>

--------------------------------------------------------------------------------
NoOpen == [id |-> 0, target |-> 0]

Open(id, target)       == [type |-> "open", id |-> id, target |-> target]
Forward(id, initiator) == [type |-> "forward", id |-> id, initiator |-> initiator]
Accept(id)             == [type |-> "accept", id |-> id]
Data(id, payload)      == [type |-> "data", id |-> id, payload |-> payload]
Close(id)              == [type |-> "close", id |-> id]

Ids(set) == {c.id : c \in set}
With(set, id) == CHOOSE c \in set : c.id = id
Without(set, id) == {c \in set : c.id # id}

\* A message to a peer without a sender is dropped.
SentTo(w, n, to, msg) ==
  [w EXCEPT ![n] = [m \in Node |-> IF m \in to \cap peers[n] THEN Append(@[m], msg) ELSE @[m]]]
Sent(w, n, m, msg) == SentTo(w, n, {m}, msg)

\* fire_event; a channel whose receiver is gone takes nothing.
Fired(n, e) == IF listener[n] \in DOMAIN inbox
                 THEN [inbox EXCEPT ![listener[n]] = Append(@, e)] ELSE inbox

OtherEnd(c, m) == IF m = c.initiator THEN {c.target}
                  ELSE IF m = c.target THEN {c.initiator} ELSE {}

\* The next message of m's session at n, when its loop is free.
Comes(n, m, type) ==
  /\ m \in peers[n] /\ wire[m][n] # <<>> /\ opening[n][m] = NoOpen
  /\ Head(wire[m][n]).type = type
Taken(n, m) == [wire EXCEPT ![m][n] = Tail(@)]

RelayInit ==
  /\ circuits = [n \in Node |-> {}] /\ ends = [n \in Node |-> {}]
  /\ pending = [n \in Node |-> {}] /\ counter = [n \in Node |-> 1]
  /\ peers = [n \in Node |-> {m \in Node : {n, m} \in Session}]
  /\ opening = [n \in Node |-> [m \in Node |-> NoOpen]]
  /\ wire = [n \in Node |-> [m \in Node |-> <<>>]]
  /\ listener = [n \in Node |-> n]
  /\ inbox = [n \in Node |-> <<>>]
  /\ disturbed = FALSE /\ raced = FALSE /\ faults = 0

\* One more of the faults that are bounded.
Fault == faults < MaxFaults /\ faults' = faults + 1

--------------------------------------------------------------------------------
(* What the daemon asks of its handler.                                       *)

SendData(n, id, payload) ==
  /\ id \in Ids(ends[n])
  /\ wire' = Sent(wire, n, With(ends[n], id).relay, Data(id, payload))
  /\ UNCHANGED <<circuitVars, peers, listener, disturbed, raced, faults>>

\* close_endpoint_circuit; it fails, and changes nothing, without such an end.
CloseEnd(n, id) ==
  IF id \in Ids(ends[n])
    THEN /\ ends' = [ends EXCEPT ![n] = Without(@, id)]
         /\ pending' = [pending EXCEPT ![n] = Without(@, id)]
         /\ wire' = Sent(wire, n, With(ends[n], id).relay, Close(id))
         /\ UNCHANGED <<circuits, counter, opening, peers, listener, disturbed, raced, faults>>
    ELSE UNCHANGED <<circuitVars, peers, wire, listener, disturbed, raced, faults>>

--------------------------------------------------------------------------------
(* The messages of m at n.                                                    *)

\* Mutant: the bound itself is let in.
TakeOpenOver(n, m) ==
  LET o == Head(wire[m][n])  rest == Taken(n, m) IN
  /\ Comes(n, m, "open")
  /\ IF Cardinality(circuits[n]) > MaxCircuits[{n, m}] \/ o.target \notin peers[n]
       THEN /\ wire' = Sent(rest, n, m, Close(o.id)) /\ disturbed' = TRUE
            /\ UNCHANGED <<opening, raced, faults>>
       ELSE /\ wire' = rest
            /\ opening' = [opening EXCEPT ![n][m] = [id |-> o.id, target |-> o.target]]
            /\ raced' = (raced \/ \E k \in Node : opening[n][k] # NoOpen)
            /\ UNCHANGED disturbed
  /\ UNCHANGED <<circuits, ends, pending, counter, peers, listener, inbox, faults>>

\* An OPEN of an initiator: the relay checks its capacity and that it knows the
\* target, under one lock after the other, and refuses with CLOSE ...
TakeOpen(n, m) ==
  LET o == Head(wire[m][n])  rest == Taken(n, m) IN
  /\ Comes(n, m, "open")
  /\ IF Cardinality(circuits[n]) >= MaxCircuits[{n, m}] \/ o.target \notin peers[n]
       THEN /\ wire' = Sent(rest, n, m, Close(o.id)) /\ disturbed' = TRUE
            /\ UNCHANGED <<opening, raced, faults>>
       ELSE /\ wire' = rest
            /\ opening' = [opening EXCEPT ![n][m] = [id |-> o.id, target |-> o.target]]
            /\ raced' = (raced \/ \E k \in Node : opening[n][k] # NoOpen)
            /\ UNCHANGED disturbed
  /\ UNCHANGED <<circuits, ends, pending, counter, peers, listener, inbox, faults>>

\* ... and then stores the circuit, over another one with its id, and forwards
\* the OPEN to the target.
StoreCircuit(n, m) ==
  LET o == opening[n][m]
      c == [id |-> o.id, initiator |-> m, target |-> o.target]
  IN
  /\ o # NoOpen
  /\ circuits' = [circuits EXCEPT ![n] = Without(@, o.id) \cup {c}]
  /\ disturbed' = (disturbed \/ o.id \in Ids(circuits[n]))
  /\ opening' = [opening EXCEPT ![n][m] = NoOpen]
  /\ wire' = Sent(wire, n, o.target, Forward(o.id, m))
  /\ UNCHANGED <<ends, pending, counter, peers, listener, inbox, raced, faults>>

\* A forwarded OPEN makes this node a target, whatever end had the id before.
TakeForward(n, m) ==
  LET f == Head(wire[m][n]) IN
  /\ Comes(n, m, "forward")
  /\ ends' = [ends EXCEPT ![n] = Without(@, f.id) \cup
                {[id |-> f.id, relay |-> m, remote |-> f.initiator,
                 role |-> "target"]}]
  /\ disturbed' = (disturbed \/ f.id \in Ids(ends[n]) \cup Ids(pending[n]) \cup Ids(circuits[n]))
  /\ inbox' = Fired(n, [type |-> "opened", id |-> f.id])
  /\ wire' = Sent(Taken(n, m), n, m, Accept(f.id))
  /\ UNCHANGED <<circuits, pending, counter, opening, peers, listener, raced, faults>>

\* An acceptance is the relay's to forward if it relays the id, and else the
\* initiator's if it waits for it; nobody else wants it.
TakeAccept(n, m) ==
  LET id == Head(wire[m][n]).id  rest == Taken(n, m) IN
  /\ Comes(n, m, "accept")
  /\ IF id \in Ids(circuits[n])
       THEN /\ wire' = Sent(rest, n, With(circuits[n], id).initiator, Accept(id))
            /\ UNCHANGED <<ends, pending, inbox, disturbed>>
       ELSE /\ wire' = rest
            /\ IF id \notin Ids(pending[n]) THEN UNCHANGED <<ends, pending, inbox, disturbed>>
               ELSE /\ pending' = [pending EXCEPT ![n] = Without(@, id)]
                    /\ ends' = [ends EXCEPT ![n] = Without(@, id) \cup
                         {[id |-> id, relay |-> m, remote |-> With(pending[n], id).target,
                          role |-> "initiator"]}]
                    /\ disturbed' = (disturbed \/ id \in Ids(ends[n]))
                    /\ inbox' = Fired(n, [type |-> "opened", id |-> id])
  /\ UNCHANGED <<circuits, counter, opening, peers, listener, raced, faults>>

\* Data on a circuit this node relays goes to the other end, or ends the circuit
\* if its time is over; data on a circuit it is an end of is an event.
TakeData(n, m) ==
  LET d == Head(wire[m][n])  rest == Taken(n, m) IN
  /\ Comes(n, m, "data")
  /\ IF d.id \in Ids(circuits[n])
       THEN LET c == With(circuits[n], d.id) IN
            /\ UNCHANGED inbox
            /\ \/ /\ wire' = SentTo(rest, n, OtherEnd(c, m), d)
                  /\ UNCHANGED <<circuits, disturbed, faults>>
               \/ /\ Fault
                  /\ circuits' = [circuits EXCEPT ![n] = Without(@, d.id)]
                  /\ wire' = SentTo(rest, n, {c.initiator, c.target}, Close(d.id))
                  /\ disturbed' = TRUE
       ELSE /\ wire' = rest
            /\ inbox' = IF d.id \in Ids(ends[n])
                 THEN Fired(n, [type |-> "data", id |-> d.id, payload |-> d.payload])
                 ELSE inbox
            /\ UNCHANGED <<circuits, disturbed, faults>>
  /\ UNCHANGED <<ends, pending, counter, opening, peers, listener, raced>>

\* A CLOSE is forwarded by the relay and told by an end; a CLOSE that refuses a
\* circuit meets neither at the initiator, which goes on waiting.
TakeClose(n, m) ==
  LET id == Head(wire[m][n]).id  rest == Taken(n, m) IN
  /\ Comes(n, m, "close")
  /\ IF id \in Ids(circuits[n])
       THEN /\ circuits' = [circuits EXCEPT ![n] = Without(@, id)]
            /\ wire' = SentTo(rest, n, OtherEnd(With(circuits[n], id), m), Close(id))
            /\ UNCHANGED <<ends, inbox>>
       ELSE /\ wire' = rest
            /\ ends' = [ends EXCEPT ![n] = Without(@, id)]
            /\ inbox' = IF id \in Ids(ends[n])
                          THEN Fired(n, [type |-> "closed", id |-> id]) ELSE inbox
            /\ UNCHANGED circuits
  /\ UNCHANGED <<pending, counter, opening, peers, listener, disturbed, raced, faults>>

\* The session of n and m ends, unless m knows already, and n has its on_deactivated: it
\* closes what it relays for m, tells the other ends, and closes its own ends through m.  What is
\* on its way is lost.
Deactivate(n, m) ==
  LET gone == {c \in circuits[n] : m \in {c.initiator, c.target}}
      lost == {e \in ends[n] : e.relay = m}
      cut  == [wire EXCEPT ![n][m] = <<>>, ![m][n] = <<>>]
  IN
  /\ m \in peers[n]
  /\ circuits' = [circuits EXCEPT ![n] = @ \ gone]
  /\ ends' = [ends EXCEPT ![n] = @ \ lost]
  /\ peers' = [peers EXCEPT ![n] = @ \ {m}]
  /\ wire' = FoldSet(LAMBDA c, w : SentTo(w, n, OtherEnd(c, m), Close(c.id)), cut, gone)
  /\ inbox' = IF listener[n] \notin DOMAIN inbox THEN inbox
              ELSE [inbox EXCEPT ![listener[n]] = @ \o
                      SetToSeq({[type |-> "closed", id |-> e.id] : e \in lost})]
  /\ disturbed' = TRUE
  /\ IF n \in peers[m] THEN Fault ELSE UNCHANGED faults
  /\ UNCHANGED <<pending, counter, opening, listener, raced>>

\* One message of m is handled at n.
Take(n, m) ==
  \/ TakeOpen(n, m) \/ StoreCircuit(n, m) \/ TakeForward(n, m)
  \/ TakeAccept(n, m) \/ TakeData(n, m) \/ TakeClose(n, m)
================================================================================
