------------------------------ MODULE Matchmaking ------------------------------
(* Matchmaking over relay circuits (daemon/src/connectivity): a node whose hole *)
(* punching failed opens a circuit to the peer, sends its endpoint, is sent the *)
(* peer's, and both punch.  The handler has one event channel: the daemon's at  *)
(* the start, that of a call from its first step on.                            *)
EXTENDS RelayCircuits

CONSTANT Call   \* calls of initiate_matchmake

ASSUME CallAssumption == Channel = Node \cup Call /\ Node \cap Call = {}

VARIABLES
  call,      \* call[c]: where it runs, its peers and circuit, and how far it is
  tasks,     \* handle_incoming_matchmake: request, place and progress
  active,    \* matchmake_counter
  replied    \* calls the target has answered

callVars == <<call, tasks, active, replied>>
handlerVars == <<circuitVars, peers, wire, listener, disturbed, raced, faults>>
matchVars == <<relayVars, callVars>>

Unmade == [node |-> 0, relay |-> 0, target |-> 0, id |-> 0, stage |-> "none"]
Live == {"opening", "asking", "punching"}

Payload(kind, c) == [kind |-> kind, call |-> c]

MatchInit ==
  /\ RelayInit
  /\ call = [c \in Call |-> Unmade]
  /\ tasks = {} /\ active = [n \in Node |-> 0] /\ replied = {}

--------------------------------------------------------------------------------
(* initiate_matchmake.                                                        *)

\* The event callback is replaced.  A target that has made a call itself no
\* longer hears requests: calls that meet such a one are disturbed.
Meets(n, target) ==
  \/ listener[target] # target
  \/ \E c \in Call : call[c].stage \in Live /\ n = call[c].target

\* Every node counts its circuits from 1: a number that some node of the call has
\* seen before, in a call of another node, is not its own.
Nodes(c) == {call[c].node, call[c].relay, call[c].target}
Numbered(id, seen) == \E c \in Call : call[c].id = id /\ Nodes(c) \cap seen # {}

\* find_mutual_relay is given the node's own candidates twice.
MutualRelay(n, target) == peers[n] \ {target}

Begin(c, n, relay, target) ==
  /\ call[c].stage = "none" /\ target # n /\ relay \in MutualRelay(n, target)
  /\ call' = [call EXCEPT ![c] = [node |-> n, relay |-> relay, target |-> target,
                                  id |-> counter[n], stage |-> "opening"]]
  /\ active' = [active EXCEPT ![n] = @ + 1]
  /\ listener' = [listener EXCEPT ![n] = c]
  /\ inbox' = [k \in DOMAIN inbox \cup {c} |-> IF k = c THEN <<>> ELSE inbox[k]]
  /\ counter' = [counter EXCEPT ![n] = @ + 1]
  /\ pending' = [pending EXCEPT ![n] = @ \cup {[id |-> counter[n], target |-> target]}]
  /\ wire' = Sent(wire, n, relay, Open(counter[n], target))
  /\ disturbed' = (disturbed \/ Meets(n, target) \/ Numbered(counter[n], {n, relay, target}))
  /\ UNCHANGED <<circuits, ends, opening, peers, raced, faults, tasks, replied>>

Event(c, type) == /\ c \in DOMAIN inbox /\ inbox[c] # <<>>
                  /\ Head(inbox[c]).type = type /\ Head(inbox[c]).id = call[c].id
Rest(c) == [inbox EXCEPT ![c] = Tail(@)]

Stage(c, stage) == call' = [call EXCEPT ![c].stage = stage] /\ UNCHANGED active

\* A call that ends drops its receiver, counts down and leaves its circuit alone.
EndsCall(c, stage) ==
  /\ call' = [call EXCEPT ![c].stage = stage]
  /\ active' = [active EXCEPT ![call[c].node] = @ - 1]
  /\ inbox' = [k \in DOMAIN inbox \ {c} |-> inbox[k]]

\* The circuit is open: the request is sent, if the end is still there.
Opened(c) ==
  /\ call[c].stage = "opening" /\ Event(c, "opened")
  /\ IF call[c].id \in Ids(ends[call[c].node])
       THEN /\ SendData(call[c].node, call[c].id, Payload("request", c))
            /\ Stage(c, "asking") /\ inbox' = Rest(c)
       ELSE EndsCall(c, "failed") /\ UNCHANGED handlerVars
  /\ UNCHANGED <<tasks, replied>>

\* Mutant: the exchange of any circuit is taken.
GotExchangeAny(c) ==
  /\ call[c].stage = "asking" /\ inbox[c] # <<>> /\ Head(inbox[c]).type = "data"
  /\ IF Head(inbox[c]).payload.kind = "exchange"
       THEN /\ CloseEnd(call[c].node, call[c].id)
            /\ Stage(c, "punching") /\ inbox' = Rest(c)
       ELSE EndsCall(c, "failed") /\ UNCHANGED handlerVars
  /\ UNCHANGED <<tasks, replied>>

\* The exchange: the circuit is closed and the hole punched.  A request is an
\* error.
GotExchange(c) ==
  /\ call[c].stage = "asking" /\ Event(c, "data")
  /\ IF Head(inbox[c]).payload.kind = "exchange"
       THEN /\ CloseEnd(call[c].node, call[c].id)
            /\ Stage(c, "punching") /\ inbox' = Rest(c)
       ELSE EndsCall(c, "failed") /\ UNCHANGED handlerVars
  /\ UNCHANGED <<tasks, replied>>

\* Events that are not waited for are dropped: all but Opened at first, those of
\* other circuits then.
Ignored(c) ==
  /\ c \in DOMAIN inbox /\ inbox[c] # <<>>
  /\ \/ call[c].stage = "opening" /\ ~Event(c, "opened")
     \/ call[c].stage = "asking" /\ (Head(inbox[c]).id # call[c].id \/ Event(c, "opened"))
  /\ inbox' = Rest(c)
  /\ UNCHANGED <<handlerVars, callVars>>

\* The circuit is closed, or another call has taken the channel.
Failed(c) ==
  /\ call[c].stage \in {"opening", "asking"}
  /\ \/ call[c].stage = "asking" /\ Event(c, "closed")
     \/ listener[call[c].node] # c /\ inbox[c] = <<>>
  /\ EndsCall(c, "failed")
  /\ UNCHANGED <<handlerVars, tasks, replied>>

\* 10 s for the circuit, 15 s for the exchange.
TimesOut(c) ==
  /\ call[c].stage \in {"opening", "asking"}
  /\ EndsCall(c, "failed") /\ disturbed' = TRUE /\ Fault
  /\ UNCHANGED <<circuitVars, peers, wire, listener, raced, tasks, replied>>

\* run_punch ends, well or not.
Punched(c) ==
  /\ call[c].stage = "punching"
  /\ EndsCall(c, "done")
  /\ UNCHANGED <<handlerVars, tasks, replied>>

\* The client of the HTTP request that made the call goes away: the call is
\* dropped where it is, and nothing counts down.
Cancel(c) ==
  /\ call[c].stage \in Live
  /\ call' = [call EXCEPT ![c].stage = "cancelled"]
  /\ inbox' = [k \in DOMAIN inbox \ {c} |-> inbox[k]]
  /\ disturbed' = TRUE /\ Fault
  /\ UNCHANGED <<circuitVars, peers, wire, listener, raced, active, tasks, replied>>

--------------------------------------------------------------------------------
(* The daemon's own handler and handle_incoming_matchmake.                    *)

\* Mutant: a request is dropped while another one is worked on.
DispatchBusy(n) ==
  LET e == Head(inbox[n]) IN
  /\ inbox[n] # <<>> /\ inbox' = Rest(n)
  /\ IF e.type = "data" /\ e.payload.kind = "request" /\ \A t \in tasks : t.node # n
       THEN /\ tasks' = tasks \cup {[node |-> n, id |-> e.id, call |-> e.payload.call,
                                     stage |-> "gathering"]}
            /\ active' = [active EXCEPT ![n] = @ + 1]
       ELSE UNCHANGED <<tasks, active>>
  /\ UNCHANGED <<handlerVars, call, replied>>

\* Every request becomes a task; other events are ignored.
Dispatch(n) ==
  LET e == Head(inbox[n]) IN
  /\ inbox[n] # <<>> /\ inbox' = Rest(n)
  /\ IF e.type = "data" /\ e.payload.kind = "request"
       THEN /\ tasks' = tasks \cup {[node |-> n, id |-> e.id, call |-> e.payload.call,
                                     stage |-> "gathering"]}
            /\ active' = [active EXCEPT ![n] = @ + 1]
       ELSE UNCHANGED <<tasks, active>>
  /\ UNCHANGED <<handlerVars, call, replied>>

Moved(t, stage) == tasks' = (tasks \ {t}) \cup {[t EXCEPT !.stage = stage]}
EndsTask(t) == tasks' = tasks \ {t} /\ active' = [active EXCEPT ![t.node] = @ - 1]

Reply(t) ==
  /\ t.stage = "gathering"
  /\ IF t.id \in Ids(ends[t.node])
       THEN /\ SendData(t.node, t.id, Payload("exchange", t.call))
            /\ Moved(t, "replied") /\ replied' = replied \cup {t.call} /\ UNCHANGED active
       ELSE /\ EndsTask(t)
            /\ UNCHANGED <<handlerVars, replied>>
  /\ UNCHANGED <<call, inbox>>

CloseTask(t) ==
  /\ t.stage = "replied"
  /\ CloseEnd(t.node, t.id) /\ Moved(t, "punching")
  /\ UNCHANGED <<call, active, replied, inbox>>

PunchedTask(t) ==
  /\ t.stage = "punching" /\ EndsTask(t)
  /\ UNCHANGED <<handlerVars, call, replied, inbox>>

--------------------------------------------------------------------------------
Relays(n, m) == Take(n, m) /\ UNCHANGED <<callVars>>

Breaks(n, m) == Deactivate(n, m) /\ UNCHANGED callVars

CallStep(c) == Opened(c) \/ GotExchange(c) \/ Ignored(c) \/ Failed(c) \/ Punched(c)
TaskStep(t) == Reply(t) \/ CloseTask(t) \/ PunchedTask(t)

MatchNext ==
  \/ \E c \in Call : \E n, relay, target \in Node : Begin(c, n, relay, target)
  \/ \E c \in Call : CallStep(c) \/ TimesOut(c) \/ Cancel(c)
  \/ \E t \in tasks : TaskStep(t)
  \/ \E n \in Node : Dispatch(n)
  \/ \E n, m \in Node : Relays(n, m) \/ Breaks(n, m)

MatchSpec == MatchInit /\ [][MatchNext]_matchVars

--------------------------------------------------------------------------------
(* Properties.                                                                *)

Stages == {"none", "opening", "asking", "punching", "done", "failed", "cancelled"}

\* Tables, channels and tasks have their types, and one entry per id.
TypeOK ==
  /\ \A n \in Node :
       /\ \A c \in circuits[n] : {c.initiator, c.target} \subseteq Node
       /\ \A s \in {circuits[n], ends[n], pending[n]} : \A c, d \in s : c.id = d.id => c = d
       /\ active[n] \in Nat /\ counter[n] \in Nat /\ listener[n] \in Channel
  /\ DOMAIN inbox = Node \cup {c \in Call : call[c].stage \in Live}
  /\ \A c \in Call : call[c].stage \in Stages

\* A relay has more circuits of a peer than their session allows only if it
\* checked two OPENs before it stored either (handle_open).
CapacityHeld == \A n, m \in Node : raced \/ {n, m} \notin Session \/
  Cardinality({c \in circuits[n] : c.initiator = m}) <= MaxCircuits[{n, m}]

\* An initiator punches only when its target does too, or has: the exchange it
\* was given answers its own request.
PunchTogether == ~disturbed =>
  \A c \in Call : call[c].stage = "punching" => c \in replied

Silent ==
  /\ \A n, m \in Node : wire[n][m] = <<>> /\ opening[n][m] = NoOpen
  /\ \A k \in DOMAIN inbox : inbox[k] = <<>>
  /\ tasks = {}

\* A call that meets no other one, is not refused and keeps its sessions and its
\* channel never has to wait for its time-out: as long as it waits something is on its way.
NothingLost == ~disturbed /\ Silent =>
  \A c \in Call : call[c].stage \in {"opening", "asking"} => listener[call[c].node] # c

================================================================================
