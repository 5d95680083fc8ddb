----------------------------- MODULE DirectMessages -----------------------------
(* Direct messages over remote procedure calls.                               *)
(*                                                                            *)
(* The messaging capability of the sender (capabilities/messaging/src) stores *)
(* a message and asks its daemon for a call of dm.send at the receiver.  The  *)
(* daemon (p2pcd/bridge/messaging.rs) numbers the call, leaves a waiter in    *)
(* the table of the RPC handler (p2pcd/src/capabilities/rpc.rs) and sends an  *)
(* RPC_REQ.  The receiver's daemon handles it in the dispatch loop of the     *)
(* socket it came over: it posts the request to its messaging capability      *)
(* (cap_notify.rs), waits, and answers over whichever socket it then holds    *)
(* for the sender.  An RPC_RESP is matched by its number alone.               *)
(*                                                                            *)
(* Every node has one daemon and one messaging process, which may die apart   *)
(* from each other.  Times are a few ticks of one clock.                      *)
EXTENDS Integers, FiniteSetsExt, Sequences

CONSTANTS
  Node,
  Message,       \* the messages users may send, each once
  Socket,        \* the sockets that may be opened
  NoSocket,      \* no entry in peer_senders
  Ends,          \* the two nodes of each socket
  Deletable,     \* messages their senders may delete
  Initial,       \* sockets both ends have set up at the start, at most one a pair
  Fragile,       \* sockets that may break
  Restartable,   \* nodes whose daemon may be restarted
  Mortal,        \* nodes whose messaging process may die
  MaxFaults      \* bound: restarts, deaths and broken sockets together

ASSUME TopologyAssumption ==
  /\ NoSocket \notin Socket
  /\ Ends \in [Socket -> SUBSET Node]
  /\ \A s \in Socket : \E n, m \in Node : n # m /\ Ends[s] = {n, m}
  /\ Initial \subseteq Socket

ASSUME BoundsAssumption == MaxFaults \in Nat
ASSUME MessageAssumption == IsFiniteSet(Message)

VARIABLES
  route,      \* from whom to whom each message goes
  sentAt,     \* sent_at of each message
  sent,       \* delivery_status of the sender's row
  received,   \* the rows with direction "received" of each node's messaging.db
  caller,     \* where send_message and the handle_rpc it waits for are
  number,     \* the request id of each call
  mailbox,    \* what the waiter's oneshot channel was given
  waiters,    \* RpcHandler.rpc_waiters of each node
  counter,    \* RPC_REQUEST_COUNTER of each node, from 0 instead of 1000000
  sender,     \* peer_senders of each node
  joined,     \* sockets each node has set up a dispatch loop for
  dead,       \* sockets that are broken
  inbox,      \* inbox[n][s]: messages for n's dispatch loop of s, or on their way
  job,        \* job[n][s]: the request that loop is waiting for an answer to
  up,         \* nodes whose messaging process runs
  restarts,   \* how often a daemon was restarted
  crashes     \* how often a messaging process died or a socket broke

database == <<sent, received, sentAt>>
calls    == <<caller, number, mailbox, waiters, counter>>
links    == <<sender, joined, dead>>
faults   == <<restarts, crashes>>
vars == <<route, database, calls, links, inbox, job, up, faults>>

--------------------------------------------------------------------------------
From(c) == route[c][1]
To(c)   == route[c][2]

REQ(k, c)     == [type |-> "REQ", id |-> k, of |-> c]
RESP(k, c, e) == [type |-> "RESP", id |-> k, of |-> c, error |-> e]

Statuses == {"none", "pending", "delivered", "failed", "deleted"}
Callers  == {"idle", "stored", "registered", "waiting", "done", "lost"}
Open     == {"stored", "registered", "waiting"}

NoAnswer == [type |-> "none"]
Idle     == [do |-> "idle"]
Serving(k, c, step) == [do |-> step, id |-> k, of |-> c]
Serves   == {"posted", "stored", "refused"}

Other(n, s) == CHOOSE m \in Ends[s] : m # n

\* update_delivery_status changes no row once the message has been deleted.
Status(c, st) == IF sent[c] = "deleted" THEN "deleted" ELSE st

\* send_to_peer and the RPC handler's own senders: a message put on a dead
\* socket whose writer has not noticed yet is lost without an error.
Queued(n, m, msg) ==
  LET s == sender[n][m]
  IN  IF dead[s] THEN inbox ELSE [inbox EXCEPT ![m][s] = Append(@, msg)]

\* The latest sent_at so far.
Latest == Max({sentAt[c] : c \in Message})

Init ==
  /\ route \in [Message -> {r \in Node \X Node : r[1] # r[2]}]
  /\ sentAt = [c \in Message |-> 0]
  /\ sent = [c \in Message |-> "none"]
  /\ received = [n \in Node |-> {}]
  /\ caller = [c \in Message |-> "idle"]
  /\ number = [c \in Message |-> 0]
  /\ mailbox = [c \in Message |-> NoAnswer]
  /\ waiters = [n \in Node |-> {}]
  /\ counter = [n \in Node |-> 0]
  /\ joined = [n \in Node |-> {s \in Initial : n \in Ends[s]}]
  /\ sender = [n \in Node |-> [m \in Node |->
       IF \E s \in Initial : Ends[s] = {n, m}
       THEN CHOOSE s \in Initial : Ends[s] = {n, m} ELSE NoSocket]]
  /\ dead = [s \in Socket |-> FALSE]
  /\ inbox = [n \in Node |-> [s \in Socket |-> <<>>]]
  /\ job = [n \in Node |-> [s \in Socket |-> Idle]]
  /\ up = Node
  /\ restarts = 0 /\ crashes = 0

--------------------------------------------------------------------------------
(* The sender.                                                                *)

\* send_message stores the row, in the tick of the last one or in the next.  The
\* peer is listed by the capability's tracker or by the daemon; both may lag behind
\* the sockets.
Send(c) ==
  /\ caller[c] = "idle" /\ From(c) \in up
  /\ \E t \in {Latest, Latest + 1} \ {0} : sentAt' = [sentAt EXCEPT ![c] = t]
  /\ sent' = [sent EXCEPT ![c] = "pending"]
  /\ caller' = [caller EXCEPT ![c] = "stored"]
  /\ UNCHANGED <<route, received, number, mailbox, waiters, counter, links,
                 inbox, job, up, faults>>

\* capability_unsupported: nobody lists the peer, and nothing is stored.
Unlisted(c) ==
  /\ caller[c] = "idle" /\ From(c) \in up
  /\ sender[From(c)][To(c)] = NoSocket
  /\ caller' = [caller EXCEPT ![c] = "done"]
  /\ UNCHANGED <<route, database, number, mailbox, waiters, counter, links,
                 inbox, job, up, faults>>

\* Mutant: every call has the same number.
RegisterSame(c) ==
  LET n == From(c) IN
  /\ caller[c] = "stored"
  /\ waiters' = [waiters EXCEPT ![n] =
                   {w \in @ : w.id # counter[n]} \cup {[id |-> counter[n], of |-> c]}]
  /\ caller' = [caller EXCEPT ![c] = "registered"]
  /\ UNCHANGED <<route, database, number, counter, mailbox, links, inbox, job, up, faults>>

\* handle_rpc takes the next number and registers the waiter; insert replaces a
\* waiter of the same number.
Register(c) ==
  LET n == From(c) IN
  /\ caller[c] = "stored"
  /\ number' = [number EXCEPT ![c] = counter[n]]
  /\ counter' = [counter EXCEPT ![n] = @ + 1]
  /\ waiters' = [waiters EXCEPT ![n] =
                   {w \in @ : w.id # counter[n]} \cup {[id |-> counter[n], of |-> c]}]
  /\ caller' = [caller EXCEPT ![c] = "registered"]
  /\ UNCHANGED <<route, database, mailbox, links, inbox, job, up, faults>>

\* send_to_peer accepts the request.
Request(c) ==
  LET n == From(c) IN
  /\ caller[c] = "registered"
  /\ sender[n][To(c)] # NoSocket
  /\ inbox' = Queued(n, To(c), REQ(number[c], c))
  /\ caller' = [caller EXCEPT ![c] = "waiting"]
  /\ UNCHANGED <<route, database, number, mailbox, waiters, counter, links, job,
                 up, faults>>

\* send_to_peer fails: no sender, or a closed one, which it removes.  The waiter
\* stays, the bridge answers 404 and send_message stores "failed".
Unsent(c) ==
  LET n == From(c)  s == sender[n][To(c)] IN
  /\ caller[c] = "registered"
  /\ s \in Socket => dead[s]
  /\ sender' = [sender EXCEPT ![n][To(c)] = NoSocket]
  /\ sent' = [sent EXCEPT ![c] = Status(c, "failed")]
  /\ caller' = [caller EXCEPT ![c] = "done"]
  /\ UNCHANGED <<route, received, sentAt, number, mailbox, waiters, counter,
                 joined, dead, inbox, job, up, faults>>

\* The bridge answers 200 with whatever the channel was given, rpc_call returns
\* Ok, and send_message stores "delivered".
Collect(c) ==
  /\ caller[c] = "waiting" /\ mailbox[c] # NoAnswer
  /\ sent' = [sent EXCEPT ![c] = Status(c, "delivered")]
  /\ caller' = [caller EXCEPT ![c] = "done"]
  /\ UNCHANGED <<route, received, sentAt, number, mailbox, waiters, counter, links,
                 inbox, job, up, faults>>

\* The bridge answers 504 after 4 s and forgets the channel, not the waiter.
Timeout(c) ==
  /\ caller[c] = "waiting" /\ mailbox[c] = NoAnswer
  /\ sent' = [sent EXCEPT ![c] = Status(c, "failed")]
  /\ caller' = [caller EXCEPT ![c] = "done"]
  /\ UNCHANGED <<route, received, sentAt, number, mailbox, waiters, counter, links,
                 inbox, job, up, faults>>

\* delete_message: a row with direction "sent", at any time.
Delete(c) ==
  /\ c \in Deletable /\ sent[c] \in {"pending", "delivered", "failed"} /\ From(c) \in up
  /\ sent' = [sent EXCEPT ![c] = "deleted"]
  /\ UNCHANGED <<route, received, sentAt, calls, links, inbox, job, up,
                 faults>>

--------------------------------------------------------------------------------
(* The dispatch loop of node n for socket s, one message at a time.           *)

Handles(n, s, type) ==
  /\ s \in joined[n] /\ job[n][s] = Idle
  /\ inbox[n][s] # <<>> /\ Head(inbox[n][s]).type = type

Rest(n, s) == [inbox EXCEPT ![n][s] = Tail(@)]

\* An RPC_REQ without a handler of its own is posted to the capability.
TakeRequest(n, s) ==
  LET msg == Head(inbox[n][s]) IN
  /\ Handles(n, s, "REQ")
  /\ inbox' = Rest(n, s)
  /\ job' = [job EXCEPT ![n][s] = Serving(msg.id, msg.of, "posted")]
  /\ UNCHANGED <<route, database, calls, links, up, faults>>

\* inbound_message takes the post, which comes from a peer that runs this program:
\* the envelope decodes and names its sender.
Posted(n, s) == job[n][s].do = "posted" /\ n \in up

\* handle_dm_send_rpc stores the message.
Persist(n, s) ==
  /\ Posted(n, s)
  /\ received' = [received EXCEPT ![n] = @ \cup {job[n][s].of}]
  /\ job' = [job EXCEPT ![n][s].do = "stored"]
  /\ UNCHANGED <<route, sent, sentAt, calls, links, inbox, up, faults>>

\* forward_rpc_to_capability fails: nobody listens, the capability refuses (it
\* does not know its own id yet, its database fails) or 10 s pass, before the
\* message was stored or after.
Refused(n, s) ==
  /\ job[n][s].do \in {"posted", "stored"}
  /\ job' = [job EXCEPT ![n][s].do = "refused"]
  /\ UNCHANGED <<route, database, calls, links, inbox, up, faults>>

\* Mutant: a request that failed is not answered.
RespondOk(n, s) ==
  LET j == job[n][s]  m == Other(n, s) IN
  /\ j.do \in {"stored", "refused"}
  /\ inbox' = IF sender[n][m] = NoSocket \/ j.do = "refused" THEN inbox
              ELSE Queued(n, m, RESP(j.id, j.of, FALSE))
  /\ job' = [job EXCEPT ![n][s] = Idle]
  /\ UNCHANGED <<route, database, calls, links, up, faults>>

\* The answer leaves through the sender the handler has now, if any.
Respond(n, s) ==
  LET j == job[n][s]  m == Other(n, s) IN
  /\ j.do \in {"stored", "refused"}
  /\ inbox' = IF sender[n][m] = NoSocket THEN inbox
              ELSE Queued(n, m, RESP(j.id, j.of, j.do = "refused"))
  /\ job' = [job EXCEPT ![n][s] = Idle]
  /\ UNCHANGED <<route, database, calls, links, up, faults>>

\* An RPC_RESP goes to the waiter of its number, an error as an empty payload.
\* If the waiter's call has ended the value is dropped.
TakeResponse(n, s) ==
  LET msg == Head(inbox[n][s])
      due == {w \in waiters[n] : w.id = msg.id}
  IN
  /\ Handles(n, s, "RESP")
  /\ inbox' = Rest(n, s)
  /\ waiters' = [waiters EXCEPT ![n] = @ \ due]
  /\ mailbox' = [c \in Message |->
       IF caller[c] \in {"registered", "waiting"} /\ \E w \in due : w.of = c
       THEN msg ELSE mailbox[c]]
  /\ UNCHANGED <<route, database, caller, number, counter, links, job, up,
                 faults>>


--------------------------------------------------------------------------------
(* Sessions and processes.                                                    *)

\* post_session_setup at one end of a socket; it may replace another one.
Join(n, s) ==
  /\ n \in Ends[s] /\ s \notin joined[n] /\ ~dead[s]
  /\ joined' = [joined EXCEPT ![n] = @ \cup {s}]
  /\ sender' = [sender EXCEPT ![n][Other(n, s)] = s]
  /\ UNCHANGED <<route, database, calls, dead, inbox, job, up, faults>>

\* The socket breaks: what has not arrived is lost, what has is still handled.
Break(s) ==
  /\ s \in Fragile /\ ~dead[s] /\ restarts + crashes < MaxFaults
  /\ crashes' = crashes + 1
  /\ dead' = [dead EXCEPT ![s] = TRUE]
  /\ \E k \in [Ends[s] -> 0 .. 3] :
       /\ \A n \in Ends[s] : k[n] <= Len(inbox[n][s])
       /\ inbox' = [n \in Node |-> [inbox[n] EXCEPT ![s] =
                      IF n \in Ends[s] THEN SubSeq(@, 1, k[n]) ELSE @]]
  /\ UNCHANGED <<route, database, calls, sender, joined, job, up, restarts>>

\* The engine tears the session down.
Leave(n, m) ==
  /\ sender[n][m] # NoSocket /\ dead[sender[n][m]]
  /\ sender' = [sender EXCEPT ![n][m] = NoSocket]
  /\ UNCHANGED <<route, database, calls, joined, dead, inbox, job, up,
                 faults>>

\* The messaging process dies.  Its calls are forgotten with their rows still
\* "pending"; a request it was handling ends in an error.
CapDies(n) ==
  /\ n \in up \cap Mortal /\ restarts + crashes < MaxFaults
  /\ up' = up \ {n}
  /\ crashes' = crashes + 1
  /\ caller' = [c \in Message |->
       IF From(c) = n /\ caller[c] \in Open THEN "lost" ELSE caller[c]]
  /\ job' = [job EXCEPT ![n] = [s \in Socket |->
       IF @[s].do \in {"posted", "stored"} THEN [@[s] EXCEPT !.do = "refused"]
       ELSE @[s]]]
  /\ UNCHANGED <<route, database, number, mailbox, waiters, counter, links, inbox,
                 restarts>>

CapStarts(n) ==
  /\ n \notin up
  /\ up' = up \cup {n}
  /\ UNCHANGED <<route, database, calls, links, inbox, job, faults>>

\* The daemon dies and starts again: its tables are empty, its counter is back
\* at the start, its sockets are gone; its capabilities survive (kill_on_drop is
\* false) and the calls they had open end in a connection error.
DaemonRestarts(n) ==
  /\ n \in Restartable /\ restarts + crashes < MaxFaults
  /\ restarts' = restarts + 1
  /\ waiters' = [waiters EXCEPT ![n] = {}]
  /\ counter' = [counter EXCEPT ![n] = 0]
  /\ sender' = [sender EXCEPT ![n] = [m \in Node |-> NoSocket]]
  /\ dead' = [s \in Socket |-> dead[s] \/ s \in joined[n]]
  /\ inbox' = [inbox EXCEPT ![n] = [s \in Socket |->
                 IF s \in joined[n] THEN <<>> ELSE @[s]]]
  /\ job' = [job EXCEPT ![n] = [s \in Socket |-> Idle]]
  /\ LET cut == {c \in Message : From(c) = n /\ caller[c] \in {"registered", "waiting"}}
     IN  /\ sent' = [c \in Message |-> IF c \in cut THEN Status(c, "failed") ELSE sent[c]]
         /\ caller' = [c \in Message |-> IF c \in cut THEN "done" ELSE caller[c]]
  /\ UNCHANGED <<route, received, sentAt, number, mailbox, joined, up,
                 crashes>>

CallStep(c) == Register(c) \/ Request(c) \/ Unsent(c) \/ Collect(c)

LoopStep(n, s) ==
  \/ TakeRequest(n, s) \/ Persist(n, s) \/ Refused(n, s) \/ Respond(n, s)
  \/ TakeResponse(n, s)

Next ==
  \/ \E c \in Message :
       \/ Send(c) \/ Unlisted(c) \/ Delete(c) \/ Timeout(c) \/ CallStep(c)
  \/ \E n \in Node, s \in Socket : Join(n, s) \/ LoopStep(n, s)
  \/ \E s \in Socket : Break(s)
  \/ \E n, m \in Node : Leave(n, m)
  \/ \E n \in Node : CapDies(n) \/ CapStarts(n) \/ DaemonRestarts(n)

\* Something went wrong between the two nodes of the call, or at one of them.
Disturbed(c) ==
  \/ \E s \in Socket : Ends[s] = {From(c), To(c)} /\ dead[s]
  \/ restarts > 0 \/ crashes > 0

\* tokio runs every task that can make progress, and the other end of a socket
\* one end has joined completes its setup.  A time-out is only relied on where
\* something was lost.
Fairness ==
  /\ \A c \in Message : WF_vars(CallStep(c)) /\ WF_vars(Timeout(c) /\ Disturbed(c))
  /\ \A n \in Node, s \in Socket :
       /\ WF_vars(LoopStep(n, s))
       /\ WF_vars(Join(n, s) /\ s \in joined[Other(n, s)])

Spec == Init /\ [][Next]_vars /\ Fairness

--------------------------------------------------------------------------------
(* Paging through a conversation (MessageDb::get_conversation).               *)

\* The rows of n's conversation with m.
Conversation(n, m) ==
  {c \in Message : \/ route[c] = <<n, m>> /\ sent[c] \notin {"none", "deleted"}
                   \/ route[c] = <<m, n>> /\ c \in received[n]}

\* Mutant: the query selects sent_at > cursor + 1.
PageLate(rows, cursor, limit) ==
  LET later == {c \in rows : sentAt[c] > cursor + 1}
  IN  {p \in SUBSET later :
         /\ Cardinality(p) = IF Cardinality(later) < limit THEN Cardinality(later) ELSE limit
         /\ \A c \in p, d \in later \ p : sentAt[c] <= sentAt[d]}

\* The rows a query with this cursor and limit may return: the first ones by
\* sent_at; rows of the same sent_at come in any order.
Page(rows, cursor, limit) ==
  LET later == {c \in rows : sentAt[c] > cursor}
  IN  {p \in SUBSET later :
         /\ Cardinality(p) = IF Cardinality(later) < limit THEN Cardinality(later) ELSE limit
         /\ \A c \in p, d \in later \ p : sentAt[c] <= sentAt[d]}

\* The sent_at of a page's last row, the cursor for the next one.
Last(p) == CHOOSE t \in {sentAt[c] : c \in p} : \A c \in p : sentAt[c] <= t

--------------------------------------------------------------------------------
(* Properties.                                                                *)

Waiter == [id : Nat, of : Message]
Answer == [type : {"RESP"}, id : Nat, of : Message, error : BOOLEAN]
Packet == [type : {"REQ"}, id : Nat, of : Message] \cup Answer

\* The values of all variables: rpc_waiters and mailboxes only ever hold calls
\* of this program, and a row's status is one of those send_message writes.
TypeOK ==
  /\ route \in [Message -> Node \X Node]
  /\ sentAt \in [Message -> Nat]
  /\ sent \in [Message -> Statuses]
  /\ received \in [Node -> SUBSET Message]
  /\ caller \in [Message -> Callers]
  /\ number \in [Message -> Nat]
  /\ mailbox \in [Message -> Answer \cup {NoAnswer}]
  /\ waiters \in [Node -> SUBSET Waiter]
  /\ counter \in [Node -> Nat]
  /\ sender \in [Node -> [Node -> Socket \cup {NoSocket}]]
  /\ joined \in [Node -> SUBSET Socket]
  /\ dead \in [Socket -> BOOLEAN]
  /\ inbox \in [Node -> [Socket -> Seq(Packet)]]
  /\ job \in [Node -> [Socket -> {Idle} \cup [do : Serves, id : Nat, of : Message]]]
  /\ up \in SUBSET Node
  /\ restarts \in Nat /\ crashes \in Nat

\* A message the sender shows as delivered is in the receiver's database, unless
\* the receiver answered with an error or the sender's daemon has been restarted
\* (send_message, handle_rpc, RpcHandler::on_message).
DeliveredIsStored ==
  \A c \in Message :
    sent[c] = "delivered" /\ restarts = 0
      => mailbox[c].of = c /\ (mailbox[c].error \/ c \in received[To(c)])

\* Paging with the cursor of the page before leaves out only rows that have the
\* sent_at of the last row of a page (get_conversation).
PagesLeaveNoGap ==
  \A n, m \in Node : LET rows == Conversation(n, m) IN
    \A first \in Page(rows, 0, 1) : first # {} =>
      \A second \in Page(rows, Last(first), 1), c \in rows \ first :
        \/ sentAt[c] = Last(first)
        \/ second # {} /\ sentAt[c] >= Last(second)

\* A call ends without the help of a time-out as long as nothing is lost: two
\* nodes that call each other at once do not wait for each other
\* (capability_dispatch_loop handles one message at a time).
Settles ==
  \A c \in Message : caller[c] \in Open ~> caller[c] \in {"done", "lost"}
================================================================================
