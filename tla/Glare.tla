--------------------------------- MODULE Glare ---------------------------------
(* Two nodes that dial each other.                                            *)
(*                                                                            *)
(* Each side of each TCP socket is served by a session runner                 *)
(* (daemon/src/p2pcd/engine/session_runner.rs).  When its exchange has ended  *)
(* the runner looks at peer_senders and yields, replaces what is wired, or    *)
(* just wires its socket, so that "both peers agree to use the lower          *)
(* peer_id's outbound socket as the single mux transport".  P2pcdEngine has   *)
(* one node in lock segments; this module has both nodes and keeps of each    *)
(* what the choice of the socket depends on.  The exchange on a socket is the *)
(* one SessionAgreement promises and SessionExchange implements.              *)
(*                                                                            *)
(* The module covers the seconds before the first heartbeat is due: no        *)
(* Timeout arrives and no teardown but the glare replacement takes place.     *)

CONSTANTS
  Sock,      \* the TCP sockets, each dialled at most once
  LowSock,   \* those the node with the lower peer id dials
  NoSock     \* an absent entry

ASSUME SockAssumption == LowSock \subseteq Sock /\ NoSock \notin Sock

Nodes == {"low", "high"}

Dialer(s) == IF s \in LowSock THEN "low" ELSE "high"
Role(n, s) == IF Dialer(s) = n THEN "init" ELSE "resp"

VARIABLES
  dialled,   \* sockets that exist
  outcome,   \* outcome of the exchange, for either end of a socket
  stage,     \* program counter of a node's runner for a socket
  sender,    \* peer_senders: the socket a node writes to
  session,   \* sessions: the node stores an Active session
  held,      \* the socket whose transport is still inside that session
  down,      \* sockets an end of which was dropped
  closed,    \* SharedSender::is_closed() of a node's end
  raced      \* history: a glare check while another runner was about to wire

exchange == <<dialled, outcome>>
table    == <<sender, session, held>>
glareVars == <<exchange, stage, table, down, closed, raced>>

Roles   == {"init", "resp"}
Results == {"pending", "failed", "ended"}
Pcs     == {"exchange", "yield", "replace", "wire", "insert", "done"}

\* The exchange on the socket s.
ExchangeOf(s) == INSTANCE SessionAgreement
  WITH outcome <- outcome[s], Values <- {"ended"}, Pending <- "pending", Failed <- "failed"

GlareInit ==
  /\ dialled = {}
  /\ outcome = [s \in Sock |-> [e \in Roles |-> "pending"]]
  /\ stage = [n \in Nodes |-> [s \in Sock |-> "exchange"]]
  /\ sender = [n \in Nodes |-> NoSock]
  /\ session = [n \in Nodes |-> FALSE]
  /\ held = [n \in Nodes |-> NoSock]
  /\ down = {}
  /\ closed = [n \in Nodes |-> {}]
  /\ raced = [n \in Nodes |-> FALSE]

--------------------------------------------------------------------------------
(* Vocabulary.                                                                *)

GoesTo(n, s, label) == stage' = [stage EXCEPT ![n][s] = label]

Alive(n) == sender[n] # NoSock /\ sender[n] \notin closed[n]

\* Mutant: every node takes its own outbound socket for the canonical one.
CanonicalOwn(n, s) == Dialer(s) = n

\* The same answer at both nodes: local < peer for an initiator, local > peer for
\* a responder.
Canonical(n, s) == Dialer(s) = "low"

\* A runner of n has looked at peer_senders and is about to change it.
Wiring(n) == \E s \in Sock : stage[n][s] \in {"replace", "wire"}

--------------------------------------------------------------------------------
(* Actions.                                                                   *)

\* on_peer_visible dials unless an Active session is stored; the other node
\* accepts.
Dial(s) ==
  /\ s \notin dialled
  /\ ~session[Dialer(s)]
  /\ dialled' = dialled \cup {s}
  /\ UNCHANGED <<outcome, stage, table, down, closed, raced>>

\* A step of the exchange.
Exchange(s) ==
  /\ s \in dialled
  /\ \E r \in [Roles -> Results] : outcome' = [outcome EXCEPT ![s] = r]
  /\ ExchangeOf(s)!Next
  /\ UNCHANGED <<dialled, stage, table, down, closed, raced>>

\* The runner returns the error and drops its end of the socket.
ExchangeFails(n, s) ==
  /\ stage[n][s] = "exchange" /\ outcome[s][Role(n, s)] = "failed"
  /\ GoesTo(n, s, "done")
  /\ down' = down \cup {s}
  /\ UNCHANGED <<exchange, table, closed, raced>>

GlareCheck(n, s) ==
  /\ stage[n][s] = "exchange" /\ outcome[s][Role(n, s)] = "ended"
  /\ GoesTo(n, s, CASE ~Canonical(n, s) /\ Alive(n)          -> "yield"
                    [] Canonical(n, s) /\ sender[n] # NoSock -> "replace"
                    [] OTHER                                 -> "wire")
  /\ raced' = [raced EXCEPT ![n] = @ \/ Wiring(n)]
  /\ UNCHANGED <<exchange, table, down, closed>>

\* sessions.insert drops the session it replaces, and with it the transport that
\* session may still hold.
StoreSession(n, transport) ==
  /\ session' = [session EXCEPT ![n] = TRUE]
  /\ held' = [held EXCEPT ![n] = transport]
  /\ down' = down \cup ({held[n]} \ {NoSock})

\* The other side's socket wins: keep the session with its transport.
Yield(n, s) ==
  /\ stage[n][s] = "yield"
  /\ GoesTo(n, s, "done")
  /\ StoreSession(n, s)
  /\ UNCHANGED <<exchange, sender, closed, raced>>

\* Mutant: what is wired is torn down and the runner ends there.
ReplaceOnly(n, s) ==
  /\ stage[n][s] = "replace"
  /\ GoesTo(n, s, "done")
  /\ sender' = [sender EXCEPT ![n] = NoSock]
  /\ down' = down \cup ({sender[n]} \ {NoSock})
  /\ UNCHANGED <<exchange, session, held, closed, raced>>

\* tear_down_mux_only drops the last owners of the old socket.
Replace(n, s) ==
  /\ stage[n][s] = "replace"
  /\ GoesTo(n, s, "wire")
  /\ sender' = [sender EXCEPT ![n] = NoSock]
  /\ down' = down \cup ({sender[n]} \ {NoSock})
  /\ UNCHANGED <<exchange, session, held, closed, raced>>

\* post_session_setup.  A socket overwritten here lives on in its mux task.
Wire(n, s) ==
  /\ stage[n][s] = "wire"
  /\ GoesTo(n, s, "insert")
  /\ sender' = [sender EXCEPT ![n] = s]
  /\ UNCHANGED <<exchange, session, held, down, closed, raced>>

InsertSession(n, s) ==
  /\ stage[n][s] = "insert"
  /\ GoesTo(n, s, "done")
  /\ StoreSession(n, NoSock)
  /\ UNCHANGED <<exchange, sender, closed, raced>>

\* The writer task of a node notices that the other end is gone.
WriterEnds(n, s) ==
  /\ s \in down \ closed[n]
  /\ closed' = [closed EXCEPT ![n] = @ \cup {s}]
  /\ UNCHANGED <<exchange, stage, table, down, raced>>

Runner(n, s) ==
  \/ ExchangeFails(n, s) \/ GlareCheck(n, s) \/ Yield(n, s)
  \/ Replace(n, s) \/ Wire(n, s) \/ InsertSession(n, s)

GlareNext ==
  \E s \in Sock :
    \/ Dial(s) \/ Exchange(s)
    \/ \E n \in Nodes : Runner(n, s) \/ WriterEnds(n, s)

GlareSpec == GlareInit /\ [][GlareNext]_glareVars

--------------------------------------------------------------------------------
(* Properties.                                                                *)

GlareTypeOK ==
  /\ dialled \in SUBSET Sock
  /\ outcome \in [Sock -> [Roles -> Results]]
  /\ stage \in [Nodes -> [Sock -> Pcs]]
  /\ sender \in [Nodes -> Sock \cup {NoSock}]
  /\ session \in [Nodes -> BOOLEAN]
  /\ held \in [Nodes -> Sock \cup {NoSock}]
  /\ down \in SUBSET Sock
  /\ closed \in [Nodes -> SUBSET Sock]
  /\ raced \in [Nodes -> BOOLEAN]

\* Every runner has come to an end, and no exchange failed.
Settled ==
  \A s \in dialled, n \in Nodes :
    stage[n][s] = "done" /\ outcome[s][Role(n, s)] = "ended"

\* The socket both nodes should use: the only one the lower id dialled, or the
\* only one at all.
Designated(s) ==
  /\ s \in dialled
  /\ dialled \cap LowSock = {s} \/ dialled = {s}

\* Unless two runners of one node raced, both nodes settle on the designated
\* socket, in whichever order the exchanges ended at either node and whatever was
\* wired in between, and neither node has closed it.
AgreeUnraced ==
  Settled /\ (\A n \in Nodes : ~raced[n]) =>
    \A s \in dialled : Designated(s) =>
      s \notin down /\ \A n \in Nodes : sender[n] = s

\* A node for which some exchange ended is left with a socket, even when runners
\* race and exchanges fail: what is torn down is always wired again.
NeverBare ==
  \A n \in Nodes :
    /\ \A s \in Sock : stage[n][s] \in {"exchange", "done"}
    /\ \E s \in Sock : stage[n][s] = "done" /\ outcome[s][Role(n, s)] = "ended"
    => sender[n] # NoSock

\* A node never keeps the socket it yielded as the one it writes to.
HeldIsSpare == \A n \in Nodes : held[n] # NoSock => sender[n] # held[n]

================================================================================
