-------------------------- MODULE DirectMessages_proofs -------------------------
(* For any nodes, messages and sockets: what the sender shows as delivered is   *)
(* stored at the receiver, and the pages of a conversation leave no gap.        *)
EXTENDS DirectMessages, FiniteSetTheorems, SequenceTheorems, WellFoundedInduction, TLAPS

Packets(n, s) == {inbox[n][s][i] : i \in DOMAIN inbox[n][s]}

\* A peer's sender is a socket to that peer, and nobody sends to himself.
Linked ==
  /\ \A c \in Message : From(c) # To(c)
  /\ \A n, m \in Node : sender[n][m] # NoSocket => Ends[sender[n][m]] = {n, m}

\* The call of c, numbered k, is one of those registered so far.
Call(used, k, c) == c \in used /\ number[c] = k

\* Every registered call has a number of its own at its sender, below the next one.
Numbered(used) ==
  /\ \A c \in Message : /\ caller[c] \in {"registered", "waiting"} => c \in used
                        /\ caller[c] \in {"idle", "stored"} => c \notin used
  /\ \A c \in used : number[c] < counter[From(c)]
  /\ \A c, d \in used : From(c) = From(d) /\ number[c] = number[d] => c = d
  /\ \A n \in Node : \A w \in waiters[n] : Call(used, w.id, w.of) /\ From(w.of) = n

\* A request is on its way to the receiver over a socket that leads back to the
\* sender; an answer without an error is about a message that is stored.
PacketFits(n, s, p) ==
  \/ p.type = "REQ" /\ To(p.of) = n /\ Ends[s] = {From(p.of), n}
  \/ p.type = "RESP" /\ From(p.of) = n /\ (p.error \/ p.of \in received[To(p.of)])

JobFits(n, s, j) == To(j.of) = n /\ Ends[s] = {From(j.of), n}

Carried(used) ==
  \A n \in Node, s \in Socket :
    /\ \A p \in Packets(n, s) : Call(used, p.id, p.of) /\ PacketFits(n, s, p)
    /\ job[n][s] # Idle => Call(used, job[n][s].id, job[n][s].of) /\ JobFits(n, s, job[n][s])
    /\ job[n][s] # Idle /\ job[n][s].do = "stored" => job[n][s].of \in received[n]

Answered ==
  \A c \in Message :
    /\ mailbox[c] # NoAnswer =>
         mailbox[c].of = c /\ (mailbox[c].error \/ c \in received[To(c)])
    /\ sent[c] = "delivered" => mailbox[c] # NoAnswer

\* As long as no daemon has been restarted.
Delivery ==
  restarts = 0 => (\E used \in SUBSET Message : Numbered(used) /\ Carried(used)) /\ Answered

Bounded == \E t \in Nat : \A c \in Message : sentAt[c] <= t

\* What is stored anywhere, or on its way to be, has a time.
Timed ==
  /\ \A c \in Message : caller[c] \in Open \/ sent[c] # "none" => sentAt[c] > 0
  /\ \A n \in Node : \A c \in received[n] : sentAt[c] > 0
  /\ \A n \in Node, s \in Socket :
       /\ \A p \in Packets(n, s) : sentAt[p.of] > 0
       /\ job[n][s] # Idle => sentAt[job[n][s].of] > 0

--------------------------------------------------------------------------------
(* Numbers.                                                                    *)

LEMMA MinimalIsLeast ==
  ASSUME NEW T, T \subseteq Nat, NEW R,
         \E x \in T : \A y \in T : ~(<<y, x>> \in R),
         \A y, z \in Nat : y < z => <<y, z>> \in R
  PROVE  \E x \in T : \A y \in T : x <= y
<1>1. PICK x \in T : \A y \in T : ~(<<y, x>> \in R)
  OBVIOUS
<1>2. ASSUME NEW y \in T PROVE x <= y
  <2>1. ~(y < x)
    BY <1>1
  <2>2. x \in Nat /\ y \in Nat
    OBVIOUS
  <2>3. QED
    BY <2>1, <2>2
<1>3. QED
  BY <1>2

\* A set of numbers has a least one.
LEMMA Least ==
  ASSUME NEW T, T \subseteq Nat, T # {}
  PROVE  \E x \in T : \A y \in T : x <= y
<1>1. \E x \in T : \A y \in T : ~ (<<y, x>> \in OpToRel(<, Nat))
  BY WFMin, NatLessThanWellFounded
<1>2. \A x, y \in Nat : x < y => <<x, y>> \in OpToRel(<, Nat)
  BY Zenon DEF OpToRel
<1>3. QED
  BY <1>1, <1>2, MinimalIsLeast, Zenon

\* The latest of times that have a bound is one of them.
LEMMA LatestIsTime ==
  ASSUME sentAt \in [Message -> Nat], Message # {},
         NEW b \in Nat, \A c \in Message : sentAt[c] <= b
  PROVE  Latest \in Nat /\ Latest <= b /\ \A c \in Message : sentAt[c] <= Latest
<1> DEFINE times == {sentAt[c] : c \in Message}
           bounds == {u \in Nat : \A t \in times : t <= u}
<1>1. PICK u \in bounds : \A v \in bounds : u <= v
  <2>1. b \in bounds
    OBVIOUS
  <2>2. QED
    BY <2>1, Least
<1>2. u \in times
  <2>1. SUFFICES ASSUME u \notin times PROVE FALSE
    OBVIOUS
  <2>2. \A t \in times : t \in Nat /\ t <= u /\ t # u
    BY <1>1, <2>1
  <2>3. PICK t \in times : TRUE
    OBVIOUS
  <2>4. u - 1 \in bounds
    BY <1>1, <2>2, <2>3
  <2>5. QED
    BY <1>1, <2>4
<1>3. \A v \in times : u >= v
  BY <1>1
<1>4. Latest \in times /\ \A t \in times : Latest >= t
  <2> HIDE DEF times
  <2>1. Latest = Max(times)
    BY DEF Latest, times
  <2>2. QED
    BY <1>2, <1>3, <2>1 DEF Max
<1>5. QED
  BY <1>4

--------------------------------------------------------------------------------
(* What a step does to the packets.                                            *)

LEMMA SeqRange ==
  ASSUME NEW S, NEW q \in Seq(S)
  PROVE  /\ DOMAIN q = 1 .. Len(q) /\ Len(q) \in Nat
         /\ \A i \in DOMAIN q : q[i] \in S
BY LenProperties

LEMMA PacketsTyped ==
  ASSUME TypeOK, NEW n \in Node, NEW s \in Socket
  PROVE  Packets(n, s) \subseteq Packet
<1>1. inbox[n][s] \in Seq(Packet)
  BY DEF TypeOK
<1>2. QED
  BY <1>1, SeqRange DEF Packets

LEMMA Queues ==
  ASSUME TypeOK, NEW n \in Node, NEW m \in Node, NEW msg \in Packet,
         sender[n][m] # NoSocket, inbox' = Queued(n, m, msg)
  PROVE  /\ inbox' \in [Node -> [Socket -> Seq(Packet)]]
         /\ \A k \in Node, s \in Socket : \A p \in Packets(k, s)' :
              p \in Packets(k, s) \/ (k = m /\ s = sender[n][m] /\ p = msg)
<1> DEFINE t == sender[n][m]
<1>1. t \in Socket /\ inbox \in [Node -> [Socket -> Seq(Packet)]]
  BY DEF TypeOK
<1>2. CASE dead[t]
  BY <1>1, <1>2 DEF Queued, Packets
<1>3. CASE ~dead[t]
  <2> DEFINE q == inbox[m][t]
             r == Append(q, msg)
  <2>1. q \in Seq(Packet)
    BY <1>1
  <2>2. /\ r \in Seq(Packet) /\ Len(q) \in Nat /\ Len(r) = Len(q) + 1
        /\ \A i \in 1 .. Len(q) : r[i] = q[i]
        /\ r[Len(q) + 1] = msg
        /\ DOMAIN r = 1 .. Len(q) + 1 /\ DOMAIN q = 1 .. Len(q)
    <3>1. /\ r \in Seq(Packet) /\ Len(r) = Len(q) + 1
          /\ \A i \in 1 .. Len(q) : r[i] = q[i]
          /\ r[Len(q) + 1] = msg
      BY <2>1, AppendProperties
    <3>2. DOMAIN r = 1 .. Len(r) /\ DOMAIN q = 1 .. Len(q) /\ Len(q) \in Nat
      BY <2>1, <3>1, LenProperties
    <3>3. QED
      BY <3>1, <3>2
  <2>3. inbox' = [inbox EXCEPT ![m] = [inbox[m] EXCEPT ![t] = r]]
    BY <1>1, <1>3 DEF Queued
  <2> HIDE DEF q, r, t
  <2>4. inbox' \in [Node -> [Socket -> Seq(Packet)]]
    BY <1>1, <2>2, <2>3
  <2>5. \A i \in DOMAIN r : r[i] = msg \/ \E j \in DOMAIN q : r[i] = q[j]
    BY <2>2
  <2>6. ASSUME NEW k \in Node, NEW s \in Socket, NEW p \in Packets(k, s)'
        PROVE  p \in Packets(k, s) \/ (k = m /\ s = t /\ p = msg)
    <3>1. CASE k = m /\ s = t
      <4>1. inbox'[k][s] = r /\ inbox[k][s] = q
        BY <1>1, <2>3, <3>1 DEF q
      <4>2. QED
        BY <2>5, <2>6, <3>1, <4>1 DEF Packets
    <3>2. CASE ~(k = m /\ s = t)
      <4>1. inbox'[k][s] = inbox[k][s]
        BY <1>1, <2>3, <3>2
      <4>2. QED
        BY <2>6, <4>1 DEF Packets
    <3>3. QED
      BY <3>1, <3>2
  <2>7. QED
    BY <2>4, <2>6 DEF t
<1>4. QED
  BY <1>2, <1>3

LEMMA Takes ==
  ASSUME TypeOK, NEW n \in Node, NEW s \in Socket, inbox[n][s] # <<>>, inbox' = Rest(n, s)
  PROVE  /\ inbox' \in [Node -> [Socket -> Seq(Packet)]]
         /\ \A k \in Node, t \in Socket : Packets(k, t)' \subseteq Packets(k, t)
         /\ Head(inbox[n][s]) \in Packets(n, s)
<1> DEFINE q == inbox[n][s]
           r == Tail(q)
<1>1. q \in Seq(Packet) /\ q # <<>> /\ inbox \in [Node -> [Socket -> Seq(Packet)]]
  BY DEF TypeOK
<1>2. /\ r \in Seq(Packet) /\ Len(r) = Len(q) - 1 /\ Len(q) \in Nat /\ Len(q) > 0
      /\ \A i \in 1 .. Len(r) : r[i] = q[i + 1]
      /\ Head(q) = q[1]
  BY <1>1, HeadTailProperties, LenProperties, EmptySeq
<1>3. DOMAIN q = 1 .. Len(q) /\ DOMAIN r = 1 .. Len(r)
  BY <1>1, <1>2, LenProperties
<1>4. inbox' = [inbox EXCEPT ![n] = [inbox[n] EXCEPT ![s] = r]]
  BY DEF Rest, TypeOK
<1> HIDE DEF q, r
<1>5. \A i \in DOMAIN r : \E j \in DOMAIN q : r[i] = q[j]
  <2>1. ASSUME NEW i \in DOMAIN r PROVE i + 1 \in DOMAIN q /\ r[i] = q[i + 1]
    BY <1>2, <1>3
  <2>2. QED
    BY <2>1
<1>6. inbox' \in [Node -> [Socket -> Seq(Packet)]]
  BY <1>1, <1>2, <1>4
<1>7. ASSUME NEW k \in Node, NEW t \in Socket
      PROVE  Packets(k, t)' \subseteq Packets(k, t)
  <2>1. CASE k = n /\ t = s
    <3>1. inbox'[k][t] = r /\ inbox[k][t] = q
      BY <1>1, <1>4, <2>1 DEF q
    <3>2. QED
      BY <1>5, <3>1 DEF Packets
  <2>2. CASE ~(k = n /\ t = s)
    <3>1. inbox'[k][t] = inbox[k][t]
      BY <1>1, <1>4, <2>2
    <3>2. QED
      BY <3>1 DEF Packets
  <2>3. QED
    BY <2>1, <2>2
<1>8. Head(q) \in Packets(n, s)
  BY <1>2, <1>3 DEF Packets, q
<1>9. QED
  BY <1>6, <1>7, <1>8 DEF q

LEMMA BreakCuts ==
  ASSUME TypeOK, NEW s \in Socket, Break(s)
  PROVE  /\ inbox' \in [Node -> [Socket -> Seq(Packet)]]
         /\ \A n \in Node, t \in Socket : Packets(n, t)' \subseteq Packets(n, t)
<1>1. PICK k \in [Ends[s] -> 0 .. 3] :
        /\ \A n \in Ends[s] : k[n] <= Len(inbox[n][s])
        /\ inbox' = [n \in Node |-> [inbox[n] EXCEPT ![s] =
                       IF n \in Ends[s] THEN SubSeq(@, 1, k[n]) ELSE @]]
  BY DEF Break
<1>2. inbox \in [Node -> [Socket -> Seq(Packet)]]
  BY DEF TypeOK
<1>3. ASSUME NEW n \in Node, NEW t \in Socket
      PROVE  inbox'[n][t] \in Seq(Packet) /\ Packets(n, t)' \subseteq Packets(n, t)
  <2>1. CASE t = s /\ n \in Ends[s]
    <3> DEFINE q == inbox[n][s]
               r == SubSeq(q, 1, k[n])
    <3>1. inbox'[n][t] = r
      BY <1>1, <1>2, <2>1
    <3>2. q \in Seq(Packet) /\ k[n] \in Int /\ k[n] <= Len(q) /\ k[n] >= 0
      <4>1. k[n] \in 0 .. 3 /\ k[n] <= Len(q)
        BY <1>1, <2>1
      <4>2. q \in Seq(Packet)
        BY <1>2
      <4> HIDE DEF q
      <4>3. QED
        BY <4>1, <4>2
    <3>3. DOMAIN q = 1 .. Len(q) /\ Len(q) \in Nat /\ \A i \in 1 .. Len(q) : q[i] \in Packet
      BY <3>2, SeqRange
    <3>4. /\ r \in Seq(Packet) /\ Len(r) = (IF 1 <= k[n] THEN k[n] ELSE 0)
          /\ \A i \in 1 .. k[n] : r[i] = q[i]
      BY <3>2, <3>3, SubSeqProperties
    <3>5. DOMAIN r = 1 .. Len(r)
      BY <3>4, LenProperties
    <3>6. \A i \in DOMAIN r : i \in DOMAIN q /\ r[i] = q[i]
      BY <3>2, <3>3, <3>4, <3>5
    <3> HIDE DEF r
    <3>7. QED
      BY <2>1, <3>1, <3>4, <3>6 DEF Packets
  <2>2. CASE ~(t = s /\ n \in Ends[s])
    <3>1. inbox'[n][t] = inbox[n][t]
      BY <1>1, <1>2, <2>2
    <3>2. QED
      BY <1>2, <3>1 DEF Packets
  <2>3. QED
    BY <2>1, <2>2
<1>4. DOMAIN inbox' = Node /\ inbox' = [n \in Node |-> inbox'[n]]
  BY <1>1
<1>5. \A n \in Node : inbox'[n] = [t \in Socket |-> inbox'[n][t]]
  BY <1>1, <1>2
<1>6. \A n \in Node : inbox'[n] \in [Socket -> Seq(Packet)]
  BY <1>3, <1>5
<1>7. QED
  BY <1>3, <1>4, <1>6

--------------------------------------------------------------------------------
(* Types.                                                                      *)

LEMMA JobTyped ==
  ASSUME TypeOK, NEW n \in Node, NEW s \in Socket
  PROVE  /\ job[n][s] = Idle \/ job[n][s] \in [do : Serves, id : Nat, of : Message]
         /\ job[n][s].do \in Serves => job[n][s] # Idle
BY DEF TypeOK, Serves, Idle

LEMMA HeadTyped ==
  ASSUME TypeOK, NEW n \in Node, NEW s \in Socket, inbox[n][s] # <<>>
  PROVE  Head(inbox[n][s]) \in Packet
<1>1. inbox[n][s] \in Seq(Packet)
  BY DEF TypeOK
<1>2. QED
  BY <1>1, HeadTailProperties

LEMMA MessagesTyped ==
  ASSUME NEW k \in Nat, NEW c \in Message
  PROVE  /\ REQ(k, c) \in Packet
         /\ \A e \in BOOLEAN : RESP(k, c, e) \in Answer /\ RESP(k, c, e) \in Packet
         /\ \A d \in Serves : Serving(k, c, d) \in [do : Serves, id : Nat, of : Message]
BY DEF REQ, RESP, Packet, Answer, Serving

LEMMA OtherEnd ==
  ASSUME NEW s \in Socket, NEW n \in Node, NEW m \in Node, n # m, Ends[s] = {n, m}
  PROVE  Other(n, s) = m
BY DEF Other

LEMMA TypeInit == Init => TypeOK
<1> SUFFICES ASSUME Init PROVE TypeOK
  OBVIOUS
<1> USE DEF Init
<1>1. /\ route \in [Message -> Node \X Node] /\ sentAt \in [Message -> Nat]
      /\ sent \in [Message -> Statuses] /\ received \in [Node -> SUBSET Message]
      /\ caller \in [Message -> Callers] /\ number \in [Message -> Nat]
      /\ mailbox \in [Message -> Answer \cup {NoAnswer}]
      /\ waiters \in [Node -> SUBSET Waiter] /\ counter \in [Node -> Nat]
  BY DEF Statuses, Callers
<1>2. sender \in [Node -> [Node -> Socket \cup {NoSocket}]]
  <2>1. ASSUME NEW n \in Node, NEW m \in Node
        PROVE  (IF \E s \in Initial : Ends[s] = {n, m}
                  THEN CHOOSE s \in Initial : Ends[s] = {n, m} ELSE NoSocket)
                 \in Socket \cup {NoSocket}
    BY TopologyAssumption
  <2>2. QED
    BY <2>1
<1>3. joined \in [Node -> SUBSET Socket]
  BY TopologyAssumption
<1>4. /\ inbox \in [Node -> [Socket -> Seq(Packet)]]
      /\ dead \in [Socket -> BOOLEAN]
      /\ job \in [Node -> [Socket -> {Idle} \cup [do : Serves, id : Nat, of : Message]]]
      /\ up \in SUBSET Node /\ restarts \in Nat /\ crashes \in Nat
  <2>1. <<>> \in Seq(Packet)
    BY EmptySeq
  <2>2. QED
    BY <2>1
<1>5. QED
  BY <1>1, <1>2, <1>3, <1>4 DEF TypeOK

\* send_message gives a message a time, and the times keep a bound.
LEMMA SendsAt ==
  ASSUME TypeOK, Bounded, NEW c \in Message, Send(c)
  PROVE  Bounded' /\ \E t \in Nat : t > 0 /\ sentAt' = [sentAt EXCEPT ![c] = t]
<1>1. PICK b \in Nat : \A d \in Message : sentAt[d] <= b
  BY DEF Bounded
<1>2. sentAt \in [Message -> Nat]
  BY DEF TypeOK
<1>3. Latest \in Nat /\ Latest <= b
  BY <1>1, <1>2, LatestIsTime
<1>4. PICK t : t \in {Latest, Latest + 1} \ {0} /\ sentAt' = [sentAt EXCEPT ![c] = t]
  BY DEF Send
<1>5. t \in Nat /\ t > 0 /\ t <= b + 1
  BY <1>3, <1>4
<1>6. \A d \in Message : sentAt'[d] <= b + 1
  BY <1>1, <1>2, <1>4, <1>5
<1>7. b + 1 \in Nat
  OBVIOUS
<1>8. QED
  BY <1>4, <1>5, <1>6, <1>7 DEF Bounded

\* The route of a message stays, only send_message gives times, and only a restart
\* counts as one.
LEMMA Untouched ==
  ASSUME [Next]_vars
  PROVE  /\ route' = route
         /\ sentAt' = sentAt \/ \E c \in Message : Send(c)
         /\ restarts' = restarts \/ \E n \in Node : DaemonRestarts(n)
<1> USE DEF database, faults
<1>1. ASSUME NEW c \in Message, Unlisted(c) \/ Delete(c) \/ Timeout(c)
      PROVE  route' = route /\ sentAt' = sentAt /\ restarts' = restarts
  BY <1>1 DEF Unlisted, Delete, Timeout
<1>2. ASSUME NEW c \in Message, CallStep(c)
      PROVE  route' = route /\ sentAt' = sentAt /\ restarts' = restarts
  BY <1>2 DEF CallStep, Register, Request, Unsent, Collect
<1>3. ASSUME NEW n \in Node, NEW s \in Socket, Join(n, s) \/ LoopStep(n, s)
      PROVE  route' = route /\ sentAt' = sentAt /\ restarts' = restarts
  <2>1. CASE Join(n, s) \/ TakeRequest(n, s) \/ TakeResponse(n, s)
    BY <2>1 DEF Join, TakeRequest, TakeResponse
  <2>2. CASE Persist(n, s) \/ Refused(n, s) \/ Respond(n, s)
    BY <2>2 DEF Persist, Refused, Respond
  <2>3. QED
    BY <1>3, <2>1, <2>2 DEF LoopStep
<1>4. ASSUME NEW s \in Socket, Break(s)
      PROVE  route' = route /\ sentAt' = sentAt /\ restarts' = restarts
  BY <1>4 DEF Break
<1>5. ASSUME NEW n \in Node, CapDies(n) \/ CapStarts(n) \/ \E m \in Node : Leave(n, m)
      PROVE  route' = route /\ sentAt' = sentAt /\ restarts' = restarts
  BY <1>5 DEF CapDies, CapStarts, Leave
<1>6. ASSUME NEW c \in Message, Send(c) PROVE route' = route /\ restarts' = restarts
  BY <1>6 DEF Send
<1>7. ASSUME NEW n \in Node, DaemonRestarts(n) PROVE route' = route /\ sentAt' = sentAt
  BY <1>7 DEF DaemonRestarts
<1>8. CASE UNCHANGED vars
  BY <1>8 DEF vars
<1>9. QED
  BY <1>1, <1>2, <1>3, <1>4, <1>5, <1>6, <1>7, <1>8 DEF Next

LEMMA BoundedInit == Init => Bounded
<1>1. Init => \A c \in Message : sentAt[c] <= 0
  BY DEF Init
<1>2. QED
  BY <1>1 DEF Bounded

LEMMA TypeStep == TypeOK /\ Bounded /\ [Next]_vars => TypeOK' /\ Bounded'
<1> SUFFICES ASSUME TypeOK, Bounded, [Next]_vars PROVE TypeOK' /\ Bounded'
  OBVIOUS
<1>0. Bounded'
  BY SendsAt, Untouched DEF Bounded
<1> USE DEF database, calls, links, faults
<1>1. ASSUME NEW c \in Message, Send(c) PROVE TypeOK'
  <2>1. sentAt' \in [Message -> Nat]
    BY <1>1, SendsAt DEF TypeOK
  <2>2. QED
    BY <1>1, <2>1 DEF Send, TypeOK, Statuses, Callers
<1>2. ASSUME NEW c \in Message,
             Unlisted(c) \/ Unsent(c) \/ Collect(c) \/ Timeout(c) \/ Delete(c)
      PROVE  TypeOK'
  <2>1. CASE Unlisted(c)
    BY <2>1 DEF TypeOK, Unlisted, Callers
  <2>2. CASE Unsent(c)
    <3>1. /\ From(c) \in Node /\ To(c) \in Node
          /\ sender' = [sender EXCEPT ![From(c)] = [sender[From(c)] EXCEPT ![To(c)] = NoSocket]]
      BY <2>2 DEF TypeOK, Unsent, From, To
    <3>2. sender' \in [Node -> [Node -> Socket \cup {NoSocket}]]
      BY <3>1 DEF TypeOK
    <3>3. QED
      BY <2>2, <3>2 DEF TypeOK, Unsent, Status, Statuses, Callers
  <2>3. CASE Collect(c)
    BY <2>3 DEF TypeOK, Collect, Status, Statuses, Callers
  <2>4. CASE Timeout(c)
    BY <2>4 DEF TypeOK, Timeout, Status, Statuses, Callers
  <2>5. CASE Delete(c)
    BY <2>5 DEF TypeOK, Delete, Statuses
  <2>6. QED
    BY <1>2, <2>1, <2>2, <2>3, <2>4, <2>5
<1>3. ASSUME NEW c \in Message, Register(c) PROVE TypeOK'
  <2>1. From(c) \in Node /\ counter[From(c)] \in Nat
    BY DEF TypeOK, From
  <2>2. [id |-> counter[From(c)], of |-> c] \in Waiter
    BY <2>1 DEF Waiter
  <2>3. waiters' \in [Node -> SUBSET Waiter]
    BY <1>3, <2>1, <2>2 DEF Register, TypeOK
  <2>4. QED
    BY <1>3, <2>1, <2>3 DEF Register, TypeOK, Callers
<1>4. ASSUME NEW c \in Message, Request(c) PROVE TypeOK'
  <2>1. From(c) \in Node /\ To(c) \in Node /\ number[c] \in Nat
    BY DEF TypeOK, From, To
  <2>2. inbox' \in [Node -> [Socket -> Seq(Packet)]]
    BY <1>4, <2>1, MessagesTyped, Queues DEF Request
  <2>3. QED
    BY <1>4, <2>2 DEF Request, TypeOK, Callers
<1>5. ASSUME NEW n \in Node, NEW s \in Socket, Join(n, s) PROVE TypeOK'
  BY <1>5 DEF Join, TypeOK
<1>6. ASSUME NEW n \in Node, NEW s \in Socket, TakeRequest(n, s) PROVE TypeOK'
  <2>1. /\ Head(inbox[n][s]) \in Packet
        /\ inbox' \in [Node -> [Socket -> Seq(Packet)]]
    BY <1>6, HeadTyped, Takes DEF TakeRequest, Handles
  <2>2. Serving(Head(inbox[n][s]).id, Head(inbox[n][s]).of, "posted") \in
          [do : Serves, id : Nat, of : Message]
    BY <2>1, MessagesTyped DEF Packet, Answer, Serves
  <2>3. QED
    BY <1>6, <2>1, <2>2 DEF TakeRequest, TypeOK
<1>7. ASSUME NEW n \in Node, NEW s \in Socket, Persist(n, s) \/ Refused(n, s) PROVE TypeOK'
  <2>1. job[n][s] \in [do : Serves, id : Nat, of : Message]
    BY <1>7, JobTyped DEF Persist, Refused, Posted, Serves, Idle
  <2>2. \A d \in Serves : [job[n][s] EXCEPT !.do = d] \in [do : Serves, id : Nat, of : Message]
    BY <2>1
  <2>3. PICK d \in Serves :
          job' = [job EXCEPT ![n] = [job[n] EXCEPT ![s] = [job[n][s] EXCEPT !.do = d]]]
    BY <1>7 DEF Persist, Refused, Serves
  <2>4. job' \in [Node -> [Socket -> {Idle} \cup [do : Serves, id : Nat, of : Message]]]
    BY <2>2, <2>3 DEF TypeOK
  <2>5. CASE Persist(n, s)
    BY <2>1, <2>4, <2>5 DEF Persist, TypeOK
  <2>6. CASE Refused(n, s)
    BY <2>4, <2>6 DEF Refused, TypeOK
  <2>7. QED
    BY <1>7, <2>5, <2>6
<1>8. ASSUME NEW n \in Node, NEW s \in Socket, Respond(n, s) PROVE TypeOK'
  <2> DEFINE j == job[n][s]
             m == Other(n, s)
  <2>1. j \in [do : Serves, id : Nat, of : Message]
    BY <1>8, JobTyped DEF Respond, Serves, Idle
  <2>2. RESP(j.id, j.of, j.do = "refused") \in Packet
    BY <2>1, MessagesTyped
  <2>3. CASE m \in Node
    <3>1. inbox' \in [Node -> [Socket -> Seq(Packet)]]
      BY <1>8, <2>2, <2>3, Queues DEF Respond, TypeOK
    <3>2. QED
      BY <1>8, <3>1 DEF Respond, TypeOK
  <2>4. m \in Node
    BY TopologyAssumption DEF Other
  <2>5. QED
    BY <2>3, <2>4
<1>9. ASSUME NEW n \in Node, NEW s \in Socket, TakeResponse(n, s) PROVE TypeOK'
  <2>1. /\ Head(inbox[n][s]) \in Packet /\ Head(inbox[n][s]).type = "RESP"
        /\ inbox' \in [Node -> [Socket -> Seq(Packet)]]
    BY <1>9, HeadTyped, Takes DEF TakeResponse, Handles
  <2>2. Head(inbox[n][s]) \in Answer
    BY <2>1 DEF Packet
  <2>3. mailbox' \in [Message -> Answer \cup {NoAnswer}]
    BY <1>9, <2>2 DEF TakeResponse, TypeOK
  <2>4. QED
    BY <1>9, <2>1, <2>3 DEF TakeResponse, TypeOK
<1>10. ASSUME NEW s \in Socket, Break(s) PROVE TypeOK'
  <2>1. inbox' \in [Node -> [Socket -> Seq(Packet)]]
    BY <1>10, BreakCuts
  <2>2. QED
    BY <1>10, <2>1 DEF Break, TypeOK
<1>11. ASSUME NEW n \in Node, NEW m \in Node, Leave(n, m) PROVE TypeOK'
  BY <1>11 DEF Leave, TypeOK
<1>12. ASSUME NEW n \in Node, CapDies(n) PROVE TypeOK'
  <2>1. ASSUME NEW s \in Socket
        PROVE  (IF job[n][s].do \in {"posted", "stored"}
                  THEN [job[n][s] EXCEPT !.do = "refused"] ELSE job[n][s])
                 \in {Idle} \cup [do : Serves, id : Nat, of : Message]
    BY JobTyped DEF Serves, Idle
  <2>2. job' \in [Node -> [Socket -> {Idle} \cup [do : Serves, id : Nat, of : Message]]]
    BY <1>12, <2>1 DEF CapDies, TypeOK
  <2>3. QED
    BY <1>12, <2>2 DEF CapDies, TypeOK, Callers
<1>13. ASSUME NEW n \in Node, CapStarts(n) PROVE TypeOK'
  BY <1>13 DEF CapStarts, TypeOK
<1>14. ASSUME NEW n \in Node, DaemonRestarts(n) PROVE TypeOK'
  <2>1. inbox' \in [Node -> [Socket -> Seq(Packet)]]
    <3>1. <<>> \in Seq(Packet)
      BY EmptySeq
    <3>2. QED
      BY <1>14, <3>1 DEF DaemonRestarts, TypeOK
  <2>2. /\ sent' \in [Message -> Statuses] /\ caller' \in [Message -> Callers]
        /\ UNCHANGED <<route, received, sentAt, number, mailbox, joined, up, crashes>>
    BY <1>14 DEF DaemonRestarts, TypeOK, Status, Statuses, Callers
  <2>3. /\ waiters' \in [Node -> SUBSET Waiter] /\ counter' \in [Node -> Nat]
        /\ sender' \in [Node -> [Node -> Socket \cup {NoSocket}]]
        /\ dead' \in [Socket -> BOOLEAN]
        /\ job' \in [Node -> [Socket -> {Idle} \cup [do : Serves, id : Nat, of : Message]]]
        /\ restarts' \in Nat
    BY <1>14 DEF DaemonRestarts, TypeOK
  <2>4. QED
    BY <2>1, <2>2, <2>3 DEF TypeOK
<1>15. CASE UNCHANGED vars
  <2>1. /\ route' = route /\ sentAt' = sentAt /\ sent' = sent /\ received' = received
        /\ caller' = caller /\ number' = number /\ mailbox' = mailbox /\ waiters' = waiters
        /\ counter' = counter /\ sender' = sender /\ joined' = joined /\ dead' = dead
        /\ inbox' = inbox /\ job' = job /\ up' = up /\ restarts' = restarts /\ crashes' = crashes
    BY <1>15 DEF vars
  <2>2. QED
    BY <1>0, <2>1 DEF TypeOK
<1>16. QED
  BY <1>0, <1>1, <1>2, <1>3, <1>4, <1>5, <1>6, <1>7, <1>8, <1>9, <1>10, <1>11, <1>12, <1>13,
     <1>14, <1>15 DEF Next, CallStep, LoopStep

\* Every table, row, message and mailbox keeps its type (DirectMessages).
THEOREM TypeCorrect == Spec => []TypeOK
BY TypeInit, BoundedInit, TypeStep, PTL DEF Spec

--------------------------------------------------------------------------------
(* Delivery.                                                                   *)

LEMMA TwoEnds ==
  ASSUME NEW s \in Socket, NEW n \in Ends[s], n \in Node
  PROVE  Other(n, s) \in Node /\ Ends[s] = {n, Other(n, s)}
<1>1. PICK m \in Node : n # m /\ Ends[s] = {n, m}
  BY TopologyAssumption
<1>2. QED
  BY <1>1, OtherEnd

LEMMA LinkedInit == Init => Linked
<1> SUFFICES ASSUME Init PROVE Linked
  OBVIOUS
<1>1. \A c \in Message : From(c) # To(c)
  BY DEF Init, From, To
<1>2. ASSUME NEW n \in Node, NEW m \in Node, sender[n][m] # NoSocket
      PROVE  Ends[sender[n][m]] = {n, m}
  <2>1. PICK s \in Initial : Ends[s] = {n, m}
    BY <1>2 DEF Init
  <2>2. sender[n][m] = CHOOSE t \in Initial : Ends[t] = {n, m}
    BY <2>1 DEF Init
  <2>3. QED
    BY <2>1, <2>2
<1>3. QED
  BY <1>1, <1>2 DEF Linked

LEMMA LinkedStep ==
  ASSUME TypeOK, Linked, [Next]_vars
  PROVE  Linked'
<1>1. \A c \in Message : (From(c) # To(c))'
  BY Untouched DEF Linked, From, To
<1>2. sender \in [Node -> [Node -> Socket \cup {NoSocket}]]
  BY DEF TypeOK
<1>3. ASSUME NEW n \in Node, NEW m \in Node, sender' = [sender EXCEPT ![n][m] = NoSocket]
      PROVE  Linked'
  BY <1>1, <1>2, <1>3 DEF Linked
<1>4. ASSUME NEW n \in Node, NEW s \in Socket, Join(n, s) PROVE Linked'
  <2>1. Other(n, s) \in Node /\ Ends[s] = {n, Other(n, s)}
    BY <1>4, TwoEnds DEF Join
  <2>2. sender' = [sender EXCEPT ![n][Other(n, s)] = s]
    BY <1>4 DEF Join
  <2>3. QED
    BY <1>1, <1>2, <2>1, <2>2 DEF Linked
<1>5. ASSUME NEW n \in Node, DaemonRestarts(n) PROVE Linked'
  <2>1. sender' = [sender EXCEPT ![n] = [m \in Node |-> NoSocket]]
    BY <1>5 DEF DaemonRestarts
  <2>2. QED
    BY <1>1, <1>2, <2>1 DEF Linked
<1>6. CASE sender' = sender
  BY <1>1, <1>6 DEF Linked
<1>7. ASSUME NEW c \in Message, Unsent(c) PROVE Linked'
  <2>1. From(c) \in Node /\ To(c) \in Node
    BY DEF TypeOK, From, To
  <2>2. QED
    BY <1>3, <1>7, <2>1 DEF Unsent
<1>8. ASSUME NEW n \in Node, NEW m \in Node, Leave(n, m) PROVE Linked'
  BY <1>3, <1>8 DEF Leave
<1>9. QED
  BY <1>4, <1>5, <1>6, <1>7, <1>8
     DEF Next, CallStep, LoopStep, Send, Unlisted, Delete, Timeout, Register, Request, Collect,
         TakeRequest, Persist, Refused, Respond, TakeResponse, Break, CapDies, CapStarts, vars,
         links

\* A step that registers no call, and leaves what was said of calls, packets,
\* jobs, mailboxes and rows true.
Calm(used) ==
  /\ route' = route /\ number' = number /\ counter' = counter
  /\ \A n \in Node : waiters'[n] \subseteq waiters[n] /\ received[n] \subseteq received'[n]
  /\ \A c \in Message : /\ caller'[c] \in {"registered", "waiting"} => c \in used
                        /\ caller'[c] \in {"idle", "stored"} => c \notin used

CalmPackets(used) ==
  \A n \in Node, s \in Socket : \A p \in Packets(n, s)' :
    p \in Packets(n, s) \/ (p \in Packet /\ Call(used, p.id, p.of) /\ PacketFits(n, s, p))

CalmJobs(used) ==
  \A n \in Node, s \in Socket :
    \/ job'[n][s] = job[n][s]
    \/ job'[n][s] = Idle
    \/ /\ Call(used, job'[n][s].id, job'[n][s].of) /\ JobFits(n, s, job'[n][s])
       /\ job'[n][s].do = "stored" => job'[n][s].of \in received'[n]

CalmAnswers ==
  \A c \in Message :
    /\ \/ mailbox'[c] = mailbox[c]
       \/ /\ mailbox'[c] # NoAnswer /\ mailbox'[c].of = c
          /\ mailbox'[c].error \/ c \in received[To(c)]
    /\ sent'[c] = "delivered" => sent[c] = "delivered" \/ mailbox[c] # NoAnswer

LEMMA CalmKeeps ==
  ASSUME TypeOK, NEW used \in SUBSET Message, Numbered(used), Carried(used), Answered,
         Calm(used), CalmPackets(used), CalmJobs(used), CalmAnswers
  PROVE  Numbered(used)' /\ Carried(used)' /\ Answered'
<1>1. /\ \A c \in Message : From(c)' = From(c) /\ To(c)' = To(c)
      /\ \A c \in Message : From(c) \in Node /\ To(c) \in Node
      /\ \A k, c : Call(used, k, c)' <=> Call(used, k, c)
  BY DEF Calm, From, To, Call, TypeOK
<1>2. Numbered(used)'
  <2>1. /\ \A c \in used : (number[c] < counter[From(c)])'
        /\ \A c, d \in used : (From(c) = From(d) /\ number[c] = number[d])' => c = d
    BY <1>1 DEF Calm, Numbered
  <2>2. ASSUME NEW n \in Node, NEW w \in waiters'[n]
        PROVE  Call(used, w.id, w.of)' /\ From(w.of)' = n
    <3>1. w \in waiters[n] /\ w.of \in Message
      BY DEF Calm, TypeOK, Waiter
    <3>2. QED
      BY <1>1, <3>1 DEF Numbered
  <2>3. QED
    BY <2>1, <2>2 DEF Calm, Numbered
<1>3. Carried(used)'
  <2>1. ASSUME NEW n \in Node, NEW s \in Socket, NEW p \in Packets(n, s)'
        PROVE  Call(used, p.id, p.of)' /\ PacketFits(n, s, p)'
    <3>1. p \in Packet /\ Call(used, p.id, p.of) /\ PacketFits(n, s, p)
      BY <2>1, PacketsTyped DEF CalmPackets, Carried
    <3>2. p.of \in Message
      BY <3>1 DEF Packet, Answer
    <3>3. QED
      BY <1>1, <3>1, <3>2 DEF PacketFits, Calm
  <2>2. ASSUME NEW n \in Node, NEW s \in Socket, job'[n][s] # Idle
        PROVE  /\ Call(used, job[n][s].id, job[n][s].of)' /\ JobFits(n, s, job[n][s])'
               /\ (job[n][s].do = "stored" => job[n][s].of \in received[n])'
    <3>1. /\ Call(used, job'[n][s].id, job'[n][s].of) /\ JobFits(n, s, job'[n][s])
          /\ job'[n][s].do = "stored" => job'[n][s].of \in received'[n]
      <4>1. CASE job'[n][s] = job[n][s]
        BY <2>2, <4>1 DEF Carried, Calm
      <4>2. CASE job'[n][s] # job[n][s]
        BY <2>2, <4>2 DEF CalmJobs
      <4>3. QED
        BY <4>1, <4>2
    <3>2. job'[n][s].of \in Message
      BY <3>1 DEF Call
    <3>3. QED
      BY <1>1, <3>1, <3>2 DEF JobFits
  <2>3. QED
    BY <2>1, <2>2 DEF Carried
<1>4. Answered'
  <2>1. ASSUME NEW c \in Message, mailbox'[c] # NoAnswer
        PROVE  mailbox'[c].of = c /\ (mailbox'[c].error \/ c \in received'[To(c)'])
    <3>1. mailbox'[c].of = c /\ (mailbox'[c].error \/ c \in received[To(c)])
      BY <2>1 DEF CalmAnswers, Answered
    <3>2. QED
      BY <1>1, <3>1 DEF Calm
  <2>2. ASSUME NEW c \in Message, sent'[c] = "delivered" PROVE mailbox'[c] # NoAnswer
    BY <2>2 DEF CalmAnswers, Answered
  <2>3. QED
    BY <2>1, <2>2 DEF Answered
<1>5. QED
  BY <1>2, <1>3, <1>4

\* A call that goes on is one of those registered, until it is registered.
LEMMA CalmCalls ==
  ASSUME NEW used \in SUBSET Message, Numbered(used),
         route' = route, number' = number, counter' = counter,
         \A n \in Node : waiters'[n] \subseteq waiters[n] /\ received[n] \subseteq received'[n],
         \A c \in Message :
           \/ caller'[c] = caller[c] \/ caller'[c] \in {"done", "lost"}
           \/ caller[c] = "idle" /\ caller'[c] = "stored"
           \/ caller[c] = "registered" /\ caller'[c] = "waiting"
  PROVE  Calm(used)
BY DEF Calm, Numbered

LEMMA StillPackets ==
  ASSUME NEW used, inbox' = inbox
  PROVE  CalmPackets(used)
BY DEF CalmPackets, Packets

LEMMA StillJobs ==
  ASSUME NEW used, job' = job
  PROVE  CalmJobs(used)
BY DEF CalmJobs

LEMMA StillAnswers ==
  ASSUME mailbox' = mailbox, sent' = sent
  PROVE  CalmAnswers
BY DEF CalmAnswers

\* The steps of a call that send nothing and register nothing, and those of links
\* and processes that leave the calls alone.
LEMMA QuietStep ==
  ASSUME TypeOK, NEW used \in SUBSET Message, Numbered(used), Carried(used), Answered,
         \/ \E c \in Message : Send(c) \/ Unlisted(c) \/ Delete(c) \/ Timeout(c) \/ Unsent(c)
                               \/ Collect(c)
         \/ \E n \in Node, s \in Socket : Join(n, s)
         \/ \E n, m \in Node : Leave(n, m)
         \/ \E n \in Node : CapStarts(n)
         \/ UNCHANGED vars
  PROVE  Numbered(used)' /\ Carried(used)' /\ Answered'
<1> USE DEF database, calls, links, faults
<1>1. /\ route' = route /\ number' = number /\ counter' = counter /\ waiters' = waiters
      /\ received' = received /\ inbox' = inbox /\ job' = job /\ mailbox' = mailbox
  BY DEF Send, Unlisted, Delete, Timeout, Unsent, Collect, Join, Leave, CapStarts, vars
<1>2. \A c \in Message :
        \/ caller'[c] = caller[c] \/ caller'[c] \in {"done", "lost"}
        \/ caller[c] = "idle" /\ caller'[c] = "stored"
  <2>1. caller \in [Message -> Callers]
    BY DEF TypeOK
  <2>2. \/ caller' = caller
        \/ \E c \in Message : \/ caller' = [caller EXCEPT ![c] = "done"]
                              \/ caller[c] = "idle" /\ caller' = [caller EXCEPT ![c] = "stored"]
    BY DEF Send, Unlisted, Delete, Timeout, Unsent, Collect, Join, Leave, CapStarts, vars
  <2>3. QED
    BY <2>1, <2>2
<1>3. \A c \in Message : sent'[c] = "delivered" => sent[c] = "delivered" \/ mailbox[c] # NoAnswer
  <2>1. sent \in [Message -> Statuses]
    BY DEF TypeOK
  <2>2. \/ sent' = sent
        \/ \E c \in Message :
             \/ mailbox[c] # NoAnswer /\ sent' = [sent EXCEPT ![c] = Status(c, "delivered")]
             \/ \E st \in {"pending", "failed", "deleted"} :
                  sent' = [sent EXCEPT ![c] = st]
    BY DEF Send, Unlisted, Delete, Timeout, Unsent, Collect, Join, Leave, CapStarts, vars, Status
  <2>3. QED
    BY <2>1, <2>2
<1>4. Calm(used)
  BY <1>1, <1>2, CalmCalls
<1>5. CalmPackets(used) /\ CalmJobs(used)
  BY <1>1, StillPackets, StillJobs
<1>6. CalmAnswers
  BY <1>1, <1>3 DEF CalmAnswers
<1>7. QED
  BY <1>4, <1>5, <1>6, CalmKeeps

\* handle_rpc registers one more call, under a number no call of the node has.
LEMMA RegisterStep ==
  ASSUME TypeOK, NEW used \in SUBSET Message, Numbered(used), Carried(used), Answered,
         NEW c \in Message, Register(c)
  PROVE  /\ used \cup {c} \in SUBSET Message
         /\ Numbered(used \cup {c})' /\ Carried(used \cup {c})' /\ Answered'
<1> DEFINE n == From(c)
           more == used \cup {c}
<1>1. /\ caller[c] = "stored" /\ c \notin used
      /\ number' = [number EXCEPT ![c] = counter[n]]
      /\ counter' = [counter EXCEPT ![n] = counter[n] + 1]
      /\ waiters' = [waiters EXCEPT ![n] = {w \in waiters[n] : w.id # counter[n]}
                                             \cup {[id |-> counter[n], of |-> c]}]
      /\ caller' = [caller EXCEPT ![c] = "registered"]
  BY DEF Register, Numbered
<1>2. /\ route' = route /\ received' = received /\ sent' = sent /\ mailbox' = mailbox
      /\ inbox' = inbox /\ job' = job
  BY DEF Register, database, links, faults
<1>3. /\ \A d \in Message : From(d)' = From(d) /\ To(d)' = To(d)
      /\ \A d \in Message : From(d) \in Node /\ number[d] \in Nat
      /\ number \in [Message -> Nat] /\ counter \in [Node -> Nat]
      /\ waiters \in [Node -> SUBSET Waiter] /\ caller \in [Message -> Callers]
  BY <1>2 DEF From, To, TypeOK
<1>4. \A d \in used : d # c /\ number'[d] = number[d]
  BY <1>1, <1>3
<1>5. number'[c] = counter[n] /\ counter'[n] = counter[n] + 1
      /\ \A m \in Node : counter[m] \in Nat /\ counter'[m] >= counter[m]
  BY <1>1, <1>3
<1>6. \A k, d : Call(used, k, d) => Call(more, k, d)'
  BY <1>4 DEF Call
<1> HIDE DEF n
<1>7. Numbered(more)'
  <2>1. \A d \in Message : /\ caller'[d] \in {"registered", "waiting"} => d \in more
                           /\ caller'[d] \in {"idle", "stored"} => d \notin more
    BY <1>1, <1>3 DEF Numbered
  <2>2. \A d \in more : number'[d] < counter'[From(d)]
    <3>1. \A d \in used : number[d] < counter[From(d)]
      BY DEF Numbered
    <3>2. ASSUME NEW d \in used PROVE number'[d] < counter'[From(d)]
      <4>1. number[d] < counter[From(d)] /\ number'[d] = number[d]
        BY <1>4, <3>1
      <4>2. /\ counter[From(d)] \in Nat /\ counter'[From(d)] >= counter[From(d)]
            /\ number[d] \in Nat
        BY <1>3, <1>5
      <4>3. counter'[From(d)] \in Nat
        BY <1>1, <1>3 DEF n
      <4>4. QED
        BY <4>1, <4>2, <4>3
    <3>3. number'[c] < counter'[From(c)]
      BY <1>3, <1>5 DEF n
    <3>4. QED
      BY <3>2, <3>3
  <2>3. ASSUME NEW d \in more, NEW e \in more, From(d) = From(e), number'[d] = number'[e]
        PROVE  d = e
    <3>1. \A f \in used : From(f) = n => number'[f] < number'[c]
      BY <1>3, <1>4, <1>5 DEF Numbered
    <3>2. CASE d \in used /\ e \in used
      BY <1>4, <2>3, <3>2 DEF Numbered
    <3>3. CASE d = c /\ e \in used
      BY <1>3, <1>5, <2>3, <3>1, <3>3 DEF n
    <3>4. CASE e = c /\ d \in used
      BY <1>3, <1>5, <2>3, <3>1, <3>4 DEF n
    <3>5. QED
      BY <3>2, <3>3, <3>4
  <2>4. ASSUME NEW m \in Node, NEW w \in waiters'[m]
        PROVE  Call(more, w.id, w.of)' /\ From(w.of)' = m
    <3>1. CASE w \in waiters[m]
      <4>1. Call(used, w.id, w.of) /\ From(w.of) = m /\ w.of \in Message
        BY <1>3, <3>1 DEF Numbered, Waiter
      <4>2. QED
        BY <1>3, <1>6, <4>1
    <3>2. CASE w \notin waiters[m]
      <4>1. m = n /\ w = [id |-> counter[n], of |-> c]
        BY <1>1, <1>3, <2>4, <3>2
      <4>2. QED
        BY <1>3, <1>5, <4>1 DEF Call, n
    <3>3. QED
      BY <3>1, <3>2
  <2>5. /\ \A d \in more : number'[d] < counter'[From(d)']
        /\ \A d, e \in more : From(d)' = From(e)' /\ number'[d] = number'[e] => d = e
    BY <1>3, <2>2, <2>3
  <2>6. QED
    BY <2>1, <2>4, <2>5 DEF Numbered
<1>8. Carried(more)'
  <2>1. ASSUME NEW m \in Node, NEW s \in Socket, NEW p \in Packets(m, s)'
        PROVE  Call(more, p.id, p.of)' /\ PacketFits(m, s, p)'
    <3>1. p \in Packets(m, s) /\ p \in Packet
      BY <1>2, PacketsTyped DEF Packets
    <3>2. p.of \in Message /\ Call(used, p.id, p.of) /\ PacketFits(m, s, p)
      BY <3>1 DEF Packet, Answer, Carried
    <3>3. QED
      BY <1>2, <1>3, <1>6, <3>2 DEF PacketFits
  <2>2. ASSUME NEW m \in Node, NEW s \in Socket, job'[m][s] # Idle
        PROVE  /\ Call(more, job[m][s].id, job[m][s].of)' /\ JobFits(m, s, job[m][s])'
               /\ (job[m][s].do = "stored" => job[m][s].of \in received[m])'
    <3>1. /\ Call(used, job[m][s].id, job[m][s].of) /\ JobFits(m, s, job[m][s])
          /\ job[m][s].do = "stored" => job[m][s].of \in received[m]
          /\ job[m][s].of \in Message
      BY <1>2, <2>2 DEF Carried, Call
    <3>2. QED
      BY <1>2, <1>3, <1>6, <3>1 DEF JobFits
  <2>3. QED
    BY <2>1, <2>2 DEF Carried
<1>9. Answered'
  BY <1>2, <1>3 DEF Answered
<1>10. QED
  BY <1>7, <1>8, <1>9

\* A request goes to the receiver over a socket that leads back.
LEMMA RequestStep ==
  ASSUME TypeOK, Linked, NEW used \in SUBSET Message, Numbered(used), Carried(used), Answered,
         NEW c \in Message, Request(c)
  PROVE  Numbered(used)' /\ Carried(used)' /\ Answered'
<1> DEFINE n == From(c)
           m == To(c)
<1>1. /\ caller[c] = "registered" /\ caller' = [caller EXCEPT ![c] = "waiting"]
      /\ sender[n][m] # NoSocket /\ inbox' = Queued(n, m, REQ(number[c], c))
      /\ route' = route /\ number' = number /\ counter' = counter /\ waiters' = waiters
      /\ received' = received /\ job' = job /\ mailbox' = mailbox /\ sent' = sent
  BY DEF Request, database, links, faults
<1>2. n \in Node /\ m \in Node /\ number[c] \in Nat /\ caller \in [Message -> Callers]
  BY DEF TypeOK, From, To
<1>3. Calm(used)
  BY <1>1, <1>2, CalmCalls
<1>4. CalmPackets(used)
  <2>1. REQ(number[c], c) \in Packet
    BY <1>2, MessagesTyped
  <2>2. Call(used, number[c], c) /\ Ends[sender[n][m]] = {n, m}
    BY <1>1, <1>2 DEF Numbered, Call, Linked
  <2>3. /\ PacketFits(m, sender[n][m], REQ(number[c], c))
        /\ REQ(number[c], c).id = number[c] /\ REQ(number[c], c).of = c
    BY <2>2 DEF PacketFits, REQ
  <2>4. \A k \in Node, s \in Socket : \A p \in Packets(k, s)' :
          p \in Packets(k, s) \/ (k = m /\ s = sender[n][m] /\ p = REQ(number[c], c))
    BY <1>1, <1>2, <2>1, Queues
  <2>5. QED
    BY <2>2, <2>3, <2>4, <2>1 DEF CalmPackets
<1>5. CalmJobs(used) /\ CalmAnswers
  BY <1>1, StillJobs, StillAnswers
<1>6. QED
  BY <1>3, <1>4, <1>5, CalmKeeps

\* The head of a dispatch loop's queue is one of the packets.
LEMMA HeadCarried ==
  ASSUME TypeOK, NEW used \in SUBSET Message, Carried(used), NEW n \in Node, NEW s \in Socket,
         inbox[n][s] # <<>>, inbox' = Rest(n, s)
  PROVE  /\ Head(inbox[n][s]) \in Packet /\ PacketFits(n, s, Head(inbox[n][s]))
         /\ Call(used, Head(inbox[n][s]).id, Head(inbox[n][s]).of)
         /\ CalmPackets(used)
<1>1. /\ Head(inbox[n][s]) \in Packets(n, s)
      /\ \A k \in Node, t \in Socket : Packets(k, t)' \subseteq Packets(k, t)
  BY Takes
<1>2. CalmPackets(used)
  BY <1>1 DEF CalmPackets
<1>3. QED
  BY <1>1, <1>2, PacketsTyped DEF Carried

LEMMA TakeRequestStep ==
  ASSUME TypeOK, NEW used \in SUBSET Message, Numbered(used), Carried(used), Answered,
         NEW n \in Node, NEW s \in Socket, TakeRequest(n, s)
  PROVE  Numbered(used)' /\ Carried(used)' /\ Answered'
<1> DEFINE msg == Head(inbox[n][s])
<1>1. /\ inbox[n][s] # <<>> /\ msg.type = "REQ" /\ inbox' = Rest(n, s)
      /\ job' = [job EXCEPT ![n][s] = Serving(msg.id, msg.of, "posted")]
      /\ route' = route /\ number' = number /\ counter' = counter /\ waiters' = waiters
      /\ received' = received /\ mailbox' = mailbox /\ sent' = sent /\ caller' = caller
  BY DEF TakeRequest, Handles, database, calls, links, faults
<1>2. Calm(used) /\ CalmAnswers
  BY <1>1, CalmCalls, StillAnswers
<1>3. CalmPackets(used) /\ PacketFits(n, s, msg) /\ Call(used, msg.id, msg.of)
  BY <1>1, HeadCarried
<1>4. CalmJobs(used)
  <2>1. job \in [Node -> [Socket -> {Idle} \cup [do : Serves, id : Nat, of : Message]]]
    BY DEF TypeOK
  <2> HIDE DEF msg
  <2>2. \A k \in Node, t \in Socket :
          job'[k][t] = job[k][t]
            \/ (k = n /\ t = s /\ job'[k][t] = Serving(msg.id, msg.of, "posted"))
    BY <1>1, <2>1
  <2>3. JobFits(n, s, Serving(msg.id, msg.of, "posted"))
    BY <1>1, <1>3 DEF PacketFits, JobFits, Serving
  <2>4. /\ Serving(msg.id, msg.of, "posted").id = msg.id
        /\ Serving(msg.id, msg.of, "posted").of = msg.of
        /\ Serving(msg.id, msg.of, "posted").do = "posted"
    BY DEF Serving
  <2>5. QED
    BY <1>3, <2>2, <2>3, <2>4 DEF CalmJobs
<1>5. QED
  BY <1>2, <1>3, <1>4, CalmKeeps

\* The capability stores the message or refuses it, or dies with it.
LEMMA CapabilityStep ==
  ASSUME TypeOK, NEW used \in SUBSET Message, Numbered(used), Carried(used), Answered,
         NEW n \in Node,
         CapDies(n) \/ \E s \in Socket : Persist(n, s) \/ Refused(n, s)
  PROVE  Numbered(used)' /\ Carried(used)' /\ Answered'
<1> USE DEF database, calls, links, faults
<1>1. /\ route' = route /\ number' = number /\ counter' = counter /\ waiters' = waiters
      /\ inbox' = inbox /\ mailbox' = mailbox /\ sent' = sent
      /\ caller \in [Message -> Callers] /\ received \in [Node -> SUBSET Message]
      /\ job \in [Node -> [Socket -> {Idle} \cup [do : Serves, id : Nat, of : Message]]]
  BY DEF TypeOK, CapDies, Persist, Refused
<1>2. \A k \in Node : received[k] \subseteq received'[k]
  BY <1>1 DEF CapDies, Persist, Refused
<1>3. \A c \in Message : caller'[c] = caller[c] \/ caller'[c] = "lost"
  BY <1>1 DEF CapDies, Persist, Refused
<1>4. Calm(used) /\ CalmPackets(used) /\ CalmAnswers
  BY <1>1, <1>2, <1>3, CalmCalls, StillPackets, StillAnswers
<1>5. ASSUME NEW k \in Node, NEW t \in Socket, job'[k][t] # job[k][t]
      PROVE  /\ job[k][t].do \in Serves /\ job'[k][t].id = job[k][t].id
             /\ job'[k][t].of = job[k][t].of
             /\ job'[k][t].do = "stored" => job[k][t].of \in received'[k]
  <2>1. ASSUME NEW s \in Socket, Persist(n, s)
        PROVE  /\ k = n /\ t = s /\ job[k][t].do = "posted"
               /\ job'[k][t] = [job[k][t] EXCEPT !.do = "stored"]
               /\ received'[k] = received[k] \cup {job[k][t].of}
    BY <1>1, <1>5, <2>1 DEF Persist, Posted
  <2>2. ASSUME NEW s \in Socket, Refused(n, s)
        PROVE  /\ k = n /\ t = s /\ job[k][t].do \in {"posted", "stored"}
               /\ job'[k][t] = [job[k][t] EXCEPT !.do = "refused"]
    BY <1>1, <1>5, <2>2 DEF Refused
  <2>3. ASSUME CapDies(n)
        PROVE  /\ k = n /\ job[k][t].do \in {"posted", "stored"}
               /\ job'[k][t] = [job[k][t] EXCEPT !.do = "refused"]
    BY <1>1, <1>5, <2>3 DEF CapDies
  <2>4. job[k][t].do \in Serves => job[k][t] \in [do : Serves, id : Nat, of : Message]
    BY JobTyped
  <2>5. CASE \E s \in Socket : Persist(n, s)
    BY <2>1, <2>4, <2>5 DEF Serves
  <2>6. CASE CapDies(n) \/ \E s \in Socket : Refused(n, s)
    BY <2>2, <2>3, <2>4, <2>6 DEF Serves
  <2>7. QED
    BY <2>5, <2>6
<1>6. CalmJobs(used)
  <2>1. ASSUME NEW k \in Node, NEW t \in Socket, job'[k][t] # job[k][t]
        PROVE  /\ Call(used, job'[k][t].id, job'[k][t].of) /\ JobFits(k, t, job'[k][t])
               /\ job'[k][t].do = "stored" => job'[k][t].of \in received'[k]
    <3>1. job[k][t] # Idle
      BY <1>5, <2>1, JobTyped
    <3>2. Call(used, job[k][t].id, job[k][t].of) /\ JobFits(k, t, job[k][t])
      BY <3>1 DEF Carried
    <3>3. QED
      BY <1>5, <2>1, <3>2 DEF JobFits
  <2>2. QED
    BY <2>1 DEF CalmJobs
<1>7. QED
  BY <1>4, <1>6, CalmKeeps

\* The answer goes to the node the request came from.
LEMMA RespondStep ==
  ASSUME TypeOK, Linked, NEW used \in SUBSET Message, Numbered(used), Carried(used), Answered,
         NEW n \in Node, NEW s \in Socket, Respond(n, s)
  PROVE  Numbered(used)' /\ Carried(used)' /\ Answered'
<1> DEFINE j == job[n][s]
           m == Other(n, s)
           msg == RESP(j.id, j.of, j.do = "refused")
<1>1. /\ j.do \in {"stored", "refused"}
      /\ inbox' = IF sender[n][m] = NoSocket THEN inbox ELSE Queued(n, m, msg)
      /\ job' = [job EXCEPT ![n][s] = Idle]
      /\ route' = route /\ number' = number /\ counter' = counter /\ waiters' = waiters
      /\ received' = received /\ mailbox' = mailbox /\ sent' = sent /\ caller' = caller
  BY DEF Respond, database, calls, links, faults
<1>2. Calm(used) /\ CalmAnswers
  BY <1>1, CalmCalls, StillAnswers
<1>3. j # Idle /\ j \in [do : Serves, id : Nat, of : Message]
  BY <1>1, JobTyped DEF Serves
<1>4. /\ Call(used, j.id, j.of) /\ To(j.of) = n /\ Ends[s] = {From(j.of), n}
      /\ j.do = "stored" => j.of \in received[n]
  BY <1>3 DEF Carried, JobFits
<1>5. m = From(j.of) /\ m \in Node
  <2>1. j.of \in Message /\ From(j.of) \in Node /\ From(j.of) # n
    BY <1>3, <1>4 DEF Linked, TypeOK, From
  <2>2. QED
    BY <1>4, <2>1, OtherEnd
<1>6. /\ msg.type = "RESP" /\ msg.id = j.id /\ msg.of = j.of
      /\ msg.error <=> j.do = "refused"
      /\ msg \in Packet
  BY <1>3, MessagesTyped DEF RESP
<1> HIDE DEF msg, m, j
<1>7. CalmPackets(used)
  <2>1. CASE sender[n][m] = NoSocket
    BY <1>1, <2>1, StillPackets
  <2>2. CASE sender[n][m] # NoSocket
    <3>1. \A k \in Node, t \in Socket : \A p \in Packets(k, t)' :
            p \in Packets(k, t) \/ (k = m /\ t = sender[n][m] /\ p = msg)
      BY <1>1, <1>5, <1>6, <2>2, Queues
    <3>2. \A t : PacketFits(m, t, msg)
      BY <1>1, <1>4, <1>5, <1>6 DEF PacketFits
    <3>3. QED
      BY <1>4, <1>6, <3>1, <3>2 DEF CalmPackets
  <2>3. QED
    BY <2>1, <2>2
<1>8. CalmJobs(used)
  BY <1>1 DEF CalmJobs, TypeOK
<1>9. QED
  BY <1>2, <1>7, <1>8, CalmKeeps

\* The number of an answer names its call: no other call of the node has it.
LEMMA TakeResponseStep ==
  ASSUME TypeOK, NEW used \in SUBSET Message, Numbered(used), Carried(used), Answered,
         NEW n \in Node, NEW s \in Socket, TakeResponse(n, s)
  PROVE  Numbered(used)' /\ Carried(used)' /\ Answered'
<1> DEFINE msg == Head(inbox[n][s])
           due == {w \in waiters[n] : w.id = msg.id}
<1>1. /\ inbox[n][s] # <<>> /\ msg.type = "RESP" /\ inbox' = Rest(n, s)
      /\ waiters' = [waiters EXCEPT ![n] = waiters[n] \ due]
      /\ mailbox' = [c \in Message |->
           IF caller[c] \in {"registered", "waiting"} /\ \E w \in due : w.of = c
           THEN msg ELSE mailbox[c]]
      /\ route' = route /\ number' = number /\ counter' = counter
      /\ received' = received /\ job' = job /\ sent' = sent /\ caller' = caller
  BY DEF TakeResponse, Handles, database, links, faults
<1>2. \A k \in Node : waiters'[k] \subseteq waiters[k]
  BY <1>1 DEF TypeOK
<1>3. Calm(used) /\ CalmJobs(used)
  BY <1>1, <1>2, CalmCalls, StillJobs
<1>4. /\ CalmPackets(used) /\ PacketFits(n, s, msg) /\ Call(used, msg.id, msg.of)
      /\ msg \in Packet
  BY <1>1, HeadCarried
<1>5. From(msg.of) = n /\ (msg.error \/ msg.of \in received[To(msg.of)])
  BY <1>1, <1>4 DEF PacketFits
<1>6. \A w \in due : w.of = msg.of
  <2>1. \A w \in due : Call(used, msg.id, w.of) /\ From(w.of) = n
    BY DEF Numbered
  <2>2. QED
    BY <1>4, <1>5, <2>1 DEF Numbered, Call
<1>7. msg # NoAnswer
  BY <1>1 DEF NoAnswer
<1>8. CalmAnswers
  <2>1. \A c \in Message : mailbox'[c] = mailbox[c] \/ (mailbox'[c] = msg /\ msg.of = c)
    BY <1>1, <1>6
  <2> HIDE DEF msg
  <2>2. QED
    BY <1>1, <1>5, <1>7, <2>1 DEF CalmAnswers
<1>9. QED
  BY <1>3, <1>4, <1>8, CalmKeeps

LEMMA BreakStep ==
  ASSUME TypeOK, NEW used \in SUBSET Message, Numbered(used), Carried(used), Answered,
         NEW s \in Socket, Break(s)
  PROVE  Numbered(used)' /\ Carried(used)' /\ Answered'
<1>1. /\ route' = route /\ number' = number /\ counter' = counter /\ waiters' = waiters
      /\ received' = received /\ job' = job /\ mailbox' = mailbox /\ sent' = sent
      /\ caller' = caller
  BY DEF Break, database, calls
<1>2. Calm(used) /\ CalmJobs(used) /\ CalmAnswers
  BY <1>1, CalmCalls, StillJobs, StillAnswers
<1>3. CalmPackets(used)
  BY BreakCuts DEF CalmPackets
<1>4. QED
  BY <1>2, <1>3, CalmKeeps

LEMMA DeliveryInit == Init => Delivery
<1> SUFFICES ASSUME Init PROVE Delivery
  OBVIOUS
<1>1. Numbered({})
  BY DEF Init, Numbered
<1>2. Carried({})
  <2>1. \A n \in Node, s \in Socket : Packets(n, s) = {} /\ job[n][s] = Idle
    BY DEF Init, Packets
  <2>2. QED
    BY <2>1 DEF Carried
<1>3. Answered
  BY DEF Init, Answered
<1>4. QED
  BY <1>1, <1>2, <1>3 DEF Delivery

LEMMA DeliveryStep ==
  ASSUME TypeOK, Linked, Delivery, [Next]_vars
  PROVE  Delivery'
<1> SUFFICES ASSUME restarts' = 0
             PROVE  (\E used \in SUBSET Message : Numbered(used)' /\ Carried(used)') /\ Answered'
  BY DEF Delivery
<1>1. ~(\E n \in Node : DaemonRestarts(n)) /\ restarts = 0
  <2>1. restarts \in Nat
    BY DEF TypeOK
  <2>2. \A n \in Node : DaemonRestarts(n) => restarts' = restarts + 1
    BY DEF DaemonRestarts
  <2>3. QED
    BY <2>1, <2>2, Untouched
<1>2. PICK used \in SUBSET Message : Numbered(used) /\ Carried(used)
  BY <1>1 DEF Delivery
<1>3. Answered
  BY <1>1 DEF Delivery
<1>4. ASSUME NEW c \in Message, Register(c)
      PROVE  (\E more \in SUBSET Message : Numbered(more)' /\ Carried(more)') /\ Answered'
  BY <1>2, <1>3, <1>4, RegisterStep
<1>5. CASE ~(\E c \in Message : Register(c))
  <2>1. Numbered(used)' /\ Carried(used)' /\ Answered'
    BY <1>1, <1>2, <1>3, <1>5, QuietStep, RequestStep, TakeRequestStep, CapabilityStep,
       RespondStep, TakeResponseStep, BreakStep DEF Next, CallStep, LoopStep
  <2>2. QED
    BY <2>1
<1>6. QED
  BY <1>4, <1>5

\* What the sender shows as delivered, the receiver has stored, unless it answered
\* with an error or a daemon has been restarted (send_message, handle_rpc,
\* RpcHandler::on_message).
THEOREM DeliveredStaysStored == Spec => []DeliveredIsStored
<1> DEFINE Inv == TypeOK /\ Bounded /\ Linked /\ Delivery
<1>1. Init => Inv
  BY TypeInit, BoundedInit, LinkedInit, DeliveryInit
<1>2. Inv /\ [Next]_vars => Inv'
  BY TypeStep, LinkedStep, DeliveryStep
<1>3. Inv => DeliveredIsStored
  BY DEF Delivery, Answered, DeliveredIsStored
<1>4. QED
  BY <1>1, <1>2, <1>3, PTL DEF Spec

--------------------------------------------------------------------------------
(* Paging.                                                                     *)

LEMMA TimedInit == Init => Timed
<1> SUFFICES ASSUME Init PROVE Timed
  OBVIOUS
<1>1. \A n \in Node, s \in Socket : Packets(n, s) = {} /\ job[n][s] = Idle
  BY DEF Init, Packets
<1>2. QED
  BY <1>1 DEF Init, Timed, Open

LEMMA TimesOnlyStart ==
  ASSUME TypeOK, Bounded, [Next]_vars, NEW c \in Message, sentAt[c] > 0
  PROVE  sentAt'[c] > 0
<1>1. ASSUME NEW d \in Message, Send(d) PROVE sentAt'[c] > 0
  <2>1. PICK t \in Nat : t > 0 /\ sentAt' = [sentAt EXCEPT ![d] = t]
    BY <1>1, SendsAt
  <2>2. QED
    BY <2>1 DEF TypeOK
<1>2. QED
  BY <1>1, Untouched

\* What is new in a step is about a message that had a time.
TimedRows ==
  /\ \A c \in Message :
       caller'[c] \in Open \/ sent'[c] # "none"
         => caller[c] \in Open \/ sent[c] # "none" \/ sentAt'[c] > 0
  /\ \A n \in Node : \A c \in received'[n] : c \in received[n] \/ sentAt[c] > 0

TimedPackets ==
  \A n \in Node, s \in Socket : \A p \in Packets(n, s)' :
    p \in Packets(n, s) \/ sentAt[p.of] > 0

TimedJobs ==
  \A n \in Node, s \in Socket :
    job'[n][s] = job[n][s] \/ job'[n][s] = Idle \/ sentAt[job'[n][s].of] > 0

LEMMA TimedKeeps ==
  ASSUME TypeOK, TypeOK', Bounded, Timed, [Next]_vars, TimedRows, TimedPackets, TimedJobs
  PROVE  Timed'
<1>1. \A c \in Message : sentAt[c] > 0 => sentAt'[c] > 0
  BY TimesOnlyStart
<1>2. \A c \in Message : caller'[c] \in Open \/ sent'[c] # "none" => sentAt'[c] > 0
  BY <1>1 DEF TimedRows, Timed
<1>3. ASSUME NEW n \in Node, NEW c \in received'[n] PROVE sentAt'[c] > 0
  <2>1. c \in Message
    BY DEF TypeOK
  <2>2. QED
    BY <1>1, <2>1 DEF TimedRows, Timed
<1>4. ASSUME NEW n \in Node, NEW s \in Socket, NEW p \in Packets(n, s)' PROVE sentAt'[p.of] > 0
  <2>1. Packets(n, s)' \subseteq Packet
    <3>1. inbox'[n][s] \in Seq(Packet)
      BY DEF TypeOK
    <3>2. QED
      BY <3>1, SeqRange DEF Packets
  <2>2. p.of \in Message
    BY <2>1 DEF Packet, Answer
  <2>3. QED
    BY <1>1, <2>2 DEF TimedPackets, Timed
<1>5. ASSUME NEW n \in Node, NEW s \in Socket, job'[n][s] # Idle
      PROVE  sentAt'[job'[n][s].of] > 0
  <2>1. job'[n][s].of \in Message
    BY <1>5 DEF TypeOK
  <2>2. QED
    BY <1>1, <1>5, <2>1 DEF TimedJobs, Timed
<1>6. QED
  BY <1>2, <1>3, <1>4, <1>5 DEF Timed

\* The calls and the rows, whatever the step.
LEMMA RowsTimed ==
  ASSUME TypeOK, Bounded, Timed, [Next]_vars
  PROVE  TimedRows
<1> USE DEF database, calls, links, faults
<1>1. /\ caller \in [Message -> Callers] /\ sent \in [Message -> Statuses]
      /\ received \in [Node -> SUBSET Message]
  BY DEF TypeOK
<1>2. ASSUME NEW d \in Message, Send(d) PROVE TimedRows
  <2>1. sentAt'[d] > 0
    <3>1. PICK t \in Nat : t > 0 /\ sentAt' = [sentAt EXCEPT ![d] = t]
      BY <1>2, SendsAt
    <3>2. QED
      BY <3>1 DEF TypeOK
  <2>2. /\ \A c \in Message : c # d => caller'[c] = caller[c] /\ sent'[c] = sent[c]
        /\ received' = received
    BY <1>1, <1>2 DEF Send
  <2>3. QED
    BY <2>1, <2>2 DEF TimedRows
<1>3. ASSUME NEW d \in Message,
             Unlisted(d) \/ Delete(d) \/ Timeout(d) \/ Register(d) \/ Request(d) \/ Unsent(d)
               \/ Collect(d)
      PROVE  TimedRows
  <2>1. /\ received' = received
        /\ \A c \in Message : c # d => caller'[c] = caller[c] /\ sent'[c] = sent[c]
    BY <1>1, <1>3 DEF Unlisted, Delete, Timeout, Register, Request, Unsent, Collect
  <2>2. caller'[d] \in Open \/ sent'[d] # "none" => caller[d] \in Open \/ sent[d] # "none"
    BY <1>1, <1>3 DEF Unlisted, Delete, Timeout, Register, Request, Unsent, Collect, Open
  <2>3. QED
    BY <2>1, <2>2 DEF TimedRows
<1>4. ASSUME NEW n \in Node, NEW s \in Socket, Persist(n, s) PROVE TimedRows
  <2>1. /\ caller' = caller /\ sent' = sent
        /\ received' = [received EXCEPT ![n] = received[n] \cup {job[n][s].of}]
    BY <1>4 DEF Persist
  <2>2. sentAt[job[n][s].of] > 0
    BY <1>4, JobTyped DEF Persist, Posted, Serves, Timed
  <2>3. QED
    BY <1>1, <2>1, <2>2 DEF TimedRows
<1>5. ASSUME NEW n \in Node, CapDies(n) \/ DaemonRestarts(n) PROVE TimedRows
  <2>1. /\ received' = received
        /\ \A c \in Message : caller'[c] = caller[c] \/ caller'[c] \in {"done", "lost"}
    BY <1>1, <1>5 DEF CapDies, DaemonRestarts
  <2>2. \A c \in Message : sent'[c] = sent[c] \/ caller[c] \in Open
    BY <1>1, <1>5 DEF CapDies, DaemonRestarts, Open
  <2>3. QED
    BY <2>1, <2>2 DEF TimedRows, Open
<1>6. CASE caller' = caller /\ sent' = sent /\ received' = received
  BY <1>6 DEF TimedRows
<1>7. QED
  BY <1>2, <1>3, <1>4, <1>5, <1>6
     DEF Next, CallStep, LoopStep, Join, TakeRequest, Refused, Respond, TakeResponse, Break,
         Leave, CapStarts, vars

\* What is sent in a step is about a call that is open or served.
LEMMA PacketsTimed ==
  ASSUME TypeOK, Timed, [Next]_vars
  PROVE  TimedPackets
<1> USE DEF database, calls, links, faults
<1>1. ASSUME \A n \in Node, s \in Socket : Packets(n, s)' \subseteq Packets(n, s)
      PROVE  TimedPackets
  BY <1>1 DEF TimedPackets
<1>2. ASSUME inbox' = inbox PROVE TimedPackets
  BY <1>1, <1>2 DEF Packets
<1>3. ASSUME NEW n \in Node, NEW m \in Node, NEW msg \in Packet, sentAt[msg.of] > 0,
             sender[n][m] # NoSocket, inbox' = Queued(n, m, msg)
      PROVE  TimedPackets
  BY <1>3, Queues DEF TimedPackets
<1>4. ASSUME NEW c \in Message, Request(c) PROVE TimedPackets
  <2>1. /\ From(c) \in Node /\ To(c) \in Node /\ number[c] \in Nat
        /\ sender[From(c)][To(c)] # NoSocket /\ caller[c] = "registered"
        /\ inbox' = Queued(From(c), To(c), REQ(number[c], c))
    BY <1>4 DEF TypeOK, From, To, Request
  <2>2. REQ(number[c], c) \in Packet /\ REQ(number[c], c).of = c
    BY <2>1, MessagesTyped DEF REQ
  <2>3. sentAt[c] > 0
    BY <2>1 DEF Timed, Open
  <2>4. QED
    BY <1>3, <2>1, <2>2, <2>3
<1>5. ASSUME NEW n \in Node, NEW s \in Socket, Respond(n, s) PROVE TimedPackets
  <2> DEFINE j == job[n][s]
             msg == RESP(j.id, j.of, j.do = "refused")
  <2>1. j # Idle /\ j \in [do : Serves, id : Nat, of : Message]
    BY <1>5, JobTyped DEF Respond, Serves
  <2>2. msg \in Packet /\ msg.of = j.of
    BY <2>1, MessagesTyped DEF RESP
  <2>3. sentAt[j.of] > 0
    BY <2>1 DEF Timed
  <2>4. Other(n, s) \in Node
    BY TopologyAssumption DEF Other
  <2>5. \/ inbox' = inbox
        \/ sender[n][Other(n, s)] # NoSocket /\ inbox' = Queued(n, Other(n, s), msg)
    BY <1>5 DEF Respond
  <2> HIDE DEF msg, j
  <2>6. QED
    BY <1>2, <1>3, <2>2, <2>3, <2>4, <2>5
<1>6. ASSUME NEW n \in Node, NEW s \in Socket, TakeRequest(n, s) \/ TakeResponse(n, s)
      PROVE  TimedPackets
  BY <1>1, <1>6, Takes DEF TakeRequest, TakeResponse, Handles
<1>7. ASSUME NEW s \in Socket, Break(s) PROVE TimedPackets
  BY <1>1, <1>7, BreakCuts
<1>8. ASSUME NEW n \in Node, DaemonRestarts(n) PROVE TimedPackets
  <2>1. inbox' = [inbox EXCEPT ![n] = [s \in Socket |-> IF s \in joined[n] THEN <<>>
                                                       ELSE inbox[n][s]]]
    BY <1>8 DEF DaemonRestarts
  <2>2. \A k \in Node, s \in Socket : inbox'[k][s] = inbox[k][s] \/ inbox'[k][s] = <<>>
    BY <2>1 DEF TypeOK
  <2>3. QED
    BY <1>1, <2>2 DEF Packets
<1>9. QED
  BY <1>2, <1>4, <1>5, <1>6, <1>7, <1>8
     DEF Next, CallStep, LoopStep, Send, Unlisted, Delete, Timeout, Register, Unsent, Collect,
         Join, Persist, Refused, Leave, CapDies, CapStarts, vars

LEMMA JobsTimed ==
  ASSUME TypeOK, Timed, [Next]_vars
  PROVE  TimedJobs
<1> USE DEF database, calls, links, faults
<1>1. job \in [Node -> [Socket -> {Idle} \cup [do : Serves, id : Nat, of : Message]]]
  BY DEF TypeOK
<1>2. ASSUME NEW n \in Node, NEW s \in Socket, TakeRequest(n, s) PROVE TimedJobs
  <2> DEFINE msg == Head(inbox[n][s])
  <2>1. /\ inbox[n][s] # <<>> /\ inbox' = Rest(n, s)
        /\ job' = [job EXCEPT ![n][s] = Serving(msg.id, msg.of, "posted")]
    BY <1>2 DEF TakeRequest, Handles
  <2>2. sentAt[msg.of] > 0
    BY <2>1, Takes DEF Timed
  <2>3. Serving(msg.id, msg.of, "posted").of = msg.of
    BY DEF Serving
  <2> HIDE DEF msg
  <2>4. QED
    BY <1>1, <2>1, <2>2, <2>3 DEF TimedJobs
<1>3. ASSUME NEW n \in Node, NEW s \in Socket, NEW d \in Serves, job[n][s].do \in Serves,
             job' = [job EXCEPT ![n][s].do = d]
      PROVE  TimedJobs
  <2>1. job[n][s] # Idle /\ job[n][s] \in [do : Serves, id : Nat, of : Message]
    BY <1>3, JobTyped
  <2>2. [job[n][s] EXCEPT !.do = d].of = job[n][s].of /\ sentAt[job[n][s].of] > 0
    BY <2>1 DEF Timed
  <2>3. \A k \in Node, t \in Socket :
          job'[k][t] = job[k][t] \/ job'[k][t] = [job[n][s] EXCEPT !.do = d]
    BY <1>1, <1>3
  <2>4. QED
    BY <2>2, <2>3 DEF TimedJobs
<1>4. ASSUME NEW n \in Node, NEW s \in Socket, Persist(n, s) \/ Refused(n, s) PROVE TimedJobs
  BY <1>3, <1>4 DEF Persist, Refused, Posted, Serves
<1>5. ASSUME NEW n \in Node, NEW s \in Socket, Respond(n, s) PROVE TimedJobs
  BY <1>1, <1>5 DEF Respond, TimedJobs
<1>6. ASSUME NEW n \in Node, CapDies(n) PROVE TimedJobs
  <2>1. job' = [job EXCEPT ![n] = [s \in Socket |->
                  IF job[n][s].do \in {"posted", "stored"}
                  THEN [job[n][s] EXCEPT !.do = "refused"] ELSE job[n][s]]]
    BY <1>6 DEF CapDies
  <2>2. ASSUME NEW s \in Socket, job[n][s].do \in {"posted", "stored"}
        PROVE  sentAt[[job[n][s] EXCEPT !.do = "refused"].of] > 0
    <3>1. job[n][s] # Idle /\ job[n][s] \in [do : Serves, id : Nat, of : Message]
      BY <2>2, JobTyped DEF Serves
    <3>2. [job[n][s] EXCEPT !.do = "refused"].of = job[n][s].of
      BY <3>1
    <3>3. QED
      BY <3>1, <3>2 DEF Timed
  <2>3. QED
    BY <1>1, <2>1, <2>2 DEF TimedJobs
<1>7. ASSUME NEW n \in Node, DaemonRestarts(n) PROVE TimedJobs
  BY <1>1, <1>7 DEF DaemonRestarts, TimedJobs
<1>8. CASE job' = job
  BY <1>8 DEF TimedJobs
<1>9. QED
  BY <1>2, <1>4, <1>5, <1>6, <1>7, <1>8
     DEF Next, CallStep, LoopStep, Send, Unlisted, Delete, Timeout, Register, Request, Unsent,
         Collect, Join, TakeResponse, Break, Leave, CapStarts, vars

\* A page of one row holds a first one after the cursor.
LEMMA PageOfOne ==
  ASSUME TypeOK, NEW rows \in SUBSET Message, NEW cursor \in Nat,
         NEW p \in Page(rows, cursor, 1), NEW c \in rows, sentAt[c] > cursor
  PROVE  \E f \in rows : /\ p = {f} /\ Last(p) = sentAt[f]
                         /\ \A d \in rows : sentAt[d] > cursor => sentAt[f] <= sentAt[d]
<1> DEFINE later == {d \in rows : sentAt[d] > cursor}
<1>1. IsFiniteSet(later)
  BY FS_Subset, MessageAssumption
<1>2. Cardinality(later) \in Nat /\ Cardinality(later) # 0
  BY <1>1, FS_CardinalityType, FS_EmptySet
<1>3. /\ p \subseteq later /\ Cardinality(p) = 1
      /\ \A f \in p, d \in later \ p : sentAt[f] <= sentAt[d]
  BY <1>2 DEF Page
<1>4. PICK f : p = {f}
  BY <1>1, <1>3, FS_Subset, FS_Singleton
<1>5. f \in rows /\ sentAt[f] \in Nat
  BY <1>3, <1>4 DEF TypeOK
<1>6. Last(p) = sentAt[f]
  BY <1>4, <1>5 DEF Last
<1>7. \A d \in later : sentAt[f] <= sentAt[d]
  BY <1>3, <1>4, <1>5
<1>8. QED
  BY <1>4, <1>5, <1>6, <1>7

LEMMA TimedPages ==
  ASSUME TypeOK, Timed
  PROVE  PagesLeaveNoGap
<1> SUFFICES ASSUME NEW n \in Node, NEW m \in Node,
                    NEW first \in Page(Conversation(n, m), 0, 1), first # {},
                    NEW second \in Page(Conversation(n, m), Last(first), 1),
                    NEW c \in Conversation(n, m) \ first, sentAt[c] # Last(first)
             PROVE  second # {} /\ sentAt[c] >= Last(second)
  BY DEF PagesLeaveNoGap
<1> DEFINE rows == Conversation(n, m)
<1>1. rows \in SUBSET Message /\ \A d \in rows : sentAt[d] \in Nat /\ sentAt[d] > 0
  BY DEF Conversation, Timed, TypeOK
<1> HIDE DEF rows
<1>2. c \in rows /\ first \in Page(rows, 0, 1) /\ second \in Page(rows, Last(first), 1)
  BY DEF rows
<1>3. PICK f \in rows : /\ Last(first) = sentAt[f]
                       /\ \A d \in rows : sentAt[d] > 0 => sentAt[f] <= sentAt[d]
  BY <1>1, <1>2, PageOfOne
<1>4. Last(first) \in Nat /\ sentAt[c] > Last(first)
  BY <1>1, <1>2, <1>3
<1>5. PICK g \in rows : /\ second = {g} /\ Last(second) = sentAt[g]
                       /\ \A d \in rows : sentAt[d] > Last(first) => sentAt[g] <= sentAt[d]
  BY <1>1, <1>2, <1>4, PageOfOne
<1>6. QED
  BY <1>1, <1>2, <1>4, <1>5

\* Paging with the cursor of the page before leaves out only rows that have the
\* sent_at of the last row of a page (get_conversation).
THEOREM NoGapStays == Spec => []PagesLeaveNoGap
<1> DEFINE Inv == TypeOK /\ Bounded /\ Timed
<1>1. Init => Inv
  BY TypeInit, BoundedInit, TimedInit
<1>2. Inv /\ [Next]_vars => Inv'
  BY TypeStep, RowsTimed, PacketsTimed, JobsTimed, TimedKeeps
<1>3. Inv => PagesLeaveNoGap
  BY TimedPages
<1>4. QED
  BY <1>1, <1>2, <1>3, PTL DEF Spec
================================================================================
