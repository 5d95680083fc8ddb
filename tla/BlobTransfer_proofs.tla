-------------------------- MODULE BlobTransfer_proofs --------------------------
(* For any nodes, blobs, requests and links: the types of the transfer tables,  *)
(* what a node's store holds under a hash, that clean requests are undisturbed, *)
(* and that the transfers implement BlobPromise.  The argument is that          *)
(* messages, jobs and transfers between two nodes are about what one has asked  *)
(* the other, so that a node whose own requests are apart has one writer for a  *)
(* blob.                                                                        *)
EXTENDS BlobTransfer, SequenceTheorems, TLAPS

\* n has asked m for h under id, or for something under id.
Asked(n, m, id, h) ==
  \E r \in asked : request[r].by = n /\ request[r].from = m
                   /\ request[r].id = id /\ request[r].hash = h
AskedId(n, m, id) == \E h \in Hash : Asked(n, m, id, h)

\* What m may have sent n.
Fits(n, m, x) ==
  /\ x.type = "REQ" => Asked(m, n, x.id, x.hash)
  /\ x.type = "OFFER" => Asked(n, m, x.id, x.hash)
  /\ x.type = "CHUNK" => AskedId(n, m, x.id)
  /\ x.type = "ACK" /\ x.status = "RETRANSMIT" => AskedId(m, n, x.id)

Allowed(n, m) == {x \in Messages : Fits(n, m, x)}

\* What n may do for m; a blob it writes is the one it asked for, if its requests
\* are apart.
JobFits(n, m, j) ==
  /\ j.do = "stream" => AskedId(m, n, j.id)
  /\ j.do \in FileSteps \cup {"remove"} => AskedId(n, m, j.id)
  /\ j.do \in FileSteps /\ Apart(n) => Asked(n, m, j.id, j.hash)

Tables ==
  /\ request \in [Req -> [by : Node, from : Node, id : Id, hash : Hash]]
  /\ asked \in SUBSET Req
  /\ callback \in [Node -> [Id -> Req \cup {NoReq}]]
  /\ told \in [Req -> SUBSET Events]
  /\ events \in [Node -> Seq(Events)]
  /\ outbound \in [Node -> [Id -> Outbounds \cup {NoTransfer}]]
  /\ tmp \in [Node -> [Hash -> FileStates]]
  /\ blob \in [Node -> [Hash -> FileStates]]
  /\ down \in SUBSET Fragile
  /\ left \in [Node -> SUBSET Node]

InOK ==
  /\ inbound \in [Node -> [Id -> Inbounds \cup {NoTransfer}]]
  /\ \A n \in Node, id \in Id : inbound[n][id] # NoTransfer =>
       Asked(n, inbound[n][id].peer, id, inbound[n][id].hash)

JobOK ==
  /\ job \in [Node -> [Node -> Jobs]]
  /\ \A n, m \in Node : JobFits(n, m, job[n][m])

Wires == {w \in [Node -> [Node -> Seq(Messages)]] :
            \A n, m \in Node : w[n][m] \in Seq(Allowed(n, m))}

Inv == Tables /\ InOK /\ JobOK /\ wire \in Wires

--------------------------------------------------------------------------------
(* Wires.                                                                      *)

\* What one may send does not change.
LEMMA Same ==
  ASSUME request' = request, asked' = asked
  PROVE  /\ \A n, m : Allowed(n, m)' = Allowed(n, m)
         /\ \A n, m, j : JobFits(n, m, j)' <=> JobFits(n, m, j)
         /\ \A n, m, id, h : Asked(n, m, id, h)' <=> Asked(n, m, id, h)
         /\ Wires' = Wires
BY DEF Allowed, Fits, JobFits, AskedId, Asked, Apart, Wires

\* A request that is made takes nothing away.
LEMMA MayMore ==
  ASSUME request' = request, asked \subseteq asked'
  PROVE  /\ \A n, m : Allowed(n, m) \subseteq Allowed(n, m)'
         /\ \A n, m, j : JobFits(n, m, j) => JobFits(n, m, j)'
         /\ \A n, m, id, h : Asked(n, m, id, h) => Asked(n, m, id, h)'
         /\ Wires \subseteq Wires'
<1>1. \A n, m, id, h : Asked(n, m, id, h) => Asked(n, m, id, h)'
  BY DEF Asked
<1>2. \A n, m, id : AskedId(n, m, id) => AskedId(n, m, id)'
  BY <1>1 DEF AskedId
<1>3. \A n, m : Allowed(n, m) \subseteq Allowed(n, m)'
  BY <1>1, <1>2 DEF Allowed, Fits
<1>4. \A n, m, j : JobFits(n, m, j) => JobFits(n, m, j)'
  BY <1>1, <1>2 DEF JobFits, Apart
<1>5. Wires \subseteq Wires'
  BY <1>3, SeqMonotonic DEF Wires
<1>6. QED
  BY <1>1, <1>3, <1>4, <1>5

LEMMA SentKeeps ==
  ASSUME NEW w \in Wires, NEW n \in Node, NEW m \in Node, NEW ms \in Seq(Allowed(m, n))
  PROVE  Sent(w, n, m, ms) \in Wires
<1>1. w[m][n] \in Seq(Allowed(m, n)) /\ w \in [Node -> [Node -> Seq(Messages)]]
  BY DEF Wires
<1>2. w[m][n] \o ms \in Seq(Allowed(m, n))
  BY <1>1, ConcatProperties
<1>3. w[m][n] \o ms \in Seq(Messages)
  BY <1>2, SeqMonotonic DEF Allowed
<1>4. [w EXCEPT ![m][n] = @ \o ms] \in Wires
  BY <1>1, <1>2, <1>3 DEF Wires
<1>5. QED
  BY <1>4 DEF Sent

LEMMA SentMore ==
  ASSUME NEW w \in Wires', NEW n \in Node, NEW m \in Node, NEW ms \in Seq(Allowed(m, n)')
  PROVE  Sent(w, n, m, ms) \in Wires'
<1>1. w[m][n] \in Seq(Allowed(m, n)') /\ w \in [Node -> [Node -> Seq(Messages)]]
  BY DEF Wires
<1>2. w[m][n] \o ms \in Seq(Allowed(m, n)')
  BY <1>1, ConcatProperties
<1>3. w[m][n] \o ms \in Seq(Messages)
  BY <1>2, SeqMonotonic DEF Allowed
<1>4. [w EXCEPT ![m][n] = @ \o ms] \in Wires'
  BY <1>1, <1>2, <1>3 DEF Wires
<1>5. QED
  BY <1>4 DEF Sent

\* The next message is one that may be there, and the rest is left.
LEMMA HeadKeeps ==
  ASSUME wire \in Wires, NEW n \in Node, NEW m \in Node, wire[n][m] # <<>>
  PROVE  /\ Msg(n, m) \in Messages /\ Fits(n, m, Msg(n, m))
         /\ [wire EXCEPT ![n][m] = Tail(@)] \in Wires
<1>1. wire[n][m] \in Seq(Allowed(n, m)) /\ wire \in [Node -> [Node -> Seq(Messages)]]
  BY DEF Wires
<1>2. Head(wire[n][m]) \in Allowed(n, m) /\ Tail(wire[n][m]) \in Seq(Allowed(n, m))
  BY <1>1
<1>3. Tail(wire[n][m]) \in Seq(Messages)
  BY <1>2, SeqMonotonic DEF Allowed
<1>4. [wire EXCEPT ![n][m] = Tail(@)] \in Wires
  BY <1>1, <1>2, <1>3 DEF Wires
<1>5. QED
  BY <1>2, <1>4 DEF Msg, Allowed

LEMMA AnswersKeep ==
  ASSUME wire \in Wires, NEW n \in Node, NEW m \in Node, wire[n][m] # <<>>,
         NEW ms \in Seq(Allowed(m, n)), Answers(n, m, ms)
  PROVE  wire' \in Wires
BY HeadKeeps, SentKeeps DEF Answers

LEMMA DoesKeeps ==
  ASSUME JobOK, request' = request, asked' = asked,
         NEW n \in Node, NEW m \in Node, NEW j \in Jobs,
         JobFits(n, m, j), Does(n, m, j)
  PROVE  JobOK'
BY Same DEF JobOK, Does

\* What a job or a table entry can be, taken apart.
LEMMA JobKinds ==
  ASSUME JobOK, NEW n \in Node, NEW m \in Node
  PROVE  LET j == job[n][m] IN
         /\ j.do = "stream" =>
              /\ j \in [do : {"stream"}, id : Id, hash : Hash, next : Nat, last : Nat]
              /\ AskedId(m, n, j.id)
         /\ j.do \in FileSteps =>
              /\ j \in [do : FileSteps, id : Id, hash : Hash, count : Nat, ok : BOOLEAN,
                        file : {"tmp", "blob", "gone"}]
              /\ AskedId(n, m, j.id)
              /\ Apart(n) => Asked(n, m, j.id, j.hash)
         /\ j.do = "remove" => j \in [do : {"remove"}, id : Id] /\ AskedId(n, m, j.id)
BY DEF JobOK, JobFits, Jobs, Idle, FileSteps

\* Linking files anew leaves what the loops are about.
LEMMA RelinkKeeps ==
  ASSUME JobOK, NEW n \in Node, NEW h \in Hash, NEW to \in {Renamed, Unlinked, Erased}
  PROVE  /\ Relinked(n, h, to) \in [Node -> Jobs]
         /\ \A m \in Node : JobFits(n, m, Relinked(n, h, to)[m])
<1> SUFFICES ASSUME NEW m \in Node
             PROVE  Relinked(n, h, to)[m] \in Jobs /\ JobFits(n, m, Relinked(n, h, to)[m])
  BY DEF Relinked
<1>1. CASE job[n][m].do \in FileSteps /\ job[n][m].hash = h
  <2> DEFINE j == job[n][m]
             k == [j EXCEPT !.file = to[@]]
  <2>1. Relinked(n, h, to)[m] = k
    BY <1>1 DEF Relinked
  <2>2. j \in [do : FileSteps, id : Id, hash : Hash, count : Nat, ok : BOOLEAN,
               file : {"tmp", "blob", "gone"}]
    BY <1>1, JobKinds
  <2>3. to[j.file] \in {"tmp", "blob", "gone"}
    BY <2>2 DEF Renamed, Unlinked, Erased
  <2>4. k \in [do : FileSteps, id : Id, hash : Hash, count : Nat, ok : BOOLEAN,
               file : {"tmp", "blob", "gone"}]
        /\ k.do = j.do /\ k.id = j.id /\ k.hash = j.hash
    BY <2>2, <2>3
  <2>5. QED
    BY <1>1, <2>1, <2>4, JobKinds DEF Jobs, JobFits, FileSteps
<1>2. CASE ~(job[n][m].do \in FileSteps /\ job[n][m].hash = h)
  BY <1>2 DEF Relinked, JobOK
<1>3. QED
  BY <1>1, <1>2

\* The bridge.
LEMMA AskKeeps ==
  ASSUME Inv, NEW r \in Req, Ask(r)
  PROVE  Inv'
<1> DEFINE q == request[r]
<1>1. q \in [by : Node, from : Node, id : Id, hash : Hash]
  BY DEF Inv, Tables
<1>2. Tables'
  BY <1>1 DEF Inv, Tables, Ask, transfers, store, links
<1>3. request' = request /\ asked \subseteq asked' /\ r \in asked'
  BY DEF Ask
<1>4. InOK' /\ JobOK'
  BY <1>3, MayMore DEF Inv, InOK, JobOK, Ask, transfers
<1>5. wire \in Wires' /\ wire' = Sent(wire, q.by, q.from, <<REQ(q.id, q.hash)>>)
  BY <1>3, MayMore DEF Inv, Ask, Sends
<1>6. <<REQ(q.id, q.hash)>> \in Seq(Allowed(q.from, q.by)')
  <2>1. Asked(q.by, q.from, q.id, q.hash)'
    BY <1>3 DEF Asked
  <2>2. REQ(q.id, q.hash) \in Allowed(q.from, q.by)'
    BY <1>1, <1>3, <2>1 DEF REQ, Allowed, Fits, Messages
  <2>3. QED
    BY <2>2
<1>7. wire' \in Wires'
  BY <1>1, <1>3, <1>5, <1>6, SentMore
<1>8. QED
  BY <1>2, <1>4, <1>7 DEF Inv

LEMMA WatchKeeps ==
  ASSUME Inv, NEW n \in Node, Watch(n)
  PROVE  Inv'
<1>1. Head(events[n]) \in Events /\ Tail(events[n]) \in Seq(Events)
  BY DEF Inv, Tables, Watch
<1>2. told' \in [Req -> SUBSET Events] /\ callback' \in [Node -> [Id -> Req \cup {NoReq}]]
  BY <1>1 DEF Inv, Tables, Watch, Events
<1>3. Tables'
  BY <1>1, <1>2 DEF Inv, Tables, Watch, transfers, store, links
<1>4. QED
  BY <1>3, Same DEF Inv, InOK, JobOK, Watch, transfers, bridge

LEMMA DeleteKeeps ==
  ASSUME Inv, NEW n \in Node, NEW h \in Hash, Delete(n, h)
  PROVE  Inv'
<1>1. Tables'
  BY DEF Inv, Tables, Delete, bridge, transfers, links, FileStates
<1>2. JobOK'
  BY RelinkKeeps, Same DEF Inv, JobOK, Delete, bridge
<1>3. QED
  BY <1>1, <1>2, Same DEF Inv, InOK, Delete, transfers, bridge

--------------------------------------------------------------------------------
(* The provider.                                                               *)

LEMMA EmitsKeeps ==
  ASSUME events \in [Node -> Seq(Events)], NEW n \in Node, NEW id \in Id, NEW h \in Hash,
         NEW s \in {"Complete", "Failed"}, Emits(n, Event(id, h, s))
  PROVE  events' \in [Node -> Seq(Events)]
<1>1. Event(id, h, s) \in Events
  BY DEF Event, Events
<1>2. Append(events[n], Event(id, h, s)) \in Seq(Events)
  BY <1>1, AppendProperties
<1>3. QED
  BY <1>2 DEF Emits

LEMMA NotFoundKeeps ==
  ASSUME Inv, NEW n \in Node, NEW m \in Node, NotFound(n, m)
  PROVE  Inv'
<1> DEFINE q == Msg(n, m)
<1>1. /\ wire[n][m] # <<>> /\ q \in Messages /\ Fits(n, m, q)
      /\ q.type = "REQ"
  BY HeadKeeps DEF Inv, NotFound, Handles, Msg
<1>2. q.id \in Id /\ q.hash \in Hash
  BY <1>1 DEF Messages
<1>3. <<ACK(q.id, "NOT_FOUND", 0)>> \in Seq(Allowed(m, n))
  BY <1>2 DEF ACK, Allowed, Fits, Messages, Statuses
<1>4. wire' \in Wires
  BY <1>1, <1>3, AnswersKeep DEF Inv, NotFound
<1>5. events' \in [Node -> Seq(Events)]
  BY <1>2, EmitsKeeps DEF Inv, Tables, NotFound
<1>6. Tables'
  BY <1>5 DEF Inv, Tables, NotFound, bridge, transfers, store, links
<1>7. QED
  BY <1>4, <1>6, Same DEF Inv, InOK, JobOK, NotFound, transfers, bridge

\* The jobs of a provider are about what it was asked for.
LEMMA StreamFits ==
  ASSUME NEW n \in Node, NEW m \in Node, NEW id \in Id, NEW h \in Hash, NEW last \in Nat,
         AskedId(m, n, id)
  PROVE  Stream(id, h, last) \in Jobs /\ JobFits(n, m, Stream(id, h, last))
BY DEF Stream, Jobs, JobFits, Idle, FileSteps

LEMMA IdleFits ==
  ASSUME NEW n \in Node, NEW m \in Node
  PROVE  Idle \in Jobs /\ JobFits(n, m, Idle)
BY DEF Jobs, JobFits, Idle, FileSteps

LEMMA OffersKeeps ==
  ASSUME Inv, NEW n \in Node, NEW m \in Node, Offers(n, m)
  PROVE  Inv'
<1> DEFINE q == Msg(n, m)
           k == Count(n, q.hash)
<1>1. /\ wire[n][m] # <<>> /\ q \in Messages /\ Fits(n, m, q)
      /\ q.type = "REQ"
  BY HeadKeeps DEF Inv, Offers, Handles, Msg
<1>2. q.id \in Id /\ q.hash \in Hash /\ Asked(m, n, q.id, q.hash) /\ AskedId(m, n, q.id)
  BY <1>1 DEF Messages, Fits, AskedId
<1>3. k \in Nat
  BY <1>2, ChunksAssumption DEF Count
<1>4. <<OFFER(q.id, q.hash, k)>> \in Seq(Allowed(m, n))
  BY <1>2, <1>3 DEF OFFER, Allowed, Fits, Messages
<1>5. wire' \in Wires
  BY <1>1, <1>4, AnswersKeep DEF Inv, Offers
<1>6. outbound' \in [Node -> [Id -> Outbounds \cup {NoTransfer}]]
  BY <1>2, <1>3 DEF Inv, Tables, Offers, Outbounds
<1>7. Tables'
  BY <1>6 DEF Inv, Tables, Offers, bridge, store, links
<1>8. JobOK'
  BY <1>2, <1>3, StreamFits, DoesKeeps DEF Inv, Offers, bridge
<1>9. QED
  BY <1>5, <1>7, <1>8, Same DEF Inv, InOK, Offers, bridge

LEMMA SendChunkKeeps ==
  ASSUME Inv, NEW n \in Node, NEW m \in Node, SendChunk(n, m)
  PROVE  Inv'
<1> DEFINE j == job[n][m]
           d == Content(n, j.hash)
<1>1. /\ j \in [do : {"stream"}, id : Id, hash : Hash, next : Nat, last : Nat]
      /\ AskedId(m, n, j.id)
  BY JobKinds DEF Inv, SendChunk
<1>2. CHUNK(j.id, j.next, d) \in Allowed(m, n)
  BY <1>1 DEF Content, CHUNK, Allowed, Fits, Messages
<1>3. PICK ms \in Seq(Allowed(m, n)) : Sends(n, m, ms)
  <2>1. <<>> \in Seq(Allowed(m, n)) /\ <<CHUNK(j.id, j.next, d)>> \in Seq(Allowed(m, n))
    BY <1>2
  <2>2. QED
    BY <2>1 DEF SendChunk
<1>4. wire' \in Wires
  BY <1>3, SentKeeps DEF Inv, Sends
<1>5. JobOK'
  <2>1. [j EXCEPT !.next = @ + 1] \in Jobs /\ JobFits(n, m, [j EXCEPT !.next = @ + 1])
    BY <1>1 DEF Jobs, JobFits, FileSteps
  <2>2. QED
    BY <2>1, IdleFits, DoesKeeps DEF Inv, SendChunk, bridge
<1>6. Tables'
  BY DEF Inv, Tables, SendChunk, bridge, transfers, store, links
<1>7. QED
  BY <1>4, <1>5, <1>6, Same DEF Inv, InOK, SendChunk, transfers, bridge

LEMMA AckedKeeps ==
  ASSUME Inv, NEW n \in Node, NEW m \in Node, Acked(n, m)
  PROVE  Inv'
<1>1. wire' \in Wires
  BY AnswersKeep, EmptySeq DEF Inv, Acked, Handles
<1>2. outbound' \in [Node -> [Id -> Outbounds \cup {NoTransfer}]]
  BY DEF Inv, Tables, Acked
<1>3. Tables'
  BY <1>2 DEF Inv, Tables, Acked, bridge, store, links
<1>4. QED
  BY <1>1, <1>3, Same DEF Inv, InOK, JobOK, Acked, bridge

LEMMA RetransmitsKeeps ==
  ASSUME Inv, NEW n \in Node, NEW m \in Node, Retransmits(n, m)
  PROVE  Inv'
<1> DEFINE a == Msg(n, m)
           t == outbound[n][a.id]
<1>1. /\ wire[n][m] # <<>> /\ a \in Messages /\ Fits(n, m, a)
      /\ a.type = "ACK" /\ a.status = "RETRANSMIT"
  BY HeadKeeps DEF Inv, Retransmits, Handles, Msg
<1>2. a.id \in Id /\ a.count \in Nat /\ AskedId(m, n, a.id)
  BY <1>1 DEF Messages, Fits
<1>3. t \in Outbounds \cup {NoTransfer}
  BY <1>2 DEF Inv, Tables
<1>4. wire' \in Wires
  BY <1>1, AnswersKeep, EmptySeq DEF Inv, Retransmits
<1>5. JobOK'
  <2>1. CASE t = NoTransfer
    BY <2>1, IdleFits, DoesKeeps DEF Inv, Retransmits, bridge
  <2>2. CASE t # NoTransfer
    <3> DEFINE last == IF a.count < t.count THEN a.count ELSE t.count
    <3>1. t.hash \in Hash /\ last \in Nat
      BY <1>2, <1>3, <2>2 DEF Outbounds
    <3>2. Stream(a.id, t.hash, last) \in Jobs /\ JobFits(n, m, Stream(a.id, t.hash, last))
      BY <1>2, <3>1, StreamFits
    <3>3. Does(n, m, Stream(a.id, t.hash, last))
      BY <2>2 DEF Retransmits
    <3>4. QED
      BY <3>2, <3>3, DoesKeeps DEF Inv, Retransmits, bridge
  <2>3. QED
    BY <2>1, <2>2
<1>6. Tables'
  BY DEF Inv, Tables, Retransmits, bridge, transfers, store, links
<1>7. QED
  BY <1>4, <1>5, <1>6, Same DEF Inv, InOK, Retransmits, transfers, bridge

--------------------------------------------------------------------------------
(* The requester.                                                              *)

LEMMA HandleOfferKeeps ==
  ASSUME Inv, NEW n \in Node, NEW m \in Node, HandleOffer(n, m)
  PROVE  Inv'
<1> DEFINE o == Msg(n, m)
<1>1. /\ wire[n][m] # <<>> /\ o \in Messages /\ Fits(n, m, o)
      /\ o.type = "OFFER"
  BY HeadKeeps DEF Inv, HandleOffer, Handles, Msg
<1>2. o.id \in Id /\ o.hash \in Hash /\ o.count \in Nat /\ Asked(n, m, o.id, o.hash)
  BY <1>1 DEF Messages, Fits
<1>3. wire' \in Wires
  <2>1. <<>> \in Seq(Allowed(m, n)) /\ <<ACK(o.id, "REJECTED", 0)>> \in Seq(Allowed(m, n))
    BY <1>2 DEF ACK, Allowed, Fits, Messages, Statuses
  <2>2. QED
    BY <1>1, <2>1, AnswersKeep DEF Inv, HandleOffer
<1>4. InOK'
  <2> DEFINE t == NewInbound(m, o.hash, o.count)
  <2>1. t.got \in Seq(Hash \cup {Garbled, Missing})
    BY <1>2 DEF NewInbound
  <2>2. t \in Inbounds /\ t.peer = m /\ t.hash = o.hash
    BY <1>2, <2>1, ChunksAssumption DEF NewInbound, Inbounds
  <2>3. CASE inbound' = [inbound EXCEPT ![n][o.id] = t]
    <3>1. inbound' \in [Node -> [Id -> Inbounds \cup {NoTransfer}]]
      BY <1>2, <2>2, <2>3 DEF Inv, InOK
    <3>2. request' = request /\ asked' = asked
      BY DEF HandleOffer, bridge
    <3>3. QED
      BY <1>2, <2>2, <2>3, <3>1, <3>2, Same DEF Inv, InOK
  <2>4. CASE UNCHANGED inbound
    BY <2>4, Same DEF Inv, InOK, HandleOffer, bridge
  <2>5. QED
    BY <2>3, <2>4 DEF HandleOffer
<1>5. Tables'
  BY DEF Inv, Tables, HandleOffer, bridge, store, links
<1>6. QED
  BY <1>3, <1>4, <1>5, Same DEF Inv, JobOK, HandleOffer, bridge

\* A request of n is told by its id, and by its blob, if they are apart.
LEMMA OneRequest ==
  ASSUME Tables, NEW n \in Node, Apart(n), NEW m1 \in Node, NEW m2 \in Node,
         NEW i1, NEW i2, NEW h1, NEW h2,
         Asked(n, m1, i1, h1), Asked(n, m2, i2, h2), i1 = i2 \/ h1 = h2
  PROVE  m1 = m2 /\ i1 = i2 /\ h1 = h2
BY DEF Tables, Apart, Asked

LEMMA HandleChunkKeeps ==
  ASSUME Inv, NEW n \in Node, NEW m \in Node, HandleChunk(n, m)
  PROVE  Inv'
<1> DEFINE c == Msg(n, m)
           t == inbound[n][c.id]
           got == [t.got EXCEPT ![c.index] = c.data]
<1>1. /\ wire[n][m] # <<>> /\ c \in Messages /\ Fits(n, m, c)
      /\ c.type = "CHUNK"
  BY HeadKeeps DEF Inv, HandleChunk, Handles, Msg
<1>2. c.id \in Id /\ c.data \in Hash \cup {Garbled} /\ AskedId(n, m, c.id)
  BY <1>1 DEF Messages, Fits
<1>3. wire' \in Wires
  BY <1>1, AnswersKeep, EmptySeq DEF Inv, HandleChunk
<1>4. Tables'
  BY DEF Inv, Tables, HandleChunk, bridge, store, links
<1>5. CASE t = NoTransfer \/ c.index \notin DOMAIN t.got
  <2>1. UNCHANGED <<inbound, job>>
    BY <1>5 DEF HandleChunk
  <2>2. QED
    BY <1>3, <1>4, <2>1, Same DEF Inv, InOK, JobOK, HandleChunk, bridge
<1>6. CASE ~(t = NoTransfer \/ c.index \notin DOMAIN t.got)
  <2>1. t \in Inbounds /\ Asked(n, t.peer, c.id, t.hash)
    BY <1>2, <1>6 DEF Inv, InOK
  <2>2. got \in Seq(Hash \cup {Garbled, Missing})
    <3>1. t.got \in Seq(Hash \cup {Garbled, Missing})
      BY <2>1 DEF Inbounds
    <3>2. QED
      BY <1>2, <1>6, <3>1, ExceptSeq
  <2>3. inbound' = [inbound EXCEPT ![n][c.id] = [t EXCEPT !.got = got]]
    BY <1>2, <1>6 DEF HandleChunk, Inv, InOK
  <2>4. InOK'
    <3>1. /\ [t EXCEPT !.got = got] \in Inbounds
          /\ [t EXCEPT !.got = got].peer = t.peer /\ [t EXCEPT !.got = got].hash = t.hash
      BY <2>1, <2>2 DEF Inbounds
    <3>2. inbound' \in [Node -> [Id -> Inbounds \cup {NoTransfer}]]
      BY <1>2, <2>3, <3>1 DEF Inv, InOK
    <3>3. request' = request /\ asked' = asked
      BY DEF HandleChunk, bridge
    <3>4. QED
      BY <1>2, <2>1, <2>3, <3>1, <3>2, <3>3, Same DEF Inv, InOK
  <2>5. JobOK'
    <3> DEFINE ok == \A i \in DOMAIN got : got[i] = t.hash
               j == Writer(c.id, t.hash, Len(got), ok)
    <3>1. CASE AllReceived(got)
      <4>1. Does(n, m, j)
        BY <1>6, <3>1 DEF HandleChunk
      <4>2. /\ t.hash \in Hash /\ t.peer \in Node /\ Len(got) \in Nat /\ ok \in BOOLEAN
        BY <2>1, <2>2 DEF Inbounds
      <4>3. j \in Jobs
        <5> HIDE DEF ok
        <5>1. QED
          BY <1>2, <4>2 DEF Writer, Jobs, FileSteps
      <4>4. Apart(n) => Asked(n, m, c.id, t.hash)
        <5> SUFFICES ASSUME Apart(n)
                     PROVE  Asked(n, m, c.id, t.hash)
          OBVIOUS
        <5>1. PICK h \in Hash : Asked(n, m, c.id, h)
          BY <1>2 DEF AskedId
        <5>2. QED
          BY <2>1, <4>2, <5>1, OneRequest DEF Inv
      <4>5. JobFits(n, m, j)
        BY <1>2, <4>4 DEF Writer, JobFits, FileSteps
      <4>6. QED
        BY <4>1, <4>3, <4>5, DoesKeeps DEF Inv, HandleChunk, bridge
    <3>2. CASE ~AllReceived(got)
      <4>1. Does(n, m, Idle)
        BY <1>6, <3>2 DEF HandleChunk
      <4>2. QED
        BY <4>1, IdleFits, DoesKeeps DEF Inv, HandleChunk, bridge
    <3>3. QED
      BY <3>1, <3>2
  <2>6. QED
    BY <1>3, <1>4, <2>4, <2>5, Same DEF Inv, HandleChunk, bridge
<1>7. QED
  BY <1>5, <1>6

LEMMA CreateFileKeeps ==
  ASSUME Inv, NEW n \in Node, NEW m \in Node, CreateFile(n, m)
  PROVE  Inv'
<1> DEFINE j == job[n][m]
           k == [j EXCEPT !.do = "write", !.file = "tmp"]
<1>1. /\ j \in [do : FileSteps, id : Id, hash : Hash, count : Nat, ok : BOOLEAN,
                file : {"tmp", "blob", "gone"}]
      /\ JobFits(n, m, j)
  BY JobKinds DEF Inv, JobOK, CreateFile, FileSteps
<1>2. k \in Jobs /\ JobFits(n, m, k)
  BY <1>1 DEF Jobs, JobFits, FileSteps, CreateFile
<1>3. JobOK'
  BY <1>2, DoesKeeps DEF Inv, CreateFile, bridge
<1>4. Tables'
  BY <1>1 DEF Inv, Tables, CreateFile, FileStates, bridge, transfers, links
<1>5. QED
  BY <1>3, <1>4, Same DEF Inv, InOK, CreateFile, transfers, bridge

LEMMA WriteFileKeeps ==
  ASSUME Inv, NEW n \in Node, NEW m \in Node, WriteFile(n, m)
  PROVE  Inv'
<1> DEFINE j == job[n][m]
           k == [j EXCEPT !.do = "finalize"]
<1>1. /\ j \in [do : FileSteps, id : Id, hash : Hash, count : Nat, ok : BOOLEAN,
                file : {"tmp", "blob", "gone"}]
      /\ JobFits(n, m, j)
  BY JobKinds DEF Inv, JobOK, WriteFile, FileSteps
<1>2. k \in Jobs /\ JobFits(n, m, k)
  BY <1>1 DEF Jobs, JobFits, FileSteps, WriteFile
<1>3. JobOK'
  BY <1>2, DoesKeeps DEF Inv, WriteFile, bridge
<1>4. Tables'
  BY <1>1 DEF Inv, Tables, WriteFile, FileStates, bridge, transfers, links
<1>5. QED
  BY <1>3, <1>4, Same DEF Inv, InOK, WriteFile, transfers, bridge

LEMMA StoredKeeps ==
  ASSUME Inv, NEW n \in Node, NEW m \in Node, Stored(n, m)
  PROVE  Inv'
<1> DEFINE j == job[n][m]
           k == [do |-> "remove", id |-> j.id]
<1>1. /\ j \in [do : FileSteps, id : Id, hash : Hash, count : Nat, ok : BOOLEAN,
                file : {"tmp", "blob", "gone"}]
      /\ AskedId(n, m, j.id)
  BY JobKinds DEF Inv, Stored, FileSteps
<1>2. JobOK'
  <2>1. k \in Jobs /\ JobFits(n, m, k)
    BY <1>1 DEF Jobs, JobFits, FileSteps
  <2> DEFINE R == Relinked(n, j.hash, Renamed)
  <2>2. R \in [Node -> Jobs] /\ \A l \in Node : JobFits(n, l, R[l])
    BY <1>1, RelinkKeeps DEF Inv
  <2>3. /\ job' = [job EXCEPT ![n] = [R EXCEPT ![m] = k]]
        /\ request' = request /\ asked' = asked
    BY DEF Stored, bridge
  <2> HIDE DEF R, k
  <2>4. QED
    BY <2>1, <2>2, <2>3, Same DEF Inv, JobOK
<1>3. wire' \in Wires
  <2>1. <<ACK(j.id, "COMPLETE", 0)>> \in Seq(Allowed(m, n))
    BY <1>1 DEF ACK, Allowed, Fits, Messages, Statuses
  <2>2. wire' = Sent(wire, n, m, <<ACK(j.id, "COMPLETE", 0)>>)
    BY DEF Stored, Sends
  <2>3. QED
    BY <2>1, <2>2, SentKeeps DEF Inv
<1>4. events' \in [Node -> Seq(Events)]
  BY <1>1, EmitsKeeps DEF Inv, Tables, Stored
<1>5. Tables'
  BY <1>1, <1>4 DEF Inv, Tables, Stored, FileStates, bridge, transfers, links
<1>6. QED
  BY <1>2, <1>3, <1>5, Same DEF Inv, InOK, Stored, transfers, bridge

LEMMA RemoveTransferKeeps ==
  ASSUME Inv, NEW n \in Node, NEW m \in Node, RemoveTransfer(n, m)
  PROVE  Inv'
<1>1. JobOK'
  BY IdleFits, DoesKeeps DEF Inv, RemoveTransfer, bridge
<1>2. InOK'
  BY JobKinds, Same DEF Inv, InOK, RemoveTransfer, bridge
<1>3. Tables'
  BY DEF Inv, Tables, RemoveTransfer, bridge, store, links
<1>4. QED
  BY <1>1, <1>2, <1>3, Same DEF Inv, RemoveTransfer, bridge

LEMMA NotStoredKeeps ==
  ASSUME Inv, NEW n \in Node, NEW m \in Node, NotStored(n, m)
  PROVE  Inv'
<1> DEFINE j == job[n][m]
           t == inbound[n][j.id]
           ends == t = NoTransfer \/ GivenUp(t)
<1>1. /\ j \in [do : FileSteps, id : Id, hash : Hash, count : Nat, ok : BOOLEAN,
                file : {"tmp", "blob", "gone"}]
      /\ AskedId(n, m, j.id)
  BY JobKinds DEF Inv, NotStored, FileSteps
<1>2. JobOK'
  <2> DEFINE R == IF j.ok THEN job[n] ELSE Relinked(n, j.hash, Unlinked)
  <2>1. R \in [Node -> Jobs] /\ \A l \in Node : JobFits(n, l, R[l])
    BY <1>1, RelinkKeeps DEF Inv, JobOK
  <2>2. /\ job' = [job EXCEPT ![n] = [R EXCEPT ![m] = Idle]]
        /\ request' = request /\ asked' = asked
    BY DEF NotStored, bridge
  <2> HIDE DEF R
  <2>3. QED
    BY <2>1, <2>2, IdleFits, Same DEF Inv, JobOK
<1>3. InOK'
  <2>1. ~ends => /\ Attempt(t) \in Inbounds /\ Attempt(t).peer = t.peer
                 /\ Attempt(t).hash = t.hash /\ Asked(n, t.peer, j.id, t.hash)
    <3> SUFFICES ASSUME ~ends
                 PROVE  /\ Attempt(t) \in Inbounds /\ Attempt(t).peer = t.peer
                        /\ Attempt(t).hash = t.hash /\ Asked(n, t.peer, j.id, t.hash)
      OBVIOUS
    <3>1. t \in Inbounds /\ Asked(n, t.peer, j.id, t.hash)
      BY <1>1 DEF Inv, InOK
    <3>2. [i \in DOMAIN t.got |-> Missing] \in Seq(Hash \cup {Garbled, Missing})
      <4>1. t.got \in Seq(Hash \cup {Garbled, Missing})
        BY <3>1 DEF Inbounds
      <4>2. DOMAIN t.got = 1 .. Len(t.got) /\ Len(t.got) \in Nat
        BY <4>1, LenProperties
      <4> DEFINE again == [i \in 1 .. Len(t.got) |-> Missing]
      <4>3. again \in Seq(Hash \cup {Garbled, Missing})
        BY <4>2
      <4>4. QED
        BY <4>2, <4>3
    <3>3. t.tries + 1 \in 0 .. MaxAttempts
      <4>1. t.tries \in 0 .. MaxAttempts /\ t.tries # MaxAttempts
        BY <3>1 DEF Inbounds, GivenUp
      <4>2. QED
        BY <4>1, ChunksAssumption
    <3>4. QED
      BY <3>1, <3>2, <3>3 DEF Attempt, Inbounds
  <2>2. /\ inbound' = [inbound EXCEPT ![n][j.id] = IF ends THEN NoTransfer ELSE Attempt(t)]
        /\ request' = request /\ asked' = asked
    BY DEF NotStored, bridge
  <2>3. inbound' \in [Node -> [Id -> Inbounds \cup {NoTransfer}]]
    BY <1>1, <2>1, <2>2 DEF Inv, InOK
  <2> HIDE DEF ends
  <2>4. QED
    BY <1>1, <2>1, <2>2, <2>3, Same DEF Inv, InOK
<1>4. wire' \in Wires
  <2>1. /\ <<>> \in Seq(Allowed(m, n))
        /\ <<ACK(j.id, "RETRANSMIT", j.count)>> \in Seq(Allowed(m, n))
    BY <1>1 DEF ACK, Allowed, Fits, Messages, Statuses
  <2>2. PICK ms \in Seq(Allowed(m, n)) : Sends(n, m, ms)
    BY <2>1 DEF NotStored
  <2>3. QED
    BY <2>2, SentKeeps DEF Inv, Sends
<1>5. events' \in [Node -> Seq(Events)]
  BY <1>1, EmitsKeeps DEF Inv, Tables, NotStored
<1>6. Tables'
  BY <1>1, <1>5 DEF Inv, Tables, NotStored, FileStates, bridge, links
<1>7. QED
  BY <1>2, <1>3, <1>4, <1>6, Same DEF Inv, NotStored, bridge

--------------------------------------------------------------------------------
(* The end of a session.                                                       *)

\* What is left of a wire is allowed, as the wire was.
LEMMA CutKeeps ==
  ASSUME NEW w \in Wires, NEW n \in Node, NEW m \in Node, NEW a \in 0 .. Len(w[n][m])
  PROVE  [w EXCEPT ![n][m] = SubSeq(@, 1, a)] \in Wires
<1>1. w[n][m] \in Seq(Allowed(n, m)) /\ w \in [Node -> [Node -> Seq(Messages)]]
  BY DEF Wires
<1>2. a \in Int /\ \A i \in 1 .. a : w[n][m][i] \in Allowed(n, m)
  BY <1>1, ElementOfSeq
<1>3. SubSeq(w[n][m], 1, a) \in Seq(Allowed(n, m))
  BY <1>2, SubSeqProperties
<1>4. SubSeq(w[n][m], 1, a) \in Seq(Messages)
  BY <1>3, SeqMonotonic DEF Allowed
<1>5. QED
  BY <1>1, <1>3, <1>4 DEF Wires

LEMMA BreaksKeeps ==
  ASSUME Inv, NEW n \in Node, NEW m \in Node, Breaks(n, m)
  PROVE  Inv'
<1>1. n # m
  BY NamesAssumption DEF Breaks
<1>2. PICK a \in 0 .. Len(wire[n][m]), b \in 0 .. Len(wire[m][n]) :
        wire' = [wire EXCEPT ![n][m] = SubSeq(@, 1, a), ![m][n] = SubSeq(@, 1, b)]
  BY DEF Breaks
<1> DEFINE w == [wire EXCEPT ![n][m] = SubSeq(@, 1, a)]
<1>3. w \in Wires
  BY CutKeeps DEF Inv
<1>4. w[m][n] = wire[m][n]
  BY <1>1 DEF Inv, Wires
<1>5. [w EXCEPT ![m][n] = SubSeq(@, 1, b)] \in Wires
  <2> HIDE DEF w
  <2>1. QED
    BY <1>3, <1>4, CutKeeps
<1>6. Tables'
  BY DEF Inv, Tables, Breaks, bridge, transfers, store
<1>7. wire' = [w EXCEPT ![m][n] = SubSeq(@, 1, b)]
  BY <1>1, <1>2 DEF Inv, Wires
<1>8. InOK' /\ JobOK' /\ Wires' = Wires
  BY Same DEF Inv, InOK, JobOK, Breaks, transfers, bridge
<1>9. QED
  BY <1>5, <1>6, <1>7, <1>8 DEF Inv

LEMMA DeactivatesKeeps ==
  ASSUME Inv, NEW n \in Node, NEW m \in Node, Deactivates(n, m)
  PROVE  Inv'
<1>1. Tables'
  BY DEF Inv, Tables, InOK, Deactivates, bridge, store
<1>2. InOK'
  BY Same DEF Inv, InOK, Deactivates, bridge
<1>3. QED
  BY <1>1, <1>2, Same DEF Inv, JobOK, Deactivates, bridge

--------------------------------------------------------------------------------
LEMMA InitHolds ==
  ASSUME Init
  PROVE  Inv
<1>1. Tables
  BY DEF Init, Tables, FileStates
<1>2. InOK
  BY DEF Init, InOK
<1>3. JobOK
  BY IdleFits DEF Init, JobOK
<1>4. wire \in Wires
  BY EmptySeq DEF Init, Wires
<1>5. QED
  BY <1>1, <1>2, <1>3, <1>4 DEF Inv

LEMMA NextKeeps ==
  ASSUME Inv, [Next]_vars
  PROVE  Inv'
<1>1. CASE UNCHANGED vars
  BY <1>1, Same DEF vars, bridge, transfers, store, links, Inv, Tables, InOK, JobOK
<1>2. ASSUME NEW r \in Req, Ask(r)
      PROVE  Inv'
  BY <1>2, AskKeeps
<1>3. ASSUME NEW n \in Node, Watch(n) \/ \E h \in Hash : Delete(n, h)
      PROVE  Inv'
  BY <1>3, WatchKeeps, DeleteKeeps
<1>4. ASSUME NEW n \in Node, NEW m \in Node, Provider(n, m)
      PROVE  Inv'
  BY <1>4, NotFoundKeeps, OffersKeeps, SendChunkKeeps, AckedKeeps, RetransmitsKeeps
     DEF Provider
<1>5. ASSUME NEW n \in Node, NEW m \in Node, Requester(n, m)
      PROVE  Inv'
  BY <1>5, HandleOfferKeeps, HandleChunkKeeps, CreateFileKeeps, WriteFileKeeps,
     StoredKeeps, NotStoredKeeps, RemoveTransferKeeps DEF Requester
<1>6. ASSUME NEW n \in Node, NEW m \in Node, Breaks(n, m) \/ Deactivates(n, m)
      PROVE  Inv'
  BY <1>6, BreaksKeeps, DeactivatesKeeps
<1>7. QED
  BY <1>1, <1>2, <1>3, <1>4, <1>5, <1>6 DEF Next, Loop

\* Every table, file, job and wire stays of its type, whatever the requests, blobs
\* and links are.
THEOREM TypeCorrect == Spec => []TypeOK
<1>1. Inv => TypeOK
  BY DEF Inv, Tables, InOK, JobOK, Wires, TypeOK
<1>2. QED
  BY InitHolds, NextKeeps, <1>1, PTL DEF Spec

--------------------------------------------------------------------------------
(* The files of a node whose requests are apart.                               *)

\* A writer's file is at its temporary name, and holds the blob once it is written.
Filed(n, m) ==
  LET j == job[n][m] IN
  /\ j.do = "write" => j.file = "tmp"
  /\ j.do = "finalize" /\ j.ok => tmp[n][j.hash] = "whole"

Sound(n) ==
  Apart(n) => /\ \A h \in Hash : blob[n][h] \in {"none", "whole"}
              /\ \A m \in Node : Filed(n, m)

Disciplined == \A n \in Node : Sound(n)

\* Two loops never write one blob.
LEMMA OneWriter ==
  ASSUME Inv, NEW n \in Node, Apart(n), NEW m1 \in Node, NEW m2 \in Node,
         job[n][m1].do \in FileSteps, job[n][m2].do \in FileSteps,
         job[n][m1].hash = job[n][m2].hash
  PROVE  m1 = m2
BY JobKinds, OneRequest DEF Inv

\* A step that touches no file and begins none of the writer's steps on them.
LEMMA QuietKeeps ==
  ASSUME Disciplined, UNCHANGED <<request, tmp, blob>>,
         \A n \in Node, m \in Node :
           job'[n][m] = job[n][m] \/ job'[n][m].do \notin {"write", "finalize"}
  PROVE  Disciplined'
BY DEF Disciplined, Sound, Filed, Apart

\* A step on the files of n alone has to be looked at for n alone.
LEMMA OnlyAt ==
  ASSUME Disciplined, request' = request, NEW n \in Node,
         \A k \in Node \ {n} : tmp'[k] = tmp[k] /\ blob'[k] = blob[k] /\ job'[k] = job[k],
         Sound(n)'
  PROVE  Disciplined'
BY DEF Disciplined, Sound, Filed, Apart

LEMMA DeleteSound ==
  ASSUME Inv, Disciplined, NEW n \in Node, NEW h \in Hash, Delete(n, h)
  PROVE  Disciplined'
<1>1. Sound(n)'
  <2> SUFFICES ASSUME Apart(n)
               PROVE  /\ \A g \in Hash : blob'[n][g] \in {"none", "whole"}
                      /\ \A m \in Node : Filed(n, m)'
    BY DEF Sound, Apart, Delete
  <2>1. \A g \in Hash : blob'[n][g] \in {"none", "whole"}
    BY DEF Disciplined, Sound, Delete, Inv, Tables
  <2>2. ASSUME NEW m \in Node
        PROVE  Filed(n, m)'
    <3>1. job'[n][m] = Relinked(n, h, Erased)[m] /\ tmp' = tmp
      BY DEF Delete, Inv, JobOK
    <3>2. Filed(n, m)
      BY DEF Disciplined, Sound
    <3>3. CASE job[n][m].do \in FileSteps
      <4>1. job[n][m] \in [do : FileSteps, id : Id, hash : Hash, count : Nat, ok : BOOLEAN,
                           file : {"tmp", "blob", "gone"}]
        BY <3>3, JobKinds DEF Inv
      <4>2. /\ job'[n][m].do = job[n][m].do /\ job'[n][m].hash = job[n][m].hash
            /\ job'[n][m].ok = job[n][m].ok
            /\ job[n][m].file = "tmp" => job'[n][m].file = "tmp"
        BY <3>1, <4>1 DEF Relinked, Erased
      <4>3. QED
        BY <3>1, <3>2, <4>2 DEF Filed
    <3>4. CASE job[n][m].do \notin FileSteps
      BY <3>1, <3>2, <3>4 DEF Relinked, Filed
    <3>5. QED
      BY <3>3, <3>4
  <2>3. QED
    BY <2>1, <2>2
<1>2. QED
  BY <1>1, OnlyAt DEF Delete, Inv, Tables, JobOK

LEMMA CreateFileSound ==
  ASSUME Inv, Disciplined, NEW n \in Node, NEW m \in Node, CreateFile(n, m)
  PROVE  Disciplined'
<1> DEFINE j == job[n][m]
<1>1. j \in [do : FileSteps, id : Id, hash : Hash, count : Nat, ok : BOOLEAN,
             file : {"tmp", "blob", "gone"}]
  BY JobKinds DEF Inv, CreateFile, FileSteps
<1>2. Sound(n)'
  <2> SUFFICES ASSUME Apart(n)
               PROVE  /\ \A g \in Hash : blob'[n][g] \in {"none", "whole"}
                      /\ \A l \in Node : Filed(n, l)'
    BY DEF Sound, Apart, CreateFile
  <2>1. \A g \in Hash : blob'[n][g] \in {"none", "whole"}
    BY DEF Disciplined, Sound, CreateFile
  <2>2. Filed(n, m)'
    BY <1>1 DEF Filed, CreateFile, Does, Inv, JobOK
  <2>3. ASSUME NEW l \in Node \ {m}
        PROVE  Filed(n, l)'
    <3>1. job'[n][l] = job[n][l] /\ Filed(n, l)
      BY DEF CreateFile, Does, Inv, JobOK, Disciplined, Sound
    <3>2. job[n][l].do \in FileSteps => job[n][l].hash # j.hash
      BY OneWriter DEF CreateFile, FileSteps
    <3>3. QED
      BY <1>1, <3>1, <3>2 DEF Filed, FileSteps, CreateFile, Inv, Tables
  <2>4. QED
    BY <2>1, <2>2, <2>3
<1>3. QED
  BY <1>2, OnlyAt DEF CreateFile, Does, Inv, Tables, JobOK

LEMMA WriteFileSound ==
  ASSUME Inv, Disciplined, NEW n \in Node, NEW m \in Node, WriteFile(n, m)
  PROVE  Disciplined'
<1> DEFINE j == job[n][m]
<1>1. j \in [do : FileSteps, id : Id, hash : Hash, count : Nat, ok : BOOLEAN,
             file : {"tmp", "blob", "gone"}]
  BY JobKinds DEF Inv, WriteFile, FileSteps
<1>2. Sound(n)'
  <2> SUFFICES ASSUME Apart(n)
               PROVE  /\ \A g \in Hash : blob'[n][g] \in {"none", "whole"}
                      /\ \A l \in Node : Filed(n, l)'
    BY DEF Sound, Apart, WriteFile
  <2>1. j.file = "tmp"
    BY DEF Disciplined, Sound, Filed, WriteFile
  <2>2. \A g \in Hash : blob'[n][g] \in {"none", "whole"}
    BY <2>1 DEF Disciplined, Sound, WriteFile
  <2>3. Filed(n, m)'
    BY <1>1, <2>1 DEF Filed, WriteFile, Does, Inv, JobOK, Tables
  <2>4. ASSUME NEW l \in Node \ {m}
        PROVE  Filed(n, l)'
    <3>1. job'[n][l] = job[n][l] /\ Filed(n, l)
      BY DEF WriteFile, Does, Inv, JobOK, Disciplined, Sound
    <3>2. job[n][l].do \in FileSteps => job[n][l].hash # j.hash
      BY OneWriter DEF WriteFile, FileSteps
    <3>3. QED
      BY <1>1, <2>1, <3>1, <3>2 DEF Filed, FileSteps, WriteFile, Inv, Tables
  <2>5. QED
    BY <2>2, <2>3, <2>4
<1>3. QED
  BY <1>2, OnlyAt DEF WriteFile, Does, Inv, Tables, JobOK

\* Linking the files of a writer anew leaves the other loops as they are.
LEMMA OthersStay ==
  ASSUME Inv, NEW n \in Node, NEW m \in Node, Apart(n), job[n][m].do \in FileSteps,
         NEW to, NEW l \in Node \ {m}
  PROVE  /\ Relinked(n, job[n][m].hash, to)[l] = job[n][l]
         /\ job[n][l].do \in FileSteps => job[n][l].hash # job[n][m].hash
BY OneWriter DEF Relinked

LEMMA StoredSound ==
  ASSUME Inv, Disciplined, NEW n \in Node, NEW m \in Node, Stored(n, m)
  PROVE  Disciplined'
<1> DEFINE j == job[n][m]
           R == Relinked(n, j.hash, Renamed)
<1>1. /\ j \in [do : FileSteps, id : Id, hash : Hash, count : Nat, ok : BOOLEAN,
                file : {"tmp", "blob", "gone"}]
      /\ j.do = "finalize" /\ j.ok
  BY JobKinds DEF Inv, Stored, FileSteps, Verified
<1>2. R \in [Node -> Jobs]
  BY <1>1, RelinkKeeps DEF Inv
<1>3. job' = [job EXCEPT ![n] = [R EXCEPT ![m] = [do |-> "remove", id |-> j.id]]]
  BY DEF Stored
<1>4. Sound(n)'
  <2> SUFFICES ASSUME Apart(n)
               PROVE  /\ \A g \in Hash : blob'[n][g] \in {"none", "whole"}
                      /\ \A l \in Node : Filed(n, l)'
    BY DEF Sound, Apart, Stored
  <2>1. tmp[n][j.hash] = "whole"
    BY <1>1 DEF Disciplined, Sound, Filed
  <2>2. \A g \in Hash : blob'[n][g] \in {"none", "whole"}
    BY <1>1, <2>1 DEF Disciplined, Sound, Stored, Inv, Tables
  <2>3. Filed(n, m)'
    <3>1. job'[n][m].do = "remove"
      BY <1>2, <1>3 DEF Inv, JobOK
    <3>2. QED
      BY <3>1 DEF Filed
  <2>4. ASSUME NEW l \in Node \ {m}
        PROVE  Filed(n, l)'
    <3>1. R[l] = job[n][l] /\ (job[n][l].do \in FileSteps => job[n][l].hash # j.hash)
      BY <1>1, OthersStay
    <3> HIDE DEF R
    <3>2. job'[n][l] = job[n][l] /\ Filed(n, l)
      BY <1>2, <1>3, <3>1 DEF Inv, JobOK, Disciplined, Sound
    <3>3. QED
      BY <1>1, <3>1, <3>2 DEF Filed, FileSteps, Stored, Inv, Tables
  <2>5. QED
    BY <2>2, <2>3, <2>4
<1>5. QED
  BY <1>4, OnlyAt DEF Stored, Inv, Tables, JobOK

LEMMA NotStoredSound ==
  ASSUME Inv, Disciplined, NEW n \in Node, NEW m \in Node, NotStored(n, m)
  PROVE  Disciplined'
<1> DEFINE j == job[n][m]
           R == IF j.ok THEN job[n] ELSE Relinked(n, j.hash, Unlinked)
<1>1. /\ j \in [do : FileSteps, id : Id, hash : Hash, count : Nat, ok : BOOLEAN,
                file : {"tmp", "blob", "gone"}]
      /\ j.do = "finalize"
  BY JobKinds DEF Inv, NotStored, FileSteps
<1>2. R \in [Node -> Jobs]
  BY <1>1, RelinkKeeps DEF Inv, JobOK
<1>3. job' = [job EXCEPT ![n] = [R EXCEPT ![m] = Idle]]
  BY DEF NotStored
<1>4. Sound(n)'
  <2> SUFFICES ASSUME Apart(n)
               PROVE  /\ \A g \in Hash : blob'[n][g] \in {"none", "whole"}
                      /\ \A l \in Node : Filed(n, l)'
    BY DEF Sound, Apart, NotStored
  <2>1. \A g \in Hash : blob'[n][g] \in {"none", "whole"}
    BY DEF Disciplined, Sound, NotStored
  <2>2. Filed(n, m)'
    <3>1. job'[n][m] = Idle
      BY <1>2, <1>3 DEF Inv, JobOK
    <3>2. QED
      BY <3>1 DEF Filed, Idle
  <2>3. ASSUME NEW l \in Node \ {m}
        PROVE  Filed(n, l)'
    <3>1. R[l] = job[n][l] /\ (job[n][l].do \in FileSteps => job[n][l].hash # j.hash)
      BY <1>1, OthersStay
    <3> HIDE DEF R
    <3>2. job'[n][l] = job[n][l] /\ Filed(n, l)
      BY <1>2, <1>3, <3>1 DEF Inv, JobOK, Disciplined, Sound
    <3>3. \A g \in Hash : g # j.hash => tmp'[n][g] = tmp[n][g]
      BY <1>1 DEF NotStored, Inv, Tables
    <3>4. job[n][l].do \in FileSteps => job[n][l].hash \in Hash
      BY JobKinds DEF Inv
    <3>5. QED
      BY <3>1, <3>2, <3>3, <3>4 DEF Filed, FileSteps
  <2>4. QED
    BY <2>1, <2>2, <2>3
<1>5. QED
  BY <1>4, OnlyAt DEF NotStored, Inv, Tables, JobOK

\* The steps of a loop that leave the files alone.
LEMMA LoopQuiet ==
  ASSUME Inv, Disciplined, NEW n \in Node, NEW m \in Node,
         Provider(n, m) \/ HandleOffer(n, m) \/ HandleChunk(n, m) \/ RemoveTransfer(n, m)
  PROVE  Disciplined'
<1>1. UNCHANGED <<request, tmp, blob>>
  BY DEF Provider, NotFound, Offers, SendChunk, Acked, Retransmits, HandleOffer,
         HandleChunk, RemoveTransfer, store
<1>2. \/ UNCHANGED job
      \/ \E k : Does(n, m, k) /\ k.do \notin {"write", "finalize"}
  <2>1. CASE NotFound(n, m) \/ Acked(n, m) \/ HandleOffer(n, m)
    BY <2>1 DEF NotFound, Acked, HandleOffer
  <2>2. CASE Offers(n, m)
    BY <2>2 DEF Offers, Stream, Idle
  <2>3. CASE SendChunk(n, m)
    <3> DEFINE j == job[n][m]
    <3>1. j \in [do : {"stream"}, id : Id, hash : Hash, next : Nat, last : Nat]
      BY <2>3, JobKinds DEF Inv, SendChunk
    <3>2. Idle.do = "idle" /\ [j EXCEPT !.next = @ + 1].do = "stream"
      BY <3>1 DEF Idle
    <3>3. QED
      BY <2>3, <3>2 DEF SendChunk
  <2>4. CASE Retransmits(n, m)
    BY <2>4 DEF Retransmits, Stream, Idle
  <2>5. CASE HandleChunk(n, m)
    BY <2>5 DEF HandleChunk, Writer, Idle
  <2>6. CASE RemoveTransfer(n, m)
    BY <2>6 DEF RemoveTransfer, Idle
  <2>7. QED
    BY <2>1, <2>2, <2>3, <2>4, <2>5, <2>6 DEF Provider
<1>3. QED
  BY <1>1, <1>2, QuietKeeps DEF Does, Inv, JobOK

LEMMA StaysDisciplined ==
  ASSUME Inv, Disciplined, [Next]_vars
  PROVE  Disciplined'
<1>1. ASSUME NEW r \in Req, Ask(r)
      PROVE  Disciplined'
  BY <1>1, QuietKeeps DEF Ask, store
<1>2. ASSUME NEW n \in Node, Watch(n) \/ \E h \in Hash : Delete(n, h)
      PROVE  Disciplined'
  BY <1>2, QuietKeeps, DeleteSound DEF Watch, store
<1>3. ASSUME NEW n \in Node, NEW m \in Node, Loop(n, m)
      PROVE  Disciplined'
  BY <1>3, LoopQuiet, CreateFileSound, WriteFileSound, StoredSound, NotStoredSound
     DEF Loop, Requester
<1>4. ASSUME NEW n \in Node, NEW m \in Node, Breaks(n, m) \/ Deactivates(n, m)
      PROVE  Disciplined'
  BY <1>4, QuietKeeps DEF Breaks, Deactivates, store
<1>5. CASE UNCHANGED vars
  BY <1>5, QuietKeeps DEF vars, store
<1>6. QED
  BY <1>1, <1>2, <1>3, <1>4, <1>5 DEF Next

\* A node whose own requests share neither id nor blob never has anything under a
\* hash but that blob, whatever other nodes ask of it and of its providers.
THEOREM StoredStaysWhole == Spec => []StoredIsWhole
<1>1. Init => Disciplined
  BY DEF Init, Disciplined, Sound, Filed, Idle
<1>2. Inv /\ Disciplined => StoredIsWhole
  BY DEF Disciplined, Sound, StoredIsWhole
<1>3. QED
  BY <1>1, <1>2, InitHolds, NextKeeps, StaysDisciplined, PTL DEF Spec

--------------------------------------------------------------------------------
(* Isolation: what the tables, loops, wires and events of the two nodes of a    *)
(* clean request hold under its id is about that request.                       *)

Strangers == \A r \in Req : request[r].by # request[r].from

\* Messages in which a chunk under the id of r comes from the blob of r.
Genuine(r) ==
  {x \in Messages : x.type = "CHUNK" /\ x.id = request[r].id => x.data = request[r].hash}

Success(r) == Event(request[r].id, request[r].hash, "Complete")

InPure(r) ==
  LET t == inbound[request[r].by][request[r].id] IN
  t # NoTransfer => /\ t.tries = 0
                    /\ \A i \in DOMAIN t.got : t.got[i] \in {Missing, request[r].hash}

OutPure(r) ==
  LET t == outbound[request[r].from][request[r].id] IN
  t # NoTransfer => t.hash = request[r].hash

JobPure(r) ==
  \A m \in Node :
    /\ LET j == job[request[r].from][m] IN
         j.do = "stream" /\ j.id = request[r].id => j.hash = request[r].hash
    /\ LET j == job[request[r].by][m] IN
         j.do \in FileSteps /\ j.id = request[r].id => j.ok

WirePure(r) == wire[request[r].by][request[r].from] \in Seq(Genuine(r))

EventsPure(r) ==
  /\ events[request[r].by] \in Seq({e \in Events : e.id = request[r].id => e = Success(r)})
  /\ \A e \in told[r] : e = Success(r)

CallbackOwn(r) ==
  \A n \in Node, id \in Id : callback[n][id] = r => n = request[r].by /\ id = request[r].id

Pure(r) ==
  InPure(r) /\ OutPure(r) /\ JobPure(r) /\ WirePure(r) /\ EventsPure(r) /\ CallbackOwn(r)

PureInv == Strangers /\ \A r \in Req : Clean(r) => Pure(r)

Whole == Inv /\ Disciplined /\ PureInv

\* Its id stands for a clean request at both of its nodes, and in one direction.
LEMMA OwnId ==
  ASSUME Tables, Strangers, NEW r \in Req, Clean(r), NEW m \in Node, NEW h
  PROVE  LET q == request[r] IN
         /\ Asked(q.by, m, q.id, h) => m = q.from /\ h = q.hash
         /\ Asked(m, q.from, q.id, h) => m = q.by /\ h = q.hash
         /\ ~Asked(m, q.by, q.id, h)
BY DEF Tables, Strangers, Clean, Unshared, Asked

\* The next message of a kind.
LEMMA NextMessage ==
  ASSUME Inv, NEW n \in Node, NEW m \in Node, NEW type, Handles(n, m, type)
  PROVE  /\ Msg(n, m) \in Messages /\ Fits(n, m, Msg(n, m)) /\ Msg(n, m).type = type
         /\ Msg(n, m).id \in Id /\ wire[n][m] # <<>>
<1>1. wire[n][m] # <<>> /\ Msg(n, m).type = type
  BY DEF Handles, Msg
<1>2. Msg(n, m) \in Messages /\ Fits(n, m, Msg(n, m))
  BY <1>1, HeadKeeps DEF Inv
<1>3. QED
  BY <1>1, <1>2 DEF Messages

\* Which steps touch the tables, the provider's and the requester's.
LEMMA Touches ==
  ASSUME [Next]_vars
  PROVE  /\ request' = request
         /\ \/ UNCHANGED inbound
            \/ \E n, m \in Node : \/ HandleOffer(n, m) \/ HandleChunk(n, m) \/ NotStored(n, m)
                                 \/ RemoveTransfer(n, m) \/ Deactivates(n, m)
         /\ \/ UNCHANGED outbound
            \/ \E n, m \in Node : Offers(n, m) \/ Acked(n, m) \/ Deactivates(n, m)
<1>1. ASSUME NEW r \in Req, Ask(r)
      PROVE  UNCHANGED <<request, inbound, outbound>>
  BY <1>1 DEF Ask, transfers
<1>2. ASSUME NEW n \in Node, Watch(n) \/ \E h \in Hash : Delete(n, h)
      PROVE  UNCHANGED <<request, inbound, outbound>>
  BY <1>2 DEF Watch, Delete, transfers
<1>3. ASSUME NEW n \in Node, NEW m \in Node, Provider(n, m)
      PROVE  /\ UNCHANGED <<request, inbound>>
             /\ Offers(n, m) \/ Acked(n, m) \/ UNCHANGED outbound
  BY <1>3 DEF Provider, NotFound, Offers, SendChunk, Acked, Retransmits, transfers
<1>4. ASSUME NEW n \in Node, NEW m \in Node, Requester(n, m)
      PROVE  /\ UNCHANGED <<request, outbound>>
             /\ \/ HandleOffer(n, m) \/ HandleChunk(n, m) \/ NotStored(n, m)
                \/ RemoveTransfer(n, m) \/ UNCHANGED inbound
  BY <1>4 DEF Requester, HandleOffer, HandleChunk, CreateFile, WriteFile, Stored, NotStored,
     RemoveTransfer, transfers
<1>5. ASSUME NEW n \in Node, NEW m \in Node, Breaks(n, m) \/ Deactivates(n, m)
      PROVE  /\ UNCHANGED request
             /\ Deactivates(n, m) \/ UNCHANGED <<inbound, outbound>>
  BY <1>5 DEF Breaks, Deactivates, transfers
<1>6. CASE UNCHANGED vars
  BY <1>6 DEF vars, transfers
<1>7. QED
  BY <1>1, <1>2, <1>3, <1>4, <1>5, <1>6 DEF Next, Loop

\* A clean request is never asked for again: what its chunks make is its blob, and the
\* file is where the writer left it.
LEMMA NeverRetried ==
  ASSUME Whole, NEW r \in Req, Clean(r), NEW m \in Node, NotStored(request[r].by, m)
  PROVE  job[request[r].by][m].id # request[r].id
<1> DEFINE n == request[r].by
           j == job[n][m]
<1>1. SUFFICES ASSUME j.id = request[r].id PROVE FALSE
  OBVIOUS
<1>2. n \in Node /\ Apart(n)
  BY DEF Whole, Inv, Tables, Clean
<1>3. j.do = "finalize" /\ j.ok
  BY <1>1 DEF NotStored, Whole, PureInv, Pure, JobPure, FileSteps
<1>4. tmp[n][j.hash] = "whole"
  BY <1>2, <1>3 DEF Whole, Disciplined, Sound, Filed
<1>5. QED
  BY <1>3, <1>4 DEF NotStored, Verified

\* A chunk under the id of a clean request comes from its blob.
LEMMA ChunkIsOwn ==
  ASSUME Whole, NEW r \in Req, Clean(r), NEW m \in Node, HandleChunk(request[r].by, m),
         Msg(request[r].by, m).id = request[r].id
  PROVE  Msg(request[r].by, m).data = request[r].hash
<1> DEFINE n == request[r].by
           c == Msg(n, m)
<1>1. n \in Node /\ Inv /\ Tables /\ Strangers /\ Pure(r)
  BY DEF Whole, Inv, Tables, PureInv
<1>2. Fits(n, m, c) /\ c.type = "CHUNK" /\ wire[n][m] # <<>>
  BY <1>1, NextMessage DEF HandleChunk
<1>3. m = request[r].from
  BY <1>1, <1>2, OwnId DEF Fits, AskedId
<1>4. wire[n][m] \in Seq(Genuine(r))
  BY <1>1, <1>3 DEF Pure, WirePure
<1>5. c \in Genuine(r)
  BY <1>2, <1>4 DEF Msg
<1>6. QED
  BY <1>2, <1>5 DEF Genuine

--------------------------------------------------------------------------------
\* The tables.
LEMMA InStaysPure ==
  ASSUME Whole, NEW r \in Req, Clean(r), [Next]_vars
  PROVE  InPure(r)'
<1> DEFINE a == request[r].by
           i == request[r].id
<1>1. /\ a \in Node /\ request[r].from \in Node /\ i \in Id /\ request' = request
      /\ Tables /\ Strangers /\ Pure(r) /\ InPure(r)
      /\ inbound \in [Node -> [Id -> Inbounds \cup {NoTransfer}]]
  BY Touches DEF Whole, Inv, InOK, Tables, PureInv, Pure
<1>2. ASSUME NEW n \in Node, NEW m \in Node, HandleOffer(n, m)
      PROVE  InPure(r)'
  <2> DEFINE o == Msg(n, m)
  <2>1. o \in Messages /\ o.type = "OFFER" /\ o.id \in Id
    BY <1>2, NextMessage DEF HandleOffer, Whole
  <2>2. o.count \in Nat
    BY <2>1 DEF Messages
  <2>3. CASE inbound' = [inbound EXCEPT ![n][o.id] = NewInbound(m, o.hash, o.count)]
    BY <1>1, <2>2, <2>3 DEF InPure, NewInbound
  <2>4. CASE UNCHANGED inbound
    BY <1>1, <2>4 DEF InPure
  <2>5. QED
    BY <1>2, <2>3, <2>4 DEF HandleOffer
<1>3. ASSUME NEW n \in Node, NEW m \in Node, HandleChunk(n, m)
      PROVE  InPure(r)'
  <2> DEFINE c == Msg(n, m)
             t == inbound[n][c.id]
             got == [t.got EXCEPT ![c.index] = c.data]
  <2>1. CASE inbound' = inbound
    BY <1>1, <2>1 DEF InPure
  <2>2. CASE inbound' # inbound
    <3>1. /\ c \in Messages /\ Fits(n, m, c) /\ c.type = "CHUNK" /\ c.id \in Id
          /\ wire[n][m] # <<>>
      BY <1>3, NextMessage DEF HandleChunk, Whole
    <3>2. /\ t # NoTransfer /\ c.index \in DOMAIN t.got
          /\ inbound' = [inbound EXCEPT ![n][c.id].got = got]
      BY <1>3, <2>2 DEF HandleChunk
    <3>3. CASE n = a /\ c.id = i
      <4>2. c.data = request[r].hash
        BY <1>3, <3>3, ChunkIsOwn
      <4>3. /\ t \in Inbounds /\ t.tries = 0
            /\ \A k \in DOMAIN t.got : t.got[k] \in {Missing, request[r].hash}
        <5>1. t = inbound[a][i] /\ t # NoTransfer
          BY <3>2, <3>3
        <5>2. t \in Inbounds
          BY <1>1, <5>1
        <5> HIDE DEF t
        <5>3. QED
          BY <1>1, <5>1, <5>2 DEF InPure
      <4>4. inbound'[a][i] = [t EXCEPT !.got = got]
        BY <1>1, <3>2, <3>3
      <4>5. inbound'[a][i].tries = 0 /\ inbound'[a][i].got = got
        BY <4>3, <4>4 DEF Inbounds
      <4>6. \A k \in DOMAIN got : got[k] \in {Missing, request[r].hash}
        BY <4>2, <4>3
      <4>7. QED
        BY <1>1, <4>5, <4>6 DEF InPure
    <3>4. CASE ~(n = a /\ c.id = i)
      BY <1>1, <3>1, <3>2, <3>4 DEF InPure
    <3>5. QED
      BY <3>3, <3>4
  <2>3. QED
    BY <2>1, <2>2
<1>4. ASSUME NEW n \in Node, NEW m \in Node, NotStored(n, m)
      PROVE  InPure(r)'
  <2>1. job[n][m].id \in Id
    BY <1>4, JobKinds DEF NotStored, FileSteps, Whole, Inv
  <2>2. ~(n = a /\ job[n][m].id = i)
    BY <1>4, NeverRetried
  <2>3. inbound'[a][i] = inbound[a][i]
    BY <1>1, <1>4, <2>1, <2>2 DEF NotStored
  <2>4. QED
    BY <1>1, <2>3 DEF InPure
<1>5. ASSUME NEW n \in Node, NEW m \in Node, RemoveTransfer(n, m) \/ Deactivates(n, m)
      PROVE  InPure(r)'
  <2>1. CASE RemoveTransfer(n, m)
    <3>1. job[n][m].id \in Id
      BY <2>1, JobKinds DEF RemoveTransfer, Whole, Inv
    <3>2. inbound'[a][i] \in {inbound[a][i], NoTransfer}
      BY <1>1, <2>1, <3>1 DEF RemoveTransfer
    <3>3. QED
      BY <1>1, <3>2 DEF InPure
  <2>2. CASE Deactivates(n, m)
    <3>1. inbound'[a][i] \in {inbound[a][i], NoTransfer}
      BY <1>1, <2>2 DEF Deactivates
    <3>2. QED
      BY <1>1, <3>1 DEF InPure
  <2>3. QED
    BY <1>5, <2>1, <2>2
<1>6. CASE UNCHANGED inbound
  BY <1>1, <1>6 DEF InPure
<1>7. QED
  BY <1>2, <1>3, <1>4, <1>5, <1>6, Touches

LEMMA OutStaysPure ==
  ASSUME Whole, NEW r \in Req, Clean(r), [Next]_vars
  PROVE  OutPure(r)'
<1> DEFINE b == request[r].from
           i == request[r].id
<1>1. /\ b \in Node /\ i \in Id /\ request' = request
      /\ Tables /\ Strangers /\ OutPure(r)
      /\ outbound \in [Node -> [Id -> Outbounds \cup {NoTransfer}]]
  BY Touches DEF Whole, Inv, Tables, PureInv, Pure
<1>2. ASSUME NEW n \in Node, NEW m \in Node, Offers(n, m)
      PROVE  OutPure(r)'
  <2> DEFINE q == Msg(n, m)
             t == [peer |-> m, hash |-> q.hash, count |-> Count(n, q.hash)]
  <2>1. q \in Messages /\ Fits(n, m, q) /\ q.type = "REQ" /\ q.id \in Id
    BY <1>2, NextMessage DEF Offers, Whole
  <2>2. n = b /\ q.id = i => q.hash = request[r].hash
    BY <1>1, <2>1, OwnId DEF Fits
  <2>3. outbound' = [outbound EXCEPT ![n][q.id] = t] /\ t.hash = q.hash
    BY <1>2 DEF Offers
  <2> HIDE DEF t
  <2>4. QED
    BY <1>1, <2>1, <2>2, <2>3 DEF OutPure
<1>3. ASSUME NEW n \in Node, NEW m \in Node, Acked(n, m) \/ Deactivates(n, m)
      PROVE  OutPure(r)'
  <2>1. CASE Acked(n, m)
    <3>1. outbound'[b][i] \in {outbound[b][i], NoTransfer}
      BY <1>1, <2>1 DEF Acked
    <3>2. QED
      BY <1>1, <3>1 DEF OutPure
  <2>2. CASE Deactivates(n, m)
    <3>1. outbound'[b][i] \in {outbound[b][i], NoTransfer}
      BY <1>1, <2>2 DEF Deactivates
    <3>2. QED
      BY <1>1, <3>1 DEF OutPure
  <2>3. QED
    BY <1>3, <2>1, <2>2
<1>4. CASE UNCHANGED outbound
  BY <1>1, <1>4 DEF OutPure
<1>5. QED
  BY <1>2, <1>3, <1>4, Touches

--------------------------------------------------------------------------------
\* The loops.  A step of a loop gives it a job that its provider or requester knows
\* to be about the request, or lets it go on with the one it has.
JobGood(r, n, j) ==
  /\ n = request[r].from /\ j.do = "stream" /\ j.id = request[r].id => j.hash = request[r].hash
  /\ n = request[r].by /\ j.do \in FileSteps /\ j.id = request[r].id => j.ok

LEMMA JobGoodIsPure ==
  ASSUME NEW r \in Req, request[r].by \in Node, request[r].from \in Node
  PROVE  JobPure(r) <=> \A n, m \in Node : JobGood(r, n, job[n][m])
BY DEF JobPure, JobGood

LEMMA DoesStaysPure ==
  ASSUME Whole, NEW r \in Req, JobPure(r), NEW n \in Node, NEW m \in Node, NEW j,
         Does(n, m, j), JobGood(r, n, j), request' = request
  PROVE  JobPure(r)'
<1>1. request[r].by \in Node /\ request[r].from \in Node /\ job \in [Node -> [Node -> Jobs]]
  BY DEF Whole, Inv, Tables, JobOK
<1>2. job'[n][m] = j /\ \A k, l \in Node : <<k, l>> # <<n, m>> => job'[k][l] = job[k][l]
  BY <1>1 DEF Does
<1>3. QED
  BY <1>1, <1>2 DEF JobPure, JobGood

LEMMA IdleIsGood ==
  ASSUME NEW r \in Req, NEW n \in Node PROVE JobGood(r, n, Idle)
BY DEF JobGood, Idle, FileSteps

LEMMA ProviderJobs ==
  ASSUME Whole, NEW r \in Req, Clean(r), NEW n \in Node, NEW m \in Node, Provider(n, m)
  PROVE  JobPure(r)'
<1>1. /\ Inv /\ Tables /\ Strangers /\ JobPure(r) /\ OutPure(r)
      /\ request[r].by \in Node /\ request[r].from \in Node /\ request[r].id \in Id
  BY DEF Whole, Inv, Tables, PureInv, Pure
<1>2. CASE NotFound(n, m) \/ Acked(n, m)
  BY <1>1, <1>2 DEF NotFound, Acked, JobPure
<1>3. CASE Offers(n, m)
  <2> DEFINE q == Msg(n, m)
             j == Stream(q.id, q.hash, Count(n, q.hash))
  <2>1. Fits(n, m, q) /\ q.type = "REQ"
    BY <1>1, <1>3, NextMessage DEF Offers
  <2>2. n = request[r].from /\ q.id = request[r].id => q.hash = request[r].hash
    BY <1>1, <2>1, OwnId DEF Fits
  <2>3. JobGood(r, n, j)
    BY <2>2 DEF JobGood, Stream, Idle, FileSteps
  <2>4. QED
    BY <1>1, <1>3, <2>3, DoesStaysPure DEF Offers
<1>4. CASE SendChunk(n, m)
  <2> DEFINE j == job[n][m]
             k == [j EXCEPT !.next = @ + 1]
  <2>1. j \in [do : {"stream"}, id : Id, hash : Hash, next : Nat, last : Nat]
    BY <1>4, JobKinds DEF SendChunk, Whole, Inv
  <2>2. JobGood(r, n, j)
    BY <1>1 DEF JobPure, JobGood
  <2>3. JobGood(r, n, k)
    BY <2>1, <2>2 DEF JobGood
  <2>4. QED
    BY <1>1, <1>4, <2>3, IdleIsGood, DoesStaysPure DEF SendChunk
<1>5. CASE Retransmits(n, m)
  <2> DEFINE x == Msg(n, m)
             t == outbound[n][x.id]
             last == IF x.count < t.count THEN x.count ELSE t.count
  <2>1. CASE t = NoTransfer
    BY <1>1, <1>5, <2>1, IdleIsGood, DoesStaysPure DEF Retransmits
  <2>2. CASE t # NoTransfer
    <3>1. Does(n, m, Stream(x.id, t.hash, last))
      BY <1>5, <2>2 DEF Retransmits
    <3>2. n = request[r].from /\ x.id = request[r].id => t.hash = request[r].hash
      BY <1>1, <2>2 DEF OutPure
    <3>3. JobGood(r, n, Stream(x.id, t.hash, last))
      <4> HIDE DEF t, last
      <4>1. QED
        BY <3>2 DEF JobGood, Stream, Idle, FileSteps
    <3>4. request' = request
      BY <1>5 DEF Retransmits
    <3>5. QED
      BY <1>1, <3>1, <3>3, <3>4, DoesStaysPure
  <2>3. QED
    BY <2>1, <2>2
<1>6. QED
  BY <1>2, <1>3, <1>4, <1>5 DEF Provider

\* The chunks that complete the transfer of a clean request are all of its blob.
LEMMA HandleChunkJobs ==
  ASSUME Whole, NEW r \in Req, Clean(r), NEW n \in Node, NEW m \in Node, HandleChunk(n, m)
  PROVE  JobPure(r)'
<1> DEFINE c == Msg(n, m)
           t == inbound[n][c.id]
           got == [t.got EXCEPT ![c.index] = c.data]
           ok == \A i \in DOMAIN got : got[i] = t.hash
           j == Writer(c.id, t.hash, Len(got), ok)
<1>1. /\ Inv /\ Tables /\ Strangers /\ JobPure(r) /\ InPure(r) /\ request' = request
      /\ request[r].by \in Node /\ request[r].from \in Node /\ request[r].id \in Id
  BY DEF Whole, Inv, Tables, PureInv, Pure, HandleChunk
<1>2. c.id \in Id
  BY <1>1, NextMessage DEF HandleChunk
<1>3. CASE UNCHANGED job
  BY <1>1, <1>3 DEF JobPure
<1>4. CASE Does(n, m, Idle)
  BY <1>1, <1>4, IdleIsGood, DoesStaysPure
<1>5. CASE t # NoTransfer /\ AllReceived(got) /\ Does(n, m, j)
  <2>1. ASSUME n = request[r].by, c.id = request[r].id
        PROVE  ok
    <3>1. t \in Inbounds /\ Asked(n, t.peer, c.id, t.hash)
      BY <1>1, <1>2, <1>5 DEF Inv, InOK
    <3>2. t.hash = request[r].hash
      BY <1>1, <2>1, <3>1, OwnId DEF Inbounds
    <3>3. c.data = request[r].hash
      BY <2>1, ChunkIsOwn
    <3>4. \A i \in DOMAIN t.got : t.got[i] \in {Missing, request[r].hash}
      BY <1>1, <1>5, <2>1 DEF InPure
    <3>5. \A i \in DOMAIN got : got[i] \in {Missing, request[r].hash}
      BY <3>3, <3>4
    <3>6. QED
      BY <1>5, <3>2, <3>5 DEF AllReceived
  <2>2. j.do = "create" /\ j.id = c.id /\ j.ok = ok
    BY DEF Writer
  <2>3. JobGood(r, n, j)
    <3> HIDE DEF ok, j
    <3>1. QED
      BY <2>1, <2>2 DEF JobGood, FileSteps
  <2>4. QED
    BY <1>1, <1>5, <2>3, DoesStaysPure
<1>6. QED
  BY <1>3, <1>4, <1>5 DEF HandleChunk

LEMMA RelinkedIsGood ==
  ASSUME JobOK, NEW r \in Req, NEW n \in Node, NEW m \in Node, NEW h \in Hash,
         NEW to \in {Renamed, Unlinked, Erased}, JobGood(r, n, job[n][m])
  PROVE  JobGood(r, n, Relinked(n, h, to)[m])
<1> DEFINE j == job[n][m]
<1>1. CASE j.do \in FileSteps
  <2>1. j \in [do : FileSteps, id : Id, hash : Hash, count : Nat, ok : BOOLEAN,
               file : {"tmp", "blob", "gone"}]
    BY <1>1, JobKinds
  <2>2. [j EXCEPT !.file = to[@]].do = j.do /\ [j EXCEPT !.file = to[@]].id = j.id
        /\ [j EXCEPT !.file = to[@]].ok = j.ok /\ [j EXCEPT !.file = to[@]].hash = j.hash
    BY <2>1
  <2>3. QED
    BY <2>2 DEF Relinked, JobGood
<1>2. CASE j.do \notin FileSteps
  BY <1>2 DEF Relinked
<1>3. QED
  BY <1>1, <1>2

LEMMA RequesterJobs ==
  ASSUME Whole, NEW r \in Req, Clean(r), NEW n \in Node, NEW m \in Node, Requester(n, m)
  PROVE  JobPure(r)'
<1> DEFINE j == job[n][m]
<1>1. /\ Inv /\ Tables /\ JobOK /\ JobPure(r)
      /\ request[r].by \in Node /\ request[r].from \in Node
      /\ job \in [Node -> [Node -> Jobs]]
  BY DEF Whole, Inv, Tables, PureInv, Pure, JobOK
<1>2. \A k, l \in Node : JobGood(r, k, job[k][l])
  BY <1>1, JobGoodIsPure
<1>3. j.do \in FileSteps => j \in [do : FileSteps, id : Id, hash : Hash, count : Nat,
                                  ok : BOOLEAN, file : {"tmp", "blob", "gone"}]
  BY <1>1, JobKinds
<1>4. CASE HandleOffer(n, m)
  BY <1>1, <1>4 DEF HandleOffer, JobPure
<1>5. CASE HandleChunk(n, m)
  BY <1>5, HandleChunkJobs
<1>6. CASE CreateFile(n, m)
  <2>1. JobGood(r, n, [j EXCEPT !.do = "write", !.file = "tmp"])
    BY <1>2, <1>3, <1>6 DEF CreateFile, JobGood, FileSteps
  <2>2. QED
    BY <1>1, <1>6, <2>1, DoesStaysPure DEF CreateFile
<1>7. CASE WriteFile(n, m)
  <2>1. JobGood(r, n, [j EXCEPT !.do = "finalize"])
    BY <1>2, <1>3, <1>7 DEF WriteFile, JobGood, FileSteps
  <2>2. QED
    BY <1>1, <1>7, <2>1, DoesStaysPure DEF WriteFile
<1>8. CASE RemoveTransfer(n, m)
  BY <1>1, <1>8, IdleIsGood, DoesStaysPure DEF RemoveTransfer
<1>9. ASSUME NEW R \in [Node -> Jobs], \A l \in Node : JobGood(r, n, R[l]),
             NEW k, JobGood(r, n, k), job' = [job EXCEPT ![n] = [R EXCEPT ![m] = k]],
             request' = request
      PROVE  JobPure(r)'
  <2>1. \A l \in Node : job'[n][l] = IF l = m THEN k ELSE R[l]
    BY <1>1, <1>9
  <2>2. \A i \in Node \ {n} : job'[i] = job[i]
    BY <1>1, <1>9
  <2>3. \A i, l \in Node : JobGood(r, i, job'[i][l])
    BY <1>2, <1>9, <2>1, <2>2
  <2>4. QED
    BY <1>1, <1>9, <2>3 DEF JobPure, JobGood
<1>10. CASE Stored(n, m)
  <2> DEFINE R == Relinked(n, j.hash, Renamed)
             k == [do |-> "remove", id |-> j.id]
  <2>1. j.hash \in Hash
    BY <1>3, <1>10 DEF Stored, FileSteps
  <2>2. R \in [Node -> Jobs] /\ \A l \in Node : JobGood(r, n, R[l])
    BY <1>1, <1>2, <2>1, RelinkKeeps, RelinkedIsGood
  <2>3. JobGood(r, n, k)
    BY DEF JobGood, FileSteps
  <2>4. job' = [job EXCEPT ![n] = [R EXCEPT ![m] = k]] /\ request' = request
    BY <1>10 DEF Stored
  <2> HIDE DEF R, k
  <2>5. QED
    BY <1>9, <2>2, <2>3, <2>4
<1>11. CASE NotStored(n, m)
  <2> DEFINE R == IF j.ok THEN job[n] ELSE Relinked(n, j.hash, Unlinked)
  <2>1. j.hash \in Hash
    BY <1>3, <1>11 DEF NotStored, FileSteps
  <2>2. R \in [Node -> Jobs] /\ \A l \in Node : JobGood(r, n, R[l])
    <3>1. CASE j.ok
      BY <1>1, <1>2, <3>1
    <3>2. CASE ~j.ok
      BY <1>1, <1>2, <2>1, <3>2, RelinkKeeps, RelinkedIsGood
    <3>3. QED
      BY <3>1, <3>2
  <2>3. job' = [job EXCEPT ![n] = [R EXCEPT ![m] = Idle]] /\ request' = request
    BY <1>11 DEF NotStored
  <2> HIDE DEF R
  <2>4. QED
    BY <1>9, <2>2, <2>3, IdleIsGood
<1>12. QED
  BY <1>4, <1>5, <1>6, <1>7, <1>8, <1>10, <1>11 DEF Requester

LEMMA JobStaysPure ==
  ASSUME Whole, NEW r \in Req, Clean(r), [Next]_vars
  PROVE  JobPure(r)'
<1>1. /\ JobPure(r) /\ JobOK /\ request' = request
      /\ request[r].by \in Node /\ request[r].from \in Node
  BY Touches DEF Whole, Inv, Tables, PureInv, Pure
<1>2. ASSUME NEW n \in Node, NEW h \in Hash, Delete(n, h)
      PROVE  JobPure(r)'
  <2>1. \A m \in Node : JobGood(r, n, Relinked(n, h, Erased)[m])
    BY <1>1, JobGoodIsPure, RelinkedIsGood
  <2>2. \A l \in Node : job'[l] = IF l = n THEN Relinked(n, h, Erased) ELSE job[l]
    BY <1>1, <1>2 DEF Delete, JobOK
  <2>3. QED
    BY <1>1, <2>1, <2>2 DEF JobPure, JobGood
<1>3. CASE UNCHANGED job
  BY <1>1, <1>3 DEF JobPure
<1>4. QED
  BY <1>2, <1>3, ProviderJobs, RequesterJobs DEF Next, vars, Loop, Ask, Watch, Breaks, Deactivates

--------------------------------------------------------------------------------
\* The wire from the provider of a clean request to its requester.
LEMMA PlainIsGenuine ==
  ASSUME NEW r \in Req, NEW id \in Id, NEW k \in Nat
  PROVE  /\ \A h \in Hash : REQ(id, h) \in Genuine(r) /\ OFFER(id, h, k) \in Genuine(r)
         /\ \A s \in Statuses : ACK(id, s, k) \in Genuine(r)
BY DEF Genuine, REQ, OFFER, ACK, Messages

LEMMA SentStaysPure ==
  ASSUME NEW w \in Wires, NEW r \in Req, NEW n \in Node, NEW m \in Node, NEW ms,
         request[r].by \in Node, request[r].from \in Node,
         w[request[r].by][request[r].from] \in Seq(Genuine(r)),
         n = request[r].from /\ m = request[r].by => ms \in Seq(Genuine(r))
  PROVE  Sent(w, n, m, ms)[request[r].by][request[r].from] \in Seq(Genuine(r))
<1> DEFINE a == request[r].by
           b == request[r].from
<1>1. w \in [Node -> [Node -> Seq(Messages)]]
  BY DEF Wires
<1>2. CASE n = b /\ m = a
  <2>1. w[a][b] \o ms \in Seq(Genuine(r))
    BY <1>2, ConcatProperties
  <2>2. QED
    BY <1>1, <1>2, <2>1 DEF Sent
<1>3. CASE ~(n = b /\ m = a)
  BY <1>1, <1>3 DEF Sent
<1>4. QED
  BY <1>2, <1>3

LEMMA AnswersStaysPure ==
  ASSUME wire \in Wires, NEW r \in Req, WirePure(r), NEW n \in Node, NEW m \in Node,
         request[r].by \in Node, request[r].from \in Node, request' = request,
         wire[n][m] # <<>>, NEW ms \in Seq(Genuine(r)), Answers(n, m, ms)
  PROVE  WirePure(r)'
<1> DEFINE w == [wire EXCEPT ![n][m] = Tail(@)]
<1>1. w \in Wires
  BY HeadKeeps
<1>2. w[request[r].by][request[r].from] \in Seq(Genuine(r))
  BY DEF WirePure, Wires
<1>3. wire' = Sent(w, n, m, ms)
  BY DEF Answers
<1>4. Genuine(r)' = Genuine(r)
  BY DEF Genuine
<1> HIDE DEF w
<1>5. QED
  BY <1>1, <1>2, <1>3, <1>4, SentStaysPure DEF WirePure

LEMMA SendsStaysPure ==
  ASSUME wire \in Wires, NEW r \in Req, WirePure(r), NEW n \in Node, NEW m \in Node,
         request[r].by \in Node, request[r].from \in Node, request' = request,
         NEW ms, Sends(n, m, ms),
         n = request[r].from /\ m = request[r].by => ms \in Seq(Genuine(r))
  PROVE  WirePure(r)'
<1>1. Genuine(r)' = Genuine(r)
  BY DEF Genuine
<1>2. QED
  BY <1>1, SentStaysPure DEF WirePure, Sends

LEMMA ProviderWire ==
  ASSUME Whole, NEW r \in Req, Clean(r), NEW n \in Node, NEW m \in Node, Provider(n, m)
  PROVE  WirePure(r)'
<1>1. /\ Inv /\ Tables /\ JobOK /\ wire \in Wires /\ WirePure(r) /\ JobPure(r)
      /\ request[r].by \in Node /\ request[r].from \in Node
  BY DEF Whole, Inv, Tables, PureInv, Pure
<1>2. request' = request
  BY DEF Provider, NotFound, Offers, SendChunk, Acked, Retransmits
<1>3. CASE NotFound(n, m)
  <2>1. Msg(n, m).id \in Id /\ wire[n][m] # <<>>
    BY <1>1, <1>3, NextMessage DEF NotFound
  <2>2. <<ACK(Msg(n, m).id, "NOT_FOUND", 0)>> \in Seq(Genuine(r))
    BY <2>1, PlainIsGenuine DEF Statuses
  <2>3. QED
    BY <1>1, <1>2, <1>3, <2>1, <2>2, AnswersStaysPure DEF NotFound
<1>4. CASE Offers(n, m)
  <2> DEFINE q == Msg(n, m)
             x == OFFER(q.id, q.hash, Count(n, q.hash))
  <2>1. q \in Messages /\ q.type = "REQ" /\ q.id \in Id /\ wire[n][m] # <<>>
    BY <1>1, <1>4, NextMessage DEF Offers
  <2>2. q.hash \in Hash
    BY <2>1 DEF Messages
  <2>3. Count(n, q.hash) \in Nat
    BY <2>2, ChunksAssumption DEF Count
  <2>4. <<x>> \in Seq(Genuine(r))
    BY <2>1, <2>2, <2>3, PlainIsGenuine
  <2>5. QED
    BY <1>1, <1>2, <1>4, <2>1, <2>4, AnswersStaysPure DEF Offers
<1>5. CASE SendChunk(n, m)
  <2> DEFINE j == job[n][m]
             ms == IF blob[n][j.hash] = "none" THEN <<>>
                   ELSE <<CHUNK(j.id, j.next, Content(n, j.hash))>>
  <2>1. j \in [do : {"stream"}, id : Id, hash : Hash, next : Nat, last : Nat]
    BY <1>1, <1>5, JobKinds DEF SendChunk
  <2>2. ASSUME n = request[r].from
        PROVE  ms \in Seq(Genuine(r))
    <3>1. blob[n][j.hash] \in {"none", "whole"}
      BY <1>1, <2>1, <2>2 DEF Clean, Whole, Disciplined, Sound
    <3>2. j.id = request[r].id => j.hash = request[r].hash
      BY <1>1, <1>5, <2>2 DEF JobPure, SendChunk
    <3>3. blob[n][j.hash] # "none" => CHUNK(j.id, j.next, Content(n, j.hash)) \in Genuine(r)
      BY <2>1, <3>1, <3>2 DEF Content, CHUNK, Genuine, Messages
    <3>4. QED
      BY <3>3
  <2>3. Sends(n, m, ms)
    BY <1>5 DEF SendChunk
  <2> HIDE DEF ms
  <2>4. QED
    BY <1>1, <1>2, <2>2, <2>3, SendsStaysPure
<1>6. CASE Acked(n, m) \/ Retransmits(n, m)
  <2>1. wire[n][m] # <<>> /\ Answers(n, m, <<>>)
    BY <1>6 DEF Acked, Retransmits, Handles
  <2>2. QED
    BY <1>1, <1>2, <2>1, EmptySeq, AnswersStaysPure
<1>7. QED
  BY <1>3, <1>4, <1>5, <1>6 DEF Provider

LEMMA RequesterWire ==
  ASSUME Whole, NEW r \in Req, Clean(r), NEW n \in Node, NEW m \in Node, Requester(n, m)
  PROVE  WirePure(r)'
<1>1. /\ Inv /\ Tables /\ JobOK /\ wire \in Wires /\ WirePure(r)
      /\ request[r].by \in Node /\ request[r].from \in Node
  BY DEF Whole, Inv, Tables, PureInv, Pure
<1>2. request' = request
  BY DEF Requester, HandleOffer, HandleChunk, CreateFile, WriteFile, Stored, NotStored,
     RemoveTransfer
<1>3. <<>> \in Seq(Genuine(r))
  BY EmptySeq
<1>4. CASE HandleOffer(n, m)
  <2>1. Msg(n, m).id \in Id /\ wire[n][m] # <<>>
    BY <1>1, <1>4, NextMessage DEF HandleOffer
  <2>2. <<ACK(Msg(n, m).id, "REJECTED", 0)>> \in Seq(Genuine(r))
    BY <2>1, PlainIsGenuine DEF Statuses
  <2>3. QED
    BY <1>1, <1>2, <1>3, <1>4, <2>1, <2>2, AnswersStaysPure DEF HandleOffer
<1>5. CASE HandleChunk(n, m)
  <2>1. wire[n][m] # <<>> /\ Answers(n, m, <<>>)
    BY <1>5 DEF HandleChunk, Handles
  <2>2. QED
    BY <1>1, <1>2, <1>3, <2>1, AnswersStaysPure
<1>6. CASE Stored(n, m) \/ NotStored(n, m)
  <2> DEFINE j == job[n][m]
  <2>1. j.id \in Id /\ j.count \in Nat
    BY <1>1, <1>6, JobKinds DEF Stored, NotStored, FileSteps
  <2>2. /\ <<ACK(j.id, "COMPLETE", 0)>> \in Seq(Genuine(r))
        /\ <<ACK(j.id, "RETRANSMIT", j.count)>> \in Seq(Genuine(r))
    BY <2>1, PlainIsGenuine DEF Statuses
  <2>3. PICK ms \in Seq(Genuine(r)) : Sends(n, m, ms)
    BY <1>3, <1>6, <2>2 DEF Stored, NotStored
  <2>4. QED
    BY <1>1, <1>2, <2>3, SendsStaysPure
<1>7. CASE CreateFile(n, m) \/ WriteFile(n, m) \/ RemoveTransfer(n, m)
  BY <1>1, <1>7 DEF CreateFile, WriteFile, RemoveTransfer, WirePure, Genuine
<1>8. QED
  BY <1>4, <1>5, <1>6, <1>7 DEF Requester

LEMMA WireStaysPure ==
  ASSUME Whole, NEW r \in Req, Clean(r), [Next]_vars
  PROVE  WirePure(r)'
<1>1. /\ Inv /\ Tables /\ wire \in Wires /\ WirePure(r) /\ request' = request
      /\ request[r].by \in Node /\ request[r].from \in Node
  BY Touches DEF Whole, Inv, Tables, PureInv, Pure
<1>2. ASSUME NEW s \in Req, Ask(s)
      PROVE  WirePure(r)'
  <2> DEFINE q == request[s]
  <2>1. q.by \in Node /\ q.from \in Node /\ q.id \in Id /\ q.hash \in Hash
    BY <1>1 DEF Tables
  <2>2. <<REQ(q.id, q.hash)>> \in Seq(Genuine(r))
    BY <2>1, PlainIsGenuine
  <2>3. Sends(q.by, q.from, <<REQ(q.id, q.hash)>>)
    BY <1>2 DEF Ask
  <2>4. QED
    BY <1>1, <2>1, <2>2, <2>3, SendsStaysPure
<1>3. ASSUME NEW n \in Node, NEW m \in Node, Breaks(n, m)
      PROVE  WirePure(r)'
  <2> DEFINE a == request[r].by
             b == request[r].from
             w == wire[a][b]
  <2>1. wire \in [Node -> [Node -> Seq(Messages)]] /\ w \in Seq(Genuine(r))
    BY <1>1 DEF Wires, WirePure
  <2>2. wire'[a][b] = w \/ \E k \in 0 .. Len(w) : wire'[a][b] = SubSeq(w, 1, k)
    <3>1. n # m
      BY <1>3, NamesAssumption DEF Breaks
    <3>2. PICK k \in 0 .. Len(wire[n][m]), l \in 0 .. Len(wire[m][n]) :
            wire' = [wire EXCEPT ![n][m] = SubSeq(@, 1, k), ![m][n] = SubSeq(@, 1, l)]
      BY <1>3 DEF Breaks
    <3>3. QED
      BY <1>1, <2>1, <3>1, <3>2
  <2>3. \A k \in 0 .. Len(w) : SubSeq(w, 1, k) \in Seq(Genuine(r))
    <3> SUFFICES ASSUME NEW k \in 0 .. Len(w)
                 PROVE  SubSeq(w, 1, k) \in Seq(Genuine(r))
      OBVIOUS
    <3> HIDE DEF w
    <3>1. w \in Seq(Genuine(r)) /\ Len(w) \in Nat /\ k \in Nat /\ k <= Len(w)
      BY <2>1
    <3>2. ASSUME NEW i \in 1 .. k
          PROVE  w[i] \in Genuine(r)
      BY <3>1, i \in 1 .. Len(w), ElementOfSeq
    <3>3. QED
      BY <3>1, <3>2, SubSeqProperties
  <2>4. wire'[a][b] \in Seq(Genuine(r))
    BY <2>1, <2>2, <2>3
  <2>5. QED
    BY <1>1, <2>4 DEF WirePure, Genuine
<1>4. CASE UNCHANGED wire
  BY <1>1, <1>4 DEF WirePure, Genuine
<1>5. QED
  BY <1>2, <1>3, <1>4, ProviderWire, RequesterWire
     DEF Next, vars, Loop, Watch, Delete, Deactivates

--------------------------------------------------------------------------------
\* What capabilities hear.
Heard(r) == {e \in Events : e.id = request[r].id => e = Success(r)}

LEMMA EmitsStaysPure ==
  ASSUME Tables, NEW r \in Req, EventsPure(r), NEW n \in Node, NEW e \in Events, Emits(n, e),
         n = request[r].by => e \in Heard(r), request' = request, told' = told
  PROVE  EventsPure(r)'
<1> DEFINE a == request[r].by
<1>1. /\ a \in Node /\ events \in [Node -> Seq(Events)] /\ events[a] \in Seq(Heard(r))
      /\ Heard(r)' = Heard(r)
  BY DEF Tables, EventsPure, Heard, Success
<1>2. events'[a] \in Seq(Heard(r))
  <2>1. CASE n = a
    <3>1. Append(events[a], e) \in Seq(Heard(r))
      BY <1>1, <2>1, AppendProperties
    <3>2. QED
      BY <1>1, <2>1, <3>1 DEF Emits
  <2>2. CASE n # a
    BY <1>1, <2>2 DEF Emits
  <2>3. QED
    BY <2>1, <2>2
<1>3. events'[request'[r].by] \in Seq(Heard(r)')
  BY <1>1, <1>2
<1>4. QED
  BY <1>3 DEF EventsPure, Heard, Success

LEMMA EventsStayPure ==
  ASSUME Whole, NEW r \in Req, Clean(r), [Next]_vars
  PROVE  EventsPure(r)'
<1> DEFINE a == request[r].by
<1>1. /\ Inv /\ Tables /\ Strangers /\ EventsPure(r) /\ CallbackOwn(r) /\ request' = request
      /\ a \in Node /\ request[r].from \in Node /\ request[r].id \in Id
      /\ events \in [Node -> Seq(Events)] /\ events[a] \in Seq(Heard(r))
  BY Touches DEF Whole, Inv, Tables, PureInv, Pure, EventsPure, Heard
<1>2. ASSUME NEW n \in Node, Watch(n)
      PROVE  EventsPure(r)'
  <2> DEFINE e == Head(events[n])
  <2>1. e \in Events /\ events[n] # <<>>
    BY <1>1, <1>2 DEF Watch
  <2>2. events'[a] \in Seq(Heard(r))
    BY <1>1, <1>2 DEF Watch
  <2>3. \A x \in told'[r] : x = Success(r)
    <3>1. CASE callback[n][e.id] = r
      <4>1. n = a /\ e.id = request[r].id
        BY <1>1, <2>1, <3>1 DEF CallbackOwn, Events
      <4>2. e \in Heard(r)
        BY <1>1, <2>1, <4>1
      <4>3. e = Success(r)
        BY <4>1, <4>2 DEF Heard
      <4>4. told'[r] \subseteq told[r] \cup {e}
        BY <1>1, <1>2 DEF Watch, Tables
      <4>5. QED
        BY <1>1, <4>3, <4>4 DEF EventsPure
    <3>2. CASE callback[n][e.id] # r
      <4>1. told'[r] = told[r]
        BY <1>1, <1>2, <3>2 DEF Watch, Tables
      <4>2. QED
        BY <1>1, <4>1 DEF EventsPure
    <3>3. QED
      BY <3>1, <3>2
  <2>4. QED
    BY <1>1, <2>2, <2>3 DEF EventsPure, Heard, Success
<1>3. ASSUME NEW n \in Node, NEW m \in Node, NotFound(n, m)
      PROVE  EventsPure(r)'
  <2> DEFINE q == Msg(n, m)
             e == Event(q.id, q.hash, "Failed")
  <2>1. q \in Messages /\ Fits(n, m, q) /\ q.type = "REQ" /\ q.id \in Id
    BY <1>1, <1>3, NextMessage DEF NotFound
  <2>2. e \in Events /\ e.id = q.id
    BY <2>1 DEF Event, Events, Messages
  <2>3. n = a => q.id # request[r].id
    BY <1>1, <2>1, OwnId, ZenonT(40) DEF Fits
  <2>4. Emits(n, e) /\ told' = told
    BY <1>3 DEF NotFound, bridge
  <2> HIDE DEF e
  <2>5. QED
    BY <1>1, <2>2, <2>3, <2>4, EmitsStaysPure DEF Heard
<1>4. ASSUME NEW n \in Node, NEW m \in Node, Stored(n, m)
      PROVE  EventsPure(r)'
  <2> DEFINE j == job[n][m]
             e == Event(j.id, j.hash, "Complete")
  <2>1. j.id \in Id /\ j.hash \in Hash /\ (Apart(n) => Asked(n, m, j.id, j.hash))
    BY <1>1, <1>4, JobKinds DEF Stored, FileSteps, Inv
  <2>2. e \in Events /\ e.id = j.id
    BY <2>1 DEF Event, Events
  <2>3. n = a /\ j.id = request[r].id => j.hash = request[r].hash
    BY <1>1, <2>1, OwnId DEF Clean
  <2>4. Emits(n, e) /\ told' = told
    BY <1>4 DEF Stored, bridge
  <2>5. n = a => e \in Heard(r)
    BY <2>2, <2>3 DEF Heard, Success, Event
  <2> HIDE DEF e
  <2>6. QED
    BY <1>1, <2>2, <2>4, <2>5, EmitsStaysPure
<1>5. ASSUME NEW n \in Node, NEW m \in Node, NotStored(n, m)
      PROVE  EventsPure(r)'
  <2> DEFINE j == job[n][m]
             e == Event(j.id, j.hash, "Failed")
  <2>1. j.id \in Id /\ j.hash \in Hash
    BY <1>1, <1>5, JobKinds DEF NotStored, FileSteps, Inv
  <2>2. e \in Events /\ e.id = j.id
    BY <2>1 DEF Event, Events
  <2>3. n = a => j.id # request[r].id
    BY <1>5, NeverRetried
  <2>4. told' = told /\ (Emits(n, e) \/ UNCHANGED events)
    BY <1>5 DEF NotStored, bridge
  <2>5. n = a => e \in Heard(r)
    BY <2>2, <2>3 DEF Heard
  <2> HIDE DEF e
  <2>6. CASE Emits(n, e)
    BY <1>1, <2>2, <2>4, <2>5, <2>6, EmitsStaysPure
  <2>7. CASE UNCHANGED events
    BY <1>1, <2>4, <2>7 DEF EventsPure, Success
  <2>8. QED
    BY <2>4, <2>6, <2>7
<1>6. CASE UNCHANGED <<events, told>>
  BY <1>1, <1>6 DEF EventsPure, Success
<1>7. ASSUME NEW n \in Node, NEW m \in Node, Loop(n, m)
      PROVE  EventsPure(r)'
  BY <1>3, <1>4, <1>5, <1>6, <1>7 DEF Loop, Provider, Requester, Offers, SendChunk, Acked,
     Retransmits, HandleOffer, HandleChunk, CreateFile, WriteFile, RemoveTransfer, bridge
<1>8. QED
  BY <1>2, <1>6, <1>7 DEF Next, vars, Ask, Delete, Breaks, Deactivates, bridge

LEMMA CallbackStaysOwn ==
  ASSUME Whole, NEW r \in Req, CallbackOwn(r), [Next]_vars
  PROVE  CallbackOwn(r)'
<1>1. /\ request' = request /\ callback \in [Node -> [Id -> Req \cup {NoReq}]]
      /\ \A s \in Req : request[s].by \in Node /\ request[s].id \in Id
      /\ \A n \in Node : events[n] # <<>> => Head(events[n]).id \in Id
  <2>1. /\ Tables /\ request' = request
    BY Touches DEF Whole, Inv
  <2>2. callback \in [Node -> [Id -> Req \cup {NoReq}]] /\ events \in [Node -> Seq(Events)]
    BY <2>1 DEF Tables
  <2>3. \A s \in Req : request[s].by \in Node /\ request[s].id \in Id
    BY <2>1 DEF Tables
  <2>4. ASSUME NEW n \in Node, events[n] # <<>>
        PROVE  Head(events[n]).id \in Id
    <3>1. events[n] \in Seq(Events)
      BY <2>2
    <3>2. Head(events[n]) \in Events
      BY <2>4, <3>1
    <3>3. QED
      BY <3>2 DEF Events
  <2>5. QED
    BY <2>1, <2>2, <2>3, <2>4
<1>2. ASSUME NEW s \in Req, Ask(s)
      PROVE  CallbackOwn(r)'
  BY <1>1, <1>2 DEF Ask, CallbackOwn
<1>3. ASSUME NEW n \in Node, Watch(n)
      PROVE  CallbackOwn(r)'
  BY <1>1, <1>3, NamesAssumption DEF Watch, CallbackOwn
<1>4. CASE UNCHANGED callback
  BY <1>1, <1>4 DEF CallbackOwn
<1>5. ASSUME NEW n \in Node, NEW m \in Node, Loop(n, m)
      PROVE  UNCHANGED callback
  BY <1>5 DEF Loop, Provider, Requester, NotFound, Offers, SendChunk, Acked, Retransmits,
     HandleOffer, HandleChunk, CreateFile, WriteFile, Stored, NotStored, RemoveTransfer, bridge
<1>6. QED
  BY <1>2, <1>3, <1>4, <1>5 DEF Next, vars, Delete, Breaks, Deactivates, bridge

\* A request whose id and blob are its own never meets the chunks, the retries or the
\* failures of another one (blob.rs keys its tables by the id alone, the store its
\* files by the hash alone).
THEOREM CleanIsIsolated == Spec => []Isolation
<1>1. Init => PureInv
  <2> SUFFICES ASSUME Init, NEW r \in Req
               PROVE  request[r].by # request[r].from /\ Pure(r)
    BY DEF PureInv, Strangers
  <2>1. Inv
    BY InitHolds
  <2>2. request[r].by \in Node /\ request[r].from \in Node /\ request[r].id \in Id
    BY <2>1 DEF Inv, Tables
  <2>3. InPure(r) /\ OutPure(r) /\ JobPure(r)
    BY <2>2 DEF Init, InPure, OutPure, JobPure, Idle, FileSteps
  <2>4. WirePure(r) /\ EventsPure(r)
    BY <2>2, EmptySeq DEF Init, WirePure, EventsPure
  <2>5. CallbackOwn(r)
    BY NamesAssumption DEF Init, CallbackOwn
  <2>6. QED
    BY <2>3, <2>4, <2>5 DEF Init, Pure
<1>2. Whole /\ [Next]_vars => PureInv'
  <2> SUFFICES ASSUME Whole, [Next]_vars, NEW r \in Req, Clean(r)
               PROVE  Pure(r)'
    BY Touches DEF PureInv, Strangers, Clean, Unshared, Apart, Whole
  <2>1. CallbackOwn(r)
    BY DEF Whole, PureInv, Pure
  <2>2. QED
    BY <2>1, InStaysPure, OutStaysPure, JobStaysPure, WireStaysPure, EventsStayPure,
       CallbackStaysOwn DEF Pure
<1>3. Whole => Isolation
  <2> SUFFICES ASSUME Whole, NEW r \in Req, Clean(r)
               PROVE  LET q == request[r]
                          t == inbound[q.by][q.id]
                      IN
                      /\ t # NoTransfer =>
                           /\ t.peer = q.from /\ t.hash = q.hash /\ t.tries = 0
                           /\ \A i \in DOMAIN t.got : t.got[i] \in {Missing, q.hash}
                      /\ \A e \in told[r] : e = Event(q.id, q.hash, "Complete")
    BY DEF Isolation
  <2>1. /\ Pure(r) /\ Tables /\ Strangers /\ InOK
        /\ request[r].by \in Node /\ request[r].id \in Id
    BY DEF Whole, PureInv, Inv, Tables
  <2> DEFINE t == inbound[request[r].by][request[r].id]
  <2>2. t # NoTransfer => t.peer = request[r].from /\ t.hash = request[r].hash
    <3> SUFFICES ASSUME t # NoTransfer
                 PROVE  t.peer = request[r].from /\ t.hash = request[r].hash
      OBVIOUS
    <3>1. t \in Inbounds /\ Asked(request[r].by, t.peer, request[r].id, t.hash)
      BY <2>1 DEF InOK
    <3>2. t.peer \in Node
      BY <3>1 DEF Inbounds
    <3>3. QED
      BY <2>1, <3>1, <3>2, OwnId
  <2>3. QED
    BY <2>1, <2>2 DEF Pure, InPure, EventsPure, Success
<1>4. Init => Disciplined
  BY DEF Init, Disciplined, Sound, Filed, Idle
<1>5. QED
  BY <1>1, <1>2, <1>3, <1>4, InitHolds, NextKeeps, StaysDisciplined, PTL DEF Spec, Whole

--------------------------------------------------------------------------------
(* The promise: a blob of a node whose requests are apart comes from where one  *)
(* of them says.                                                                *)

\* n has h, unless somebody may have taken it away.
Firmly(n, h) == <<n, h>> \in Firm => blob[n][h] = "whole"

\* What m may send, ...
Truthful(m) == {x \in Messages : x.type = "CHUNK" /\ x.data \in Hash => Firmly(m, x.data)}
Truths == {w \in [Node -> [Node -> Seq(Messages)]] :
             \A n, m \in Node : w[n][m] \in Seq(Truthful(m))}

\* ... what n may have of it in a table or in a loop, ...
GotFrom(m, got) == \A i \in DOMAIN got : got[i] \in Hash => Firmly(m, got[i])
InSourced == \A n \in Node, id \in Id :
  Apart(n) /\ inbound[n][id] # NoTransfer => GotFrom(inbound[n][id].peer, inbound[n][id].got)

JobSourced(n, m, j) == Apart(n) /\ j.do \in FileSteps /\ j.ok => Firmly(m, j.hash)
JobsSourced == \A n, m \in Node : JobSourced(n, m, job[n][m])

\* ... and what its capabilities may hear.
Stated(n, e) ==
  Apart(n) /\ e.status = "Complete" =>
    Firmly(n, e.hash) /\ \E m \in Node : Asked(n, m, e.id, e.hash)
EventsSourced == \A n \in Node : events[n] \in Seq({e \in Events : Stated(n, e)})

CallbackSourced == \A n \in Node, id \in Id :
  LET r == callback[n][id] IN
  r # NoReq => r \in asked /\ request[r].by = n /\ request[r].id = id

Sourced == wire \in Truths /\ InSourced /\ JobsSourced /\ EventsSourced /\ CallbackSourced

Backed == Inv /\ Disciplined /\ Sourced

\* What a step leaves of what was said.
Grows ==
  /\ request' = request /\ asked \subseteq asked' /\ Firm' = Firm
  /\ \A n, h : Firmly(n, h) => Firmly(n, h)'

LEMMA StepGrows ==
  ASSUME Inv, Disciplined, [Next]_vars
  PROVE  Grows
<1>1. request' = request
  BY Touches
<1>2. Firm' = Firm
  BY <1>1 DEF Firm, Apart
<1>3. asked \subseteq asked'
  <2>1. ASSUME NEW n \in Node, NEW m \in Node, Loop(n, m)
        PROVE  UNCHANGED asked
    BY <2>1 DEF Loop, Provider, Requester, NotFound, Offers, SendChunk, Acked, Retransmits,
       HandleOffer, HandleChunk, CreateFile, WriteFile, Stored, NotStored, RemoveTransfer, bridge
  <2>2. QED
    BY <2>1 DEF Next, vars, Ask, Watch, Delete, Breaks, Deactivates, bridge
<1>4. ASSUME NEW n, NEW h, Firmly(n, h), <<n, h>> \in Firm
      PROVE  blob'[n][h] = "whole"
  <2>1. /\ n \in Node /\ h \in Hash /\ Apart(n) /\ <<n, h>> \notin Deletable
        /\ blob[n][h] = "whole" /\ blob \in [Node -> [Hash -> FileStates]]
    BY <1>4 DEF Firmly, Firm, Inv, Tables
  <2>2. ASSUME NEW k \in Node, NEW g \in Hash, Delete(k, g)
        PROVE  blob'[n][h] = "whole"
    BY <2>1, <2>2 DEF Delete
  <2>3. ASSUME NEW k \in Node, NEW m \in Node, WriteFile(k, m)
        PROVE  blob'[n][h] = "whole"
    <3>1. k = n => job[k][m].file = "tmp"
      BY <2>1, <2>3 DEF Disciplined, Sound, Filed, WriteFile
    <3>2. QED
      BY <2>1, <2>3, <3>1 DEF WriteFile
  <2>4. ASSUME NEW k \in Node, NEW m \in Node, Stored(k, m)
        PROVE  blob'[n][h] = "whole"
    <3>1. k = n => tmp[k][job[k][m].hash] = "whole"
      BY <2>1, <2>4 DEF Disciplined, Sound, Filed, Stored, Verified
    <3>2. QED
      BY <2>1, <2>4, <3>1 DEF Stored
  <2>5. CASE UNCHANGED blob
    BY <2>1, <2>5
  <2>6. ASSUME NEW k \in Node, NEW m \in Node, Loop(k, m)
        PROVE  blob'[n][h] = "whole"
    BY <2>3, <2>4, <2>5, <2>6 DEF Loop, Provider, Requester, NotFound, Offers, SendChunk,
       Acked, Retransmits, HandleOffer, HandleChunk, CreateFile, NotStored, RemoveTransfer, store
  <2>7. QED
    BY <2>2, <2>5, <2>6 DEF Next, vars, Ask, Watch, Breaks, Deactivates, store
<1>5. \A n, h : Firmly(n, h) => Firmly(n, h)'
  BY <1>2, <1>4 DEF Firmly
<1>6. QED
  BY <1>1, <1>2, <1>3, <1>5 DEF Grows

\* The wires.
LEMMA TruthsGrow == ASSUME Grows PROVE Truths \subseteq Truths'
<1>1. \A m : Truthful(m) \subseteq Truthful(m)'
  BY DEF Grows, Truthful
<1>2. QED
  BY <1>1, SeqMonotonic DEF Truths

LEMMA SentTrue ==
  ASSUME NEW w \in Truths, NEW n \in Node, NEW m \in Node, NEW ms \in Seq(Truthful(n))
  PROVE  Sent(w, n, m, ms) \in Truths
<1>1. w[m][n] \in Seq(Truthful(n)) /\ w \in [Node -> [Node -> Seq(Messages)]]
  BY DEF Truths
<1>2. w[m][n] \o ms \in Seq(Truthful(n))
  BY <1>1, ConcatProperties
<1>3. w[m][n] \o ms \in Seq(Messages)
  BY <1>2, SeqMonotonic DEF Truthful
<1>4. [w EXCEPT ![m][n] = @ \o ms] \in Truths
  BY <1>1, <1>2, <1>3 DEF Truths
<1>5. QED
  BY <1>4 DEF Sent

\* The next message is true, and so is an answer.
LEMMA HeadTrue ==
  ASSUME wire \in Truths, NEW n \in Node, NEW m \in Node, wire[n][m] # <<>>
  PROVE  Msg(n, m) \in Truthful(m) /\ [wire EXCEPT ![n][m] = Tail(@)] \in Truths
<1>1. wire[n][m] \in Seq(Truthful(m)) /\ wire \in [Node -> [Node -> Seq(Messages)]]
  BY DEF Truths
<1>2. Head(wire[n][m]) \in Truthful(m) /\ Tail(wire[n][m]) \in Seq(Truthful(m))
  BY <1>1
<1>3. Tail(wire[n][m]) \in Seq(Messages)
  BY <1>2, SeqMonotonic DEF Truthful
<1>4. QED
  BY <1>1, <1>2, <1>3 DEF Truths, Msg

LEMMA AnswersTrue ==
  ASSUME wire \in Truths, NEW n \in Node, NEW m \in Node, wire[n][m] # <<>>,
         NEW ms \in Seq(Truthful(n)), Answers(n, m, ms)
  PROVE  wire' \in Truths
BY HeadTrue, SentTrue DEF Answers

LEMMA PlainIsTrue ==
  ASSUME NEW n \in Node, NEW id \in Id, NEW k \in Nat
  PROVE  /\ \A h \in Hash : REQ(id, h) \in Truthful(n) /\ OFFER(id, h, k) \in Truthful(n)
         /\ \A s \in Statuses : ACK(id, s, k) \in Truthful(n)
BY DEF Truthful, REQ, OFFER, ACK, Messages

LEMMA ProviderTrue ==
  ASSUME Backed, NEW n \in Node, NEW m \in Node, Provider(n, m)
  PROVE  wire' \in Truths
<1>1. Inv /\ JobOK /\ wire \in Truths
  BY DEF Backed, Inv, Sourced
<1>2. CASE NotFound(n, m)
  <2>1. Msg(n, m).id \in Id /\ wire[n][m] # <<>>
    BY <1>1, <1>2, NextMessage DEF NotFound
  <2>2. <<ACK(Msg(n, m).id, "NOT_FOUND", 0)>> \in Seq(Truthful(n))
    BY <2>1, PlainIsTrue DEF Statuses
  <2>3. QED
    BY <1>1, <1>2, <2>1, <2>2, AnswersTrue DEF NotFound
<1>3. CASE Offers(n, m)
  <2> DEFINE q == Msg(n, m)
  <2>1. q \in Messages /\ q.type = "REQ" /\ q.id \in Id /\ wire[n][m] # <<>>
    BY <1>1, <1>3, NextMessage DEF Offers
  <2>2. q.hash \in Hash
    BY <2>1 DEF Messages
  <2>3. Count(n, q.hash) \in Nat
    BY <2>2, ChunksAssumption DEF Count
  <2>4. <<OFFER(q.id, q.hash, Count(n, q.hash))>> \in Seq(Truthful(n))
    BY <2>1, <2>2, <2>3, PlainIsTrue
  <2>5. QED
    BY <1>1, <1>3, <2>1, <2>4, AnswersTrue DEF Offers
<1>4. CASE SendChunk(n, m)
  <2> DEFINE j == job[n][m]
             ms == IF blob[n][j.hash] = "none" THEN <<>>
                   ELSE <<CHUNK(j.id, j.next, Content(n, j.hash))>>
  <2>1. j \in [do : {"stream"}, id : Id, hash : Hash, next : Nat, last : Nat]
    BY <1>1, <1>4, JobKinds DEF SendChunk
  <2>2. CHUNK(j.id, j.next, Content(n, j.hash)) \in Truthful(n)
    BY <2>1, NamesAssumption DEF Content, CHUNK, Truthful, Messages, Firmly
  <2>3. ms \in Seq(Truthful(n))
    BY <2>2, EmptySeq
  <2>4. wire' = Sent(wire, n, m, ms)
    BY <1>4 DEF SendChunk, Sends
  <2> HIDE DEF ms
  <2>5. QED
    BY <1>1, <2>3, <2>4, SentTrue
<1>5. CASE Acked(n, m) \/ Retransmits(n, m)
  <2>1. wire[n][m] # <<>> /\ Answers(n, m, <<>>)
    BY <1>5 DEF Acked, Retransmits, Handles
  <2>2. QED
    BY <1>1, <2>1, EmptySeq, AnswersTrue
<1>6. QED
  BY <1>2, <1>3, <1>4, <1>5 DEF Provider

LEMMA RequesterTrue ==
  ASSUME Backed, NEW n \in Node, NEW m \in Node, Requester(n, m)
  PROVE  wire' \in Truths
<1>1. Inv /\ JobOK /\ wire \in Truths /\ <<>> \in Seq(Truthful(n))
  BY EmptySeq DEF Backed, Inv, Sourced
<1>2. CASE HandleOffer(n, m)
  <2>1. Msg(n, m).id \in Id /\ wire[n][m] # <<>>
    BY <1>1, <1>2, NextMessage DEF HandleOffer
  <2>2. <<ACK(Msg(n, m).id, "REJECTED", 0)>> \in Seq(Truthful(n))
    BY <2>1, PlainIsTrue DEF Statuses
  <2>3. QED
    BY <1>1, <1>2, <2>1, <2>2, AnswersTrue DEF HandleOffer
<1>3. CASE HandleChunk(n, m)
  <2>1. wire[n][m] # <<>> /\ Answers(n, m, <<>>)
    BY <1>3 DEF HandleChunk, Handles
  <2>2. QED
    BY <1>1, <2>1, AnswersTrue
<1>4. CASE Stored(n, m) \/ NotStored(n, m)
  <2> DEFINE j == job[n][m]
  <2>1. j.id \in Id /\ j.count \in Nat
    BY <1>1, <1>4, JobKinds DEF Stored, NotStored, FileSteps
  <2>2. /\ <<ACK(j.id, "COMPLETE", 0)>> \in Seq(Truthful(n))
        /\ <<ACK(j.id, "RETRANSMIT", j.count)>> \in Seq(Truthful(n))
    BY <2>1, PlainIsTrue DEF Statuses
  <2>3. PICK ms \in Seq(Truthful(n)) : Sends(n, m, ms)
    BY <1>1, <1>4, <2>2 DEF Stored, NotStored
  <2>4. QED
    BY <1>1, <2>3, SentTrue DEF Sends
<1>5. CASE CreateFile(n, m) \/ WriteFile(n, m) \/ RemoveTransfer(n, m)
  BY <1>1, <1>5 DEF CreateFile, WriteFile, RemoveTransfer
<1>6. QED
  BY <1>2, <1>3, <1>4, <1>5 DEF Requester

LEMMA WireStaysTrue ==
  ASSUME Backed, [Next]_vars
  PROVE  wire' \in Truths'
<1>1. /\ Inv /\ Tables /\ wire \in Truths
      /\ wire \in [Node -> [Node -> Seq(Messages)]]
  BY DEF Backed, Inv, Sourced, Truths
<1>2. ASSUME NEW s \in Req, Ask(s)
      PROVE  wire' \in Truths
  <2> DEFINE q == request[s]
  <2>1. q.by \in Node /\ q.from \in Node /\ q.id \in Id /\ q.hash \in Hash
    BY <1>1 DEF Tables
  <2>2. <<REQ(q.id, q.hash)>> \in Seq(Truthful(q.by))
    BY <2>1, PlainIsTrue
  <2>3. wire' = Sent(wire, q.by, q.from, <<REQ(q.id, q.hash)>>)
    BY <1>2 DEF Ask, Sends
  <2>4. QED
    BY <1>1, <2>1, <2>2, <2>3, SentTrue
<1>3. ASSUME NEW n \in Node, NEW m \in Node, Breaks(n, m)
      PROVE  wire' \in Truths
  <2>1. ASSUME NEW k \in Node, NEW l \in Node, NEW a \in 0 .. Len(wire[k][l])
        PROVE  SubSeq(wire[k][l], 1, a) \in Seq(Truthful(l))
    <3> DEFINE w == wire[k][l]
    <3>1. w \in Seq(Truthful(l)) /\ Len(w) \in Nat /\ a \in Nat /\ a <= Len(w)
      BY <1>1, <2>1 DEF Truths
    <3> HIDE DEF w
    <3>2. ASSUME NEW i \in 1 .. a
          PROVE  w[i] \in Truthful(l)
      BY <3>1, i \in 1 .. Len(w), ElementOfSeq
    <3>3. SubSeq(w, 1, a) \in Seq(Truthful(l))
      BY <3>1, <3>2, SubSeqProperties
    <3>4. QED
      BY <3>3 DEF w
  <2>2. n # m
    BY <1>3, NamesAssumption DEF Breaks
  <2>3. PICK a \in 0 .. Len(wire[n][m]), b \in 0 .. Len(wire[m][n]) :
          wire' = [wire EXCEPT ![n][m] = SubSeq(@, 1, a), ![m][n] = SubSeq(@, 1, b)]
    BY <1>3 DEF Breaks
  <2>4. /\ SubSeq(wire[n][m], 1, a) \in Seq(Truthful(m)) \cap Seq(Messages)
        /\ SubSeq(wire[m][n], 1, b) \in Seq(Truthful(n)) \cap Seq(Messages)
    BY <2>1, SeqMonotonic DEF Truthful
  <2>5. QED
    BY <1>1, <2>2, <2>3, <2>4 DEF Truths
<1>4. wire' \in Truths
  BY <1>1, <1>2, <1>3, ProviderTrue, RequesterTrue
     DEF Next, vars, Loop, Watch, Delete, Deactivates
<1>5. QED
  BY <1>1, <1>4, StepGrows, TruthsGrow DEF Backed

\* A chunk is of what its sender has; and it was sent by the one that was asked.
LEMMA ChunkIsSourced ==
  ASSUME Backed, NEW n \in Node, NEW m \in Node, Apart(n), HandleChunk(n, m),
         inbound[n][Msg(n, m).id] # NoTransfer
  PROVE  /\ inbound[n][Msg(n, m).id].peer = m
         /\ Msg(n, m).data \in Hash => Firmly(m, Msg(n, m).data)
<1> DEFINE c == Msg(n, m)
           t == inbound[n][c.id]
<1>1. /\ Inv /\ Tables /\ Fits(n, m, c) /\ c.type = "CHUNK" /\ c.id \in Id
      /\ wire[n][m] # <<>> /\ wire \in Truths
  BY NextMessage DEF HandleChunk, Backed, Inv, Sourced
<1>2. t \in Inbounds /\ Asked(n, t.peer, c.id, t.hash)
  BY <1>1 DEF Inv, InOK
<1>3. PICK h \in Hash : Asked(n, m, c.id, h)
  BY <1>1 DEF Fits, AskedId
<1>4. t.peer \in Node
  BY <1>2 DEF Inbounds
<1>5. t.peer = m
  BY <1>1, <1>2, <1>3, <1>4, OneRequest
<1>6. c \in Truthful(m)
  BY <1>1, HeadTrue
<1>7. QED
  BY <1>1, <1>5, <1>6 DEF Truthful

\* The tables.
LEMMA InStaysSourced ==
  ASSUME Backed, [Next]_vars
  PROVE  InSourced'
<1>1. /\ Inv /\ InSourced /\ Grows /\ inbound \in [Node -> [Id -> Inbounds \cup {NoTransfer}]]
  BY StepGrows DEF Backed, Inv, InOK, Sourced
<1>2. \A m, got : GotFrom(m, got) => GotFrom(m, got)'
  BY <1>1 DEF Grows, GotFrom
<1>3. \A n : Apart(n)' <=> Apart(n)
  BY <1>1 DEF Grows, Apart
<1>4. ASSUME \A n \in Node, id \in Id :
        \/ inbound'[n][id] \in {inbound[n][id], NoTransfer}
        \/ Apart(n) => GotFrom(inbound'[n][id].peer, inbound'[n][id].got)
      PROVE  InSourced'
  <2>1. ASSUME NEW n \in Node, NEW id \in Id, Apart(n), inbound'[n][id] # NoTransfer
        PROVE  \A i \in DOMAIN inbound'[n][id].got : inbound'[n][id].got[i] \in Hash =>
                 (<<inbound'[n][id].peer, inbound'[n][id].got[i]>> \in Firm' =>
                    blob'[inbound'[n][id].peer][inbound'[n][id].got[i]] = "whole")
    <3>1. GotFrom(inbound'[n][id].peer, inbound'[n][id].got)
      BY <1>1, <1>4, <2>1 DEF InSourced
    <3>2. PICK m, got : m = inbound'[n][id].peer /\ got = inbound'[n][id].got
      OBVIOUS
    <3>3. GotFrom(m, got)'
      BY <1>2, <3>1, <3>2
    <3>4. QED
      BY <3>2, <3>3 DEF GotFrom, Firmly
  <2>2. QED
    BY <1>3, <2>1 DEF InSourced, GotFrom, Firmly
<1>5. ASSUME NEW n \in Node, NEW m \in Node, HandleOffer(n, m)
      PROVE  InSourced'
  <2> DEFINE o == Msg(n, m)
             t == NewInbound(m, o.hash, o.count)
  <2>1. o \in Messages /\ o.type = "OFFER" /\ o.id \in Id
    BY <1>1, <1>5, NextMessage DEF HandleOffer
  <2>2. GotFrom(t.peer, t.got)
    BY <2>1, NamesAssumption DEF GotFrom, NewInbound, Messages
  <2>3. UNCHANGED inbound \/ inbound' = [inbound EXCEPT ![n][o.id] = t]
    BY <1>5 DEF HandleOffer
  <2> HIDE DEF t
  <2>4. QED
    BY <1>1, <1>4, <2>1, <2>2, <2>3
<1>6. ASSUME NEW n \in Node, NEW m \in Node, HandleChunk(n, m)
      PROVE  InSourced'
  <2> DEFINE c == Msg(n, m)
             t == inbound[n][c.id]
             got == [t.got EXCEPT ![c.index] = c.data]
  <2>1. CASE UNCHANGED inbound
    BY <1>4, <2>1
  <2>2. CASE ~UNCHANGED inbound
    <3>1. c.id \in Id
      BY <1>1, <1>6, NextMessage DEF HandleChunk
    <3>2. t # NoTransfer /\ inbound' = [inbound EXCEPT ![n][c.id].got = got]
      BY <1>6, <2>2 DEF HandleChunk
    <3>3. t \in Inbounds
      BY <1>1, <3>1, <3>2
    <3>4. inbound' = [inbound EXCEPT ![n][c.id] = [t EXCEPT !.got = got]]
      BY <1>1, <3>1, <3>2
    <3>5. [t EXCEPT !.got = got].peer = t.peer /\ [t EXCEPT !.got = got].got = got
      BY <3>3 DEF Inbounds
    <3>6. ASSUME Apart(n)
          PROVE  GotFrom(t.peer, got)
      <4>1. GotFrom(t.peer, t.got)
        BY <1>1, <3>1, <3>2, <3>6 DEF InSourced
      <4>2. t.peer = m /\ (c.data \in Hash => Firmly(m, c.data))
        BY <1>6, <3>2, <3>6, ChunkIsSourced
      <4>3. QED
        BY <4>1, <4>2 DEF GotFrom
    <3> HIDE DEF got
    <3>7. QED
      BY <1>1, <1>4, <3>1, <3>4, <3>5, <3>6
  <2>3. QED
    BY <2>1, <2>2
<1>7. ASSUME NEW n \in Node, NEW m \in Node, NotStored(n, m)
      PROVE  InSourced'
  <2> DEFINE j == job[n][m]
             t == inbound[n][j.id]
  <2>1. j.id \in Id
    BY <1>1, <1>7, JobKinds DEF NotStored, FileSteps, Inv
  <2>2. inbound' = [inbound EXCEPT ![n][j.id] =
          IF t = NoTransfer \/ GivenUp(t) THEN NoTransfer ELSE Attempt(t)]
    BY <1>7 DEF NotStored
  <2>3. ASSUME t # NoTransfer
        PROVE  GotFrom(Attempt(t).peer, Attempt(t).got)
    <3>1. t \in Inbounds
      BY <1>1, <2>1, <2>3
    <3>2. Attempt(t).got = [i \in DOMAIN t.got |-> Missing]
      BY <3>1 DEF Attempt, Inbounds
    <3>3. QED
      BY <3>2, NamesAssumption DEF GotFrom
  <2>4. QED
    BY <1>1, <1>4, <2>1, <2>2, <2>3
<1>8. ASSUME NEW n \in Node, NEW m \in Node, RemoveTransfer(n, m) \/ Deactivates(n, m)
      PROVE  InSourced'
  <2>1. \A k \in Node, id \in Id : inbound'[k][id] \in {inbound[k][id], NoTransfer}
    <3>1. CASE RemoveTransfer(n, m)
      <4>1. job[n][m].id \in Id
        BY <1>1, <3>1, JobKinds DEF RemoveTransfer, Inv
      <4>2. QED
        BY <1>1, <3>1, <4>1 DEF RemoveTransfer
    <3>2. CASE Deactivates(n, m)
      BY <1>1, <3>2 DEF Deactivates
    <3>3. QED
      BY <1>8, <3>1, <3>2
  <2>2. QED
    BY <1>4, <2>1
<1>9. CASE UNCHANGED inbound
  BY <1>4, <1>9
<1>10. QED
  BY <1>5, <1>6, <1>7, <1>8, <1>9, Touches

\* The loops.
LEMMA JobsGrow ==
  ASSUME Backed, Grows, \A n, m \in Node : JobSourced(n, m, job'[n][m])
  PROVE  JobsSourced'
<1>1. ASSUME NEW n \in Node, NEW m \in Node, Apart(n), job'[n][m].do \in FileSteps, job'[n][m].ok
      PROVE  <<m, job'[n][m].hash>> \in Firm' => blob'[m][job'[n][m].hash] = "whole"
  <2>1. PICK h : h = job'[n][m].hash
    OBVIOUS
  <2>2. Firmly(m, h)
    BY <1>1, <2>1 DEF JobSourced
  <2>3. Firmly(m, h)'
    BY <2>2 DEF Grows
  <2>4. QED
    BY <2>1, <2>3 DEF Firmly
<1>2. \A n : Apart(n)' <=> Apart(n)
  BY DEF Grows, Apart
<1>3. QED
  BY <1>1, <1>2 DEF JobsSourced, JobSourced, Firmly

LEMMA DoesSourced ==
  ASSUME Backed, Grows, NEW n \in Node, NEW m \in Node, NEW j,
         Does(n, m, j), JobSourced(n, m, j)
  PROVE  JobsSourced'
<1>1. job \in [Node -> [Node -> Jobs]] /\ \A k, l \in Node : JobSourced(k, l, job[k][l])
  BY DEF Backed, Inv, JobOK, Sourced, JobsSourced
<1>2. job'[n][m] = j /\ \A k, l \in Node : <<k, l>> # <<n, m>> => job'[k][l] = job[k][l]
  BY <1>1 DEF Does
<1>3. \A k, l \in Node : JobSourced(k, l, job'[k][l])
  BY <1>1, <1>2
<1>4. QED
  BY <1>3, JobsGrow

\* A job that writes no blob says nothing.
LEMMA QuietSourced ==
  ASSUME NEW n, NEW m, NEW j, j.do \notin FileSteps PROVE JobSourced(n, m, j)
BY DEF JobSourced

LEMMA RelinkedSourced ==
  ASSUME Backed, NEW n \in Node, NEW h \in Hash, NEW to \in {Renamed, Unlinked, Erased},
         NEW m \in Node
  PROVE  JobSourced(n, m, Relinked(n, h, to)[m])
<1> DEFINE j == job[n][m]
<1>1. JobSourced(n, m, j) /\ JobOK
  BY DEF Backed, Inv, Sourced, JobsSourced
<1>2. CASE j.do \in FileSteps
  <2>1. j \in [do : FileSteps, id : Id, hash : Hash, count : Nat, ok : BOOLEAN,
               file : {"tmp", "blob", "gone"}]
    BY <1>1, <1>2, JobKinds
  <2>2. [j EXCEPT !.file = to[@]].do = j.do /\ [j EXCEPT !.file = to[@]].ok = j.ok
        /\ [j EXCEPT !.file = to[@]].hash = j.hash
    BY <2>1
  <2>3. QED
    BY <1>1, <2>2 DEF Relinked, JobSourced
<1>3. CASE j.do \notin FileSteps
  BY <1>1, <1>3 DEF Relinked
<1>4. QED
  BY <1>2, <1>3

\* A blob that is put together of chunks is of what they are of.
LEMMA WriterSourced ==
  ASSUME Backed, Grows, NEW n \in Node, NEW m \in Node, HandleChunk(n, m)
  PROVE  JobsSourced'
<1> DEFINE c == Msg(n, m)
           t == inbound[n][c.id]
           got == [t.got EXCEPT ![c.index] = c.data]
           ok == \A i \in DOMAIN got : got[i] = t.hash
           j == Writer(c.id, t.hash, Len(got), ok)
<1>1. Inv /\ InSourced /\ \A k, l \in Node : JobSourced(k, l, job[k][l])
  BY DEF Backed, Sourced, JobsSourced
<1>2. c.id \in Id
  BY <1>1, NextMessage DEF HandleChunk
<1>3. CASE UNCHANGED job
  BY <1>1, <1>3, JobsGrow
<1>4. CASE Does(n, m, Idle)
  BY <1>4, QuietSourced, DoesSourced DEF Idle, FileSteps
<1>5. CASE t # NoTransfer /\ c.index \in DOMAIN t.got /\ Does(n, m, j)
  <2>1. ASSUME Apart(n), ok
        PROVE  Firmly(m, t.hash)
    <3>1. t \in Inbounds
      BY <1>1, <1>2, <1>5 DEF Inv, InOK
    <3>2. got[c.index] = c.data /\ c.index \in DOMAIN got
      BY <1>5
    <3>3. c.data = t.hash /\ t.hash \in Hash
      BY <2>1, <3>1, <3>2 DEF Inbounds
    <3>4. QED
      BY <1>5, <2>1, <3>3, ChunkIsSourced
  <2>2. j.ok = ok /\ j.hash = t.hash
    BY DEF Writer
  <2>3. JobSourced(n, m, j)
    <3> HIDE DEF j, ok
    <3>1. QED
      BY <2>1, <2>2 DEF JobSourced
  <2>4. QED
    BY <1>5, <2>3, DoesSourced
<1>6. QED
  BY <1>3, <1>4, <1>5 DEF HandleChunk

LEMMA JobsStaySourced ==
  ASSUME Backed, [Next]_vars
  PROVE  JobsSourced'
<1>1. /\ Grows /\ Inv /\ JobOK /\ job \in [Node -> [Node -> Jobs]]
      /\ \A k, l \in Node : JobSourced(k, l, job[k][l])
  BY StepGrows DEF Backed, Inv, JobOK, Sourced, JobsSourced
<1>2. ASSUME NEW n \in Node, NEW R \in [Node -> Jobs], \A l \in Node : JobSourced(n, l, R[l]),
             job' = [job EXCEPT ![n] = R]
      PROVE  JobsSourced'
  <2>1. \A k, l \in Node : job'[k][l] = IF k = n THEN R[l] ELSE job[k][l]
    BY <1>1, <1>2
  <2>2. \A k, l \in Node : JobSourced(k, l, job'[k][l])
    BY <1>1, <1>2, <2>1
  <2>3. QED
    BY <1>1, <2>2, JobsGrow
<1>3. ASSUME NEW n \in Node, NEW h \in Hash, Delete(n, h)
      PROVE  JobsSourced'
  <2>1. Relinked(n, h, Erased) \in [Node -> Jobs]
    BY <1>1, RelinkKeeps
  <2>2. \A l \in Node : JobSourced(n, l, Relinked(n, h, Erased)[l])
    BY RelinkedSourced
  <2>3. QED
    BY <1>2, <1>3, <2>1, <2>2 DEF Delete
<1>4. ASSUME NEW n \in Node, NEW m \in Node, Loop(n, m)
      PROVE  JobsSourced'
  <2> DEFINE j == job[n][m]
  <2>1. j.do \in FileSteps => j \in [do : FileSteps, id : Id, hash : Hash, count : Nat,
                                    ok : BOOLEAN, file : {"tmp", "blob", "gone"}]
    BY <1>1, JobKinds
  <2>2. JobSourced(n, m, j)
    BY <1>1
  <2>3. CASE NotFound(n, m) \/ Acked(n, m) \/ HandleOffer(n, m)
    <3>1. UNCHANGED job
      BY <2>3 DEF NotFound, Acked, HandleOffer
    <3>2. QED
      BY <1>1, <3>1, JobsGrow
  <2>4. CASE Offers(n, m) \/ SendChunk(n, m) \/ Retransmits(n, m) \/ RemoveTransfer(n, m)
    <3>1. PICK k : Does(n, m, k) /\ k.do \notin FileSteps
      <4>1. CASE Offers(n, m)
        BY <4>1 DEF Offers, Stream, Idle, FileSteps
      <4>2. CASE SendChunk(n, m)
        <5>1. j \in [do : {"stream"}, id : Id, hash : Hash, next : Nat, last : Nat]
          BY <1>1, <4>2, JobKinds DEF SendChunk
        <5>2. Idle.do \notin FileSteps /\ [j EXCEPT !.next = @ + 1].do \notin FileSteps
          BY <5>1 DEF Idle, FileSteps
        <5>3. QED
          BY <4>2, <5>2 DEF SendChunk
      <4>3. CASE Retransmits(n, m)
        BY <4>3 DEF Retransmits, Stream, Idle, FileSteps
      <4>4. CASE RemoveTransfer(n, m)
        BY <4>4 DEF RemoveTransfer, Idle, FileSteps
      <4>5. QED
        BY <2>4, <4>1, <4>2, <4>3, <4>4
    <3>2. QED
      BY <1>1, <3>1, QuietSourced, DoesSourced
  <2>5. CASE HandleChunk(n, m)
    BY <1>1, <2>5, WriterSourced
  <2>6. CASE CreateFile(n, m)
    <3>1. JobSourced(n, m, [j EXCEPT !.do = "write", !.file = "tmp"])
      BY <2>1, <2>2, <2>6 DEF CreateFile, JobSourced, FileSteps
    <3>2. QED
      BY <1>1, <2>6, <3>1, DoesSourced DEF CreateFile
  <2>7. CASE WriteFile(n, m)
    <3>1. JobSourced(n, m, [j EXCEPT !.do = "finalize"])
      BY <2>1, <2>2, <2>7 DEF WriteFile, JobSourced, FileSteps
    <3>2. QED
      BY <1>1, <2>7, <3>1, DoesSourced DEF WriteFile
  <2>8. CASE Stored(n, m)
    <3> DEFINE R == Relinked(n, j.hash, Renamed)
               k == [do |-> "remove", id |-> j.id]
    <3>1. j.hash \in Hash /\ j.id \in Id
      BY <2>1, <2>8 DEF Stored, FileSteps
    <3>2. R \in [Node -> Jobs] /\ \A l \in Node : JobSourced(n, l, R[l])
      BY <1>1, <3>1, RelinkKeeps, RelinkedSourced
    <3>3. k \in Jobs /\ JobSourced(n, m, k)
      BY <3>1, QuietSourced DEF Jobs, FileSteps
    <3>4. job' = [job EXCEPT ![n] = [R EXCEPT ![m] = k]]
      BY <2>8 DEF Stored
    <3> HIDE DEF R, k
    <3>5. [R EXCEPT ![m] = k] \in [Node -> Jobs]
          /\ \A l \in Node : JobSourced(n, l, [R EXCEPT ![m] = k][l])
      BY <3>2, <3>3
    <3>6. QED
      BY <1>2, <3>4, <3>5
  <2>9. CASE NotStored(n, m)
    <3> DEFINE R == IF j.ok THEN job[n] ELSE Relinked(n, j.hash, Unlinked)
    <3>1. j.hash \in Hash
      BY <2>1, <2>9 DEF NotStored, FileSteps
    <3>2. R \in [Node -> Jobs] /\ \A l \in Node : JobSourced(n, l, R[l])
      BY <1>1, <3>1, RelinkKeeps, RelinkedSourced
    <3>3. Idle \in Jobs /\ JobSourced(n, m, Idle)
      BY QuietSourced DEF Jobs, Idle, FileSteps
    <3>4. job' = [job EXCEPT ![n] = [R EXCEPT ![m] = Idle]]
      BY <2>9 DEF NotStored
    <3> HIDE DEF R
    <3>5. [R EXCEPT ![m] = Idle] \in [Node -> Jobs]
          /\ \A l \in Node : JobSourced(n, l, [R EXCEPT ![m] = Idle][l])
      BY <3>2, <3>3
    <3>6. QED
      BY <1>2, <3>4, <3>5
  <2>10. QED
    BY <1>4, <2>3, <2>4, <2>5, <2>6, <2>7, <2>8, <2>9 DEF Loop, Provider, Requester
<1>5. CASE UNCHANGED job
  BY <1>1, <1>5, JobsGrow
<1>6. QED
  BY <1>3, <1>4, <1>5 DEF Next, vars, Ask, Watch, Breaks, Deactivates

\* The events and the callbacks.
LEMMA StatedGrows ==
  ASSUME Grows
  PROVE  \A n, e : Stated(n, e) => Stated(n, e)'
<1>1. \A n, h : Firmly(n, h) => Firmly(n, h)'
  BY DEF Grows
<1>2. \A n, m, id, h : Asked(n, m, id, h) => Asked(n, m, id, h)'
  BY MayMore DEF Grows
<1>3. \A n : Apart(n)' <=> Apart(n)
  BY DEF Grows, Apart
<1>4. QED
  BY <1>1, <1>2, <1>3 DEF Stated

LEMMA EventsGrow ==
  ASSUME Backed, Grows,
         \A n \in Node : \/ events'[n] = events[n]
                         \/ events'[n] = Tail(events[n]) /\ events[n] # <<>>
                         \/ \E e \in Events : Stated(n, e)' /\ events'[n] = Append(events[n], e)
  PROVE  EventsSourced'
<1> SUFFICES ASSUME NEW n \in Node
             PROVE  events'[n] \in Seq({e \in Events : Stated(n, e)'})
  BY DEF EventsSourced
<1> DEFINE S == {e \in Events : Stated(n, e)'}
<1>1. events[n] \in Seq(S)
  <2>1. events[n] \in Seq({e \in Events : Stated(n, e)})
    BY DEF Backed, Sourced, EventsSourced
  <2>2. {e \in Events : Stated(n, e)} \subseteq S
    BY StatedGrows
  <2>3. QED
    BY <2>1, <2>2, SeqMonotonic
<1>2. CASE events'[n] = events[n]
  BY <1>1, <1>2
<1>3. CASE events'[n] = Tail(events[n]) /\ events[n] # <<>>
  <2> HIDE DEF S
  <2>1. events'[n] \in Seq(S)
    BY <1>1, <1>3
  <2>2. QED
    BY <2>1 DEF S
<1>4. ASSUME NEW e \in Events, Stated(n, e)', events'[n] = Append(events[n], e)
      PROVE  events'[n] \in Seq(S)
  <2>1. e \in S
    BY <1>4
  <2> HIDE DEF S
  <2>2. QED
    BY <1>1, <1>4, <2>1, AppendProperties
<1>5. QED
  BY <1>2, <1>3, <1>4

\* Success is only reported of a blob that has come to be where it was asked for.
LEMMA SuccessStated ==
  ASSUME Backed, Grows, NEW n \in Node, NEW m \in Node, Stored(n, m),
         NEW id, NEW h, id = job[n][m].id, h = job[n][m].hash
  PROVE  Event(id, h, "Complete") \in Events /\ Stated(n, Event(id, h, "Complete"))'
<1> DEFINE j == job[n][m]
<1>1. /\ id \in Id /\ h \in Hash /\ j.do = "finalize" /\ j.ok
      /\ Apart(n) => Asked(n, m, id, h)
  BY JobKinds DEF Stored, Verified, FileSteps, Backed, Inv
<1>2. ASSUME Apart(n)
      PROVE  Firmly(n, h)' /\ Asked(n, m, id, h)'
  <2>1. tmp[n][h] = "whole"
    BY <1>1, <1>2 DEF Backed, Disciplined, Sound, Filed
  <2>2. blob'[n][h] = "whole"
    BY <1>1, <2>1 DEF Stored, Backed, Inv, Tables
  <2>3. Asked(n, m, id, h)'
    BY <1>1, <1>2, MayMore DEF Grows
  <2>4. QED
    BY <2>2, <2>3 DEF Firmly
<1>3. Apart(n)' <=> Apart(n)
  BY DEF Grows, Apart
<1>4. QED
  BY <1>1, <1>2, <1>3 DEF Event, Events, Stated

LEMMA EventsStaySourced ==
  ASSUME Backed, [Next]_vars
  PROVE  EventsSourced'
<1>1. Grows /\ Inv /\ events \in [Node -> Seq(Events)]
  BY StepGrows DEF Backed, Inv, Tables
<1>2. ASSUME NEW n \in Node, NEW e \in Events, Stated(n, e)', Emits(n, e)
      PROVE  EventsSourced'
  <2>1. \A k \in Node : \/ events'[k] = events[k]
                        \/ Stated(k, e)' /\ events'[k] = Append(events[k], e)
    BY <1>1, <1>2 DEF Emits
  <2>2. QED
    BY <1>1, <2>1, EventsGrow
<1>3. \A n \in Node, id \in Id, h \in Hash :
        Event(id, h, "Failed") \in Events /\ Stated(n, Event(id, h, "Failed"))'
  BY DEF Event, Events, Stated
<1>4. ASSUME NEW n \in Node, Watch(n)
      PROVE  EventsSourced'
  <2>1. \A k \in Node : \/ events'[k] = events[k]
                        \/ events'[k] = Tail(events[k]) /\ events[k] # <<>>
    BY <1>1, <1>4 DEF Watch
  <2>2. QED
    BY <1>1, <2>1, EventsGrow
<1>5. CASE UNCHANGED events
  BY <1>1, <1>5, EventsGrow, Zenon
<1>6. ASSUME NEW n \in Node, NEW m \in Node, NotFound(n, m)
      PROVE  EventsSourced'
  <2>1. Msg(n, m).id \in Id /\ Msg(n, m).hash \in Hash
    BY <1>1, <1>6, NextMessage DEF NotFound, Messages
  <2>2. PICK id \in Id, h \in Hash : id = Msg(n, m).id /\ h = Msg(n, m).hash
    BY <2>1
  <2>3. Emits(n, Event(id, h, "Failed"))
    BY <1>6, <2>2 DEF NotFound
  <2>4. QED
    BY <1>2, <1>3, <2>3
<1>7. ASSUME NEW n \in Node, NEW m \in Node, Stored(n, m) \/ NotStored(n, m)
      PROVE  EventsSourced'
  <2>1. job[n][m].id \in Id /\ job[n][m].hash \in Hash
    BY <1>1, <1>7, JobKinds DEF Stored, NotStored, FileSteps, Inv
  <2>2. PICK id \in Id, h \in Hash : id = job[n][m].id /\ h = job[n][m].hash
    BY <2>1
  <2>3. CASE Stored(n, m)
    <3>1. Emits(n, Event(id, h, "Complete"))
      BY <2>2, <2>3 DEF Stored
    <3>2. Event(id, h, "Complete") \in Events /\ Stated(n, Event(id, h, "Complete"))'
      BY <1>1, <2>2, <2>3, SuccessStated
    <3>3. QED
      BY <1>2, <3>1, <3>2
  <2>4. CASE NotStored(n, m)
    <3>1. Emits(n, Event(id, h, "Failed")) \/ UNCHANGED events
      BY <2>2, <2>4 DEF NotStored
    <3>2. QED
      BY <1>2, <1>3, <1>5, <3>1
  <2>5. QED
    BY <1>7, <2>3, <2>4
<1>8. ASSUME NEW n \in Node, NEW m \in Node, Loop(n, m)
      PROVE  EventsSourced'
  BY <1>5, <1>6, <1>7, <1>8 DEF Loop, Provider, Requester, Offers, SendChunk, Acked,
     Retransmits, HandleOffer, HandleChunk, CreateFile, WriteFile, RemoveTransfer
<1>9. QED
  BY <1>4, <1>5, <1>8 DEF Next, vars, Ask, Delete, Breaks, Deactivates

LEMMA CallbackStaysSourced ==
  ASSUME Backed, [Next]_vars
  PROVE  CallbackSourced'
<1>1. /\ Grows /\ Inv /\ Tables /\ CallbackSourced
      /\ request' = request /\ asked \subseteq asked'
      /\ callback \in [Node -> [Id -> Req \cup {NoReq}]]
      /\ \A s \in Req : request[s].by \in Node /\ request[s].id \in Id
  BY StepGrows DEF Backed, Inv, Tables, Sourced, Grows
<1>2. ASSUME NEW s \in Req, Ask(s)
      PROVE  CallbackSourced'
  <2>1. \A n \in Node, id \in Id : callback'[n][id] =
          IF n = request[s].by /\ id = request[s].id THEN s ELSE callback[n][id]
    BY <1>1, <1>2 DEF Ask
  <2>2. s \in asked'
    BY <1>2 DEF Ask
  <2>3. QED
    BY <1>1, <2>1, <2>2 DEF CallbackSourced
<1>3. ASSUME NEW n \in Node, Watch(n)
      PROVE  CallbackSourced'
  <2>1. \A k \in Node, id \in Id : callback'[k][id] \in {callback[k][id], NoReq}
    BY <1>1, <1>3 DEF Watch
  <2>2. QED
    BY <1>1, <2>1 DEF CallbackSourced
<1>4. CASE UNCHANGED callback
  BY <1>1, <1>4 DEF CallbackSourced
<1>5. ASSUME NEW n \in Node, NEW m \in Node, Loop(n, m)
      PROVE  UNCHANGED callback
  BY <1>5 DEF Loop, Provider, Requester, NotFound, Offers, SendChunk, Acked, Retransmits,
     HandleOffer, HandleChunk, CreateFile, WriteFile, Stored, NotStored, RemoveTransfer, bridge
<1>6. QED
  BY <1>2, <1>3, <1>4, <1>5 DEF Next, vars, Delete, Breaks, Deactivates, bridge

LEMMA BackedStays == Backed /\ [Next]_vars => Backed'
<1> SUFFICES ASSUME Backed, [Next]_vars
             PROVE  Backed'
  OBVIOUS
<1>1. Inv' /\ Disciplined'
  BY NextKeeps, StaysDisciplined DEF Backed
<1>2. QED
  BY <1>1, WireStaysTrue, InStaysSourced, JobsStaySourced, EventsStaySourced,
     CallbackStaysSourced DEF Backed, Sourced

LEMMA BackedStarts == Init => Backed
<1> SUFFICES ASSUME Init PROVE Backed
  OBVIOUS
<1>1. Inv /\ Disciplined
  BY InitHolds DEF Init, Disciplined, Sound, Filed, Idle
<1>2. wire \in Truths /\ EventsSourced
  BY EmptySeq DEF Init, Truths, EventsSourced
<1>3. InSourced /\ CallbackSourced
  BY DEF Init, InSourced, CallbackSourced
<1>4. JobsSourced
  BY DEF Init, JobsSourced, JobSourced, Idle, FileSteps
<1>5. QED
  BY <1>1, <1>2, <1>3, <1>4 DEF Backed, Sourced

\* What of a step is seen in the promise.
LEMMA HasKept ==
  ASSUME request' = request,
         \A n \in Node, h \in Hash : Apart(n) => blob'[n][h] = blob[n][h]
  PROVE  Has' = Has
<1>1. \A n : Apart(n)' <=> Apart(n)
  BY DEF Apart
<1>2. \A copy \in Node \X Hash : Apart(copy[1]) => blob'[copy[1]][copy[2]] = blob[copy[1]][copy[2]]
  OBVIOUS
<1>3. QED
  BY <1>1, <1>2 DEF Has

LEMMA SucceededKept == ASSUME request' = request, told' = told PROVE Succeeded' = Succeeded
BY DEF Succeeded, Apart

LEMMA SureIs ==
  ASSUME NEW n \in Node, NEW h \in Hash
  PROVE  /\ Firmly(n, h) => Promise!Sure(<<n, h>>)
         /\ Apart(n) => (<<n, h>> \in Has <=> blob[n][h] = "whole")
BY DEF Firmly, Firm, Has, Promise!Sure

LEMMA AsksAsks ==
  ASSUME Backed, NEW r \in Req, Ask(r) PROVE Promise!Asks(r)
<1>1. UNCHANGED <<request, told, blob>> /\ asked' = asked \cup {r}
  BY DEF Ask, store
<1>2. Has' = Has /\ Succeeded' = Succeeded
  BY <1>1, HasKept, SucceededKept
<1>3. Firm' = Firm
  BY <1>1 DEF Firm, Apart
<1>4. QED
  BY <1>1, <1>2, <1>3 DEF Promise!Asks

\* An event of success is told to a request that has the blob; any other changes nothing
\* of who has heard of success.
LEMMA WatchHears ==
  ASSUME Backed, NEW n \in Node, Watch(n)
  PROVE  UNCHANGED Promise!promiseVars \/ \E r \in Req : Promise!Hears(r)
<1> DEFINE e == Head(events[n])
           r == callback[n][e.id]
<1>1. /\ Inv /\ Tables /\ EventsSourced /\ CallbackSourced
      /\ callback \in [Node -> [Id -> Req \cup {NoReq}]] /\ told \in [Req -> SUBSET Events]
  BY DEF Backed, Inv, Tables, Sourced
<1>2. /\ UNCHANGED <<request, asked, blob>>
      /\ told' = IF r = NoReq THEN told ELSE [told EXCEPT ![r] = @ \cup {e}]
      /\ events[n] # <<>>
  BY DEF Watch, store
<1>3. Has' = Has /\ Firm' = Firm
  BY <1>2, HasKept DEF Firm, Apart
<1>4. e \in Events /\ Stated(n, e) /\ e.id \in Id
  <2>1. events[n] \in Seq({x \in Events : Stated(n, x)})
    BY <1>1 DEF EventsSourced
  <2>2. e \in {x \in Events : Stated(n, x)}
    BY <1>2, <2>1
  <2>3. QED
    BY <2>2 DEF Events
<1>5. CASE r = NoReq \/ e.status # "Complete" \/ ~Apart(request[r].by)
  <2>1. \A s \in Req : Apart(request[s].by) =>
          ((\E x \in told'[s] : x.status = "Complete") <=> (\E x \in told[s] : x.status = "Complete"))
    BY <1>1, <1>2, <1>4, <1>5
  <2>2. Succeeded' = Succeeded
    BY <1>2, <2>1 DEF Succeeded, Apart
  <2>3. QED
    BY <1>2, <1>3, <2>2 DEF Promise!promiseVars
<1>6. CASE r # NoReq /\ e.status = "Complete" /\ Apart(request[r].by)
  <2>1. r \in Req /\ r \in asked /\ request[r].by = n /\ request[r].id = e.id
    BY <1>1, <1>4, <1>6 DEF CallbackSourced
  <2>2. Firmly(n, e.hash) /\ \E m \in Node : Asked(n, m, e.id, e.hash)
    BY <1>4, <1>6, <2>1 DEF Stated
  <2>3. request[r].hash = e.hash /\ e.hash \in Hash
    BY <1>1, <1>4, <1>6, <2>1, <2>2 DEF Asked, Apart, Events, Tables
  <2>4. Promise!Sure(Promise!Wanted(r))
    BY <2>1, <2>2, <2>3, SureIs DEF Promise!Wanted
  <2>5. \A s \in Req : told'[s] = IF s = r THEN told[s] \cup {e} ELSE told[s]
    BY <1>1, <1>2, <1>6
  <2>6. Succeeded' = Succeeded \cup {r}
    <3>1. \A s : Apart(s)' <=> Apart(s)
      BY <1>2 DEF Apart
    <3>2. \A s \in Req : s \in Succeeded' <=> s \in Succeeded \/ s = r
      <4>1. \A s \in Req \ {r} : told'[s] = told[s]
        BY <2>5
      <4>2. e \in told'[r]
        BY <2>1, <2>5
      <4>3. r \in Succeeded'
        BY <1>2, <1>6, <2>1, <3>1, <4>2 DEF Succeeded
      <4> HIDE DEF r
      <4>4. \A s \in Req \ {r} : s \in Succeeded' <=> s \in Succeeded
        BY <1>2, <3>1, <4>1 DEF Succeeded
      <4>5. QED
        BY <2>1, <4>3, <4>4
    <3>3. Succeeded \subseteq Req /\ Succeeded' \subseteq Req
      BY DEF Succeeded
    <3> HIDE DEF r
    <3>4. QED
      BY <2>1, <3>2, <3>3
  <2> HIDE DEF r
  <2>7. QED
    BY <1>2, <1>3, <2>1, <2>4, <2>6 DEF Promise!Hears
<1>7. QED
  BY <1>5, <1>6

LEMMA DeleteLoses ==
  ASSUME Backed, NEW n \in Node, NEW h \in Hash, Delete(n, h)
  PROVE  Promise!Loses(<<n, h>>)
<1>1. /\ UNCHANGED <<request, asked, told>> /\ <<n, h>> \in Deletable
      /\ blob \in [Node -> [Hash -> FileStates]] /\ blob' = [blob EXCEPT ![n][h] = "none"]
  BY DEF Delete, bridge, Backed, Inv, Tables
<1>2. Succeeded' = Succeeded /\ Firm' = Firm /\ <<n, h>> \notin Firm
  BY <1>1, SucceededKept DEF Firm, Apart
<1>3. \A k : Apart(k)' <=> Apart(k)
  BY <1>1 DEF Apart
<1>4. \A k \in Node, g \in Hash :
        blob'[k][g] = IF k = n /\ g = h THEN "none" ELSE blob[k][g]
  BY <1>1
<1>5. \A copy \in Node \X Hash : copy \in Has' <=> copy \in Has /\ copy # <<n, h>>
  BY <1>3, <1>4 DEF Has
<1>6. Has' = Has \ {<<n, h>>}
  BY <1>5 DEF Has
<1>7. QED
  BY <1>1, <1>2, <1>6 DEF Promise!Loses

\* What is moved to its place comes from where it was asked for.
LEMMA StoredFetches ==
  ASSUME Backed, NEW n \in Node, NEW m \in Node, Stored(n, m)
  PROVE  UNCHANGED Promise!promiseVars \/ \E r \in Req : Promise!Fetches(r)
<1> DEFINE j == job[n][m]
<1>1. /\ j.id \in Id /\ j.hash \in Hash /\ j.do = "finalize" /\ j.ok
      /\ Apart(n) => Asked(n, m, j.id, j.hash)
      /\ Tables /\ blob \in [Node -> [Hash -> FileStates]] /\ asked \subseteq Req
  BY JobKinds DEF Stored, Verified, FileSteps, Backed, Inv, Tables
<1>2. /\ UNCHANGED <<request, asked, told>>
      /\ blob' = [blob EXCEPT ![n][j.hash] = tmp[n][j.hash]]
  BY DEF Stored, bridge
<1>3. Succeeded' = Succeeded /\ Firm' = Firm /\ \A k : Apart(k)' <=> Apart(k)
  BY <1>2, SucceededKept DEF Firm, Apart
<1>4. CASE ~Apart(n)
  <2>1. Has' = Has
    BY <1>1, <1>2, <1>4, HasKept
  <2>2. QED
    BY <1>2, <1>3, <2>1 DEF Promise!promiseVars
<1>5. CASE Apart(n)
  <2>1. PICK r \in asked : /\ request[r].by = n /\ request[r].from = m
                           /\ request[r].id = j.id /\ request[r].hash = j.hash
    BY <1>1, <1>5 DEF Asked
  <2>2. Firmly(m, j.hash)
    BY <1>1, <1>5 DEF Backed, Sourced, JobsSourced, JobSourced, FileSteps
  <2>3. Promise!Sure(Promise!Source(r))
    BY <1>1, <2>1, <2>2, SureIs DEF Promise!Source
  <2>4. tmp[n][j.hash] = "whole"
    BY <1>1, <1>5 DEF Backed, Disciplined, Sound, Filed
  <2>5. \A k \in Node, g \in Hash :
          blob'[k][g] = IF k = n /\ g = j.hash THEN "whole" ELSE blob[k][g]
    BY <1>1, <1>2, <2>4
  <2>6. \A copy \in Node \X Hash : copy \in Has' <=> copy \in Has \/ copy = <<n, j.hash>>
    BY <1>1, <1>3, <1>5, <2>5 DEF Has
  <2>7. Has' = Has \cup {<<n, j.hash>>}
    BY <1>1, <2>6 DEF Has
  <2>8. QED
    BY <1>1, <1>2, <1>3, <2>1, <2>3, <2>7 DEF Promise!Fetches, Promise!Wanted
<1>6. QED
  BY <1>4, <1>5

\* Every other step goes unseen: it changes nobody's copy of a blob, but for those of
\* nodes whose requests meet.
LEMMA OthersUnseen ==
  ASSUME Backed, UNCHANGED <<request, asked, told>>,
         UNCHANGED blob \/ \E n, m \in Node : WriteFile(n, m)
  PROVE  UNCHANGED Promise!promiseVars
<1>1. Succeeded' = Succeeded /\ Firm' = Firm
  BY SucceededKept DEF Firm, Apart
<1>2. CASE UNCHANGED blob
  BY <1>1, <1>2, HasKept DEF Promise!promiseVars
<1>3. ASSUME NEW n \in Node, NEW m \in Node, WriteFile(n, m)
      PROVE  Has' = Has
  <2>1. blob \in [Node -> [Hash -> FileStates]]
    BY DEF Backed, Inv, Tables
  <2>2. Apart(n) => job[n][m].file = "tmp"
    BY <1>3 DEF Backed, Disciplined, Sound, Filed, WriteFile
  <2>3. \A k \in Node, h \in Hash : Apart(k) => blob'[k][h] = blob[k][h]
    BY <1>3, <2>1, <2>2 DEF WriteFile
  <2>4. QED
    BY <2>3, HasKept
<1>4. QED
  BY <1>1, <1>2, <1>3 DEF Promise!promiseVars

\* Blob transfer keeps its promise: among the nodes whose requests are apart blobs are
\* only fetched by those who asked for them from where they are, are kept until they are
\* deleted, and are reported when they are there (blob.rs, blob_store.rs and the watcher
\* of the bridge taken together).
THEOREM PromiseKept == Spec => KeepsPromise
<1>1. Init => Promise!Init
  <2> SUFFICES ASSUME Init PROVE Promise!Init
    OBVIOUS
  <2>1. asked = {} /\ Has \subseteq Node \X Hash
    BY DEF Init, Has
  <2>2. Succeeded = {}
    BY DEF Init, Succeeded
  <2>3. QED
    BY <2>1, <2>2 DEF Promise!Init
<1>2. Backed /\ [Next]_vars => [Promise!Next]_(Promise!promiseVars)
  <2> SUFFICES ASSUME Backed, [Next]_vars
               PROVE  Promise!Next \/ UNCHANGED Promise!promiseVars
    OBVIOUS
  <2>1. ASSUME NEW r \in Req, Ask(r)
        PROVE  Promise!Next
    BY <2>1, AsksAsks DEF Promise!Next
  <2>2. ASSUME NEW n \in Node, Watch(n)
        PROVE  Promise!Next \/ UNCHANGED Promise!promiseVars
    BY <2>2, WatchHears DEF Promise!Next
  <2>3. ASSUME NEW n \in Node, NEW h \in Hash, Delete(n, h)
        PROVE  Promise!Next
    BY <2>3, DeleteLoses DEF Promise!Next
  <2>4. ASSUME NEW n \in Node, NEW m \in Node, Stored(n, m)
        PROVE  Promise!Next \/ UNCHANGED Promise!promiseVars
    BY <2>4, StoredFetches DEF Promise!Next
  <2>5. ASSUME NEW n \in Node, NEW m \in Node, Loop(n, m), ~Stored(n, m)
        PROVE  UNCHANGED Promise!promiseVars
    <3>1. /\ UNCHANGED <<request, asked, told>>
          /\ UNCHANGED blob \/ WriteFile(n, m)
      BY <2>5 DEF Loop, Provider, Requester, NotFound, Offers, SendChunk, Acked, Retransmits,
         HandleOffer, HandleChunk, CreateFile, WriteFile, NotStored, RemoveTransfer, bridge, store
    <3>2. QED
      BY <3>1, OthersUnseen
  <2>6. CASE UNCHANGED <<request, asked, told, blob>>
    BY <2>6, OthersUnseen
  <2>7. QED
    BY <2>1, <2>2, <2>3, <2>4, <2>5, <2>6
       DEF Next, vars, Breaks, Deactivates, bridge, store
<1>3. QED
  BY <1>1, <1>2, BackedStarts, BackedStays, PTL DEF Spec, KeepsPromise, Promise!Spec

================================================================================
