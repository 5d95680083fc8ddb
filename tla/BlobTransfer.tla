------------------------------ MODULE BlobTransfer ------------------------------
(* Content-addressed blob transfer between nodes:                             *)
(* node/p2pcd/src/capabilities/blob.rs, the store it writes to                *)
(* (node/p2pcd/src/blob_store.rs) and the bridge through which capabilities   *)
(* ask for blobs and hear what became of them (node/daemon/src/p2pcd/bridge). *)
(*                                                                            *)
(* Every node is requester and provider.  For each peer it has one dispatch   *)
(* loop that handles the peer's messages one after the other; the loops of a  *)
(* node share its transfer tables, which are keyed by transfer id alone, and  *)
(* its store.  Transfer ids are chosen by the capabilities of the requester,  *)
(* from counters that all start at 1.  The content of a blob is represented   *)
(* by its hash, a chunk by the hash of the blob it was read from.             *)
EXTENDS Integers, Sequences

CONSTANTS
  Node, Hash, Id,
  Req,          \* requests of capabilities
  NoReq,        \* no callback is registered
  NoTransfer,   \* no transfer of this id
  Missing,      \* a chunk that has not been received
  Garbled,      \* content no hash stands for
  Chunks,       \* chunk_count of each blob
  TooBig,       \* blobs larger than the negotiated max_bytes
  MaxAttempts,  \* MAX_RETRANSMIT_ATTEMPTS
  Fragile,      \* links that may break
  Deletable     \* which node's capabilities may delete which blob

ASSUME ChunksAssumption == Chunks \in [Hash -> Nat] /\ MaxAttempts \in Nat
ASSUME NamesAssumption ==
  /\ NoReq \notin Req /\ Missing \notin Hash \cup {Garbled} /\ Garbled \notin Hash
  /\ TooBig \subseteq Hash /\ Deletable \subseteq Node \X Hash
  /\ \A n \in Node : {n} \notin Fragile

VARIABLES
  request,    \* what each request asks for
  asked,      \* the requests handed to the bridge
  callback,   \* TransferCallbackRegistry of each node
  told,       \* what each request's callback was called with
  events,     \* transfer events on their way to the bridge's watcher
  inbound,    \* BlobHandler.inbound of each node
  outbound,   \* BlobHandler.outbound of each node
  tmp,        \* the file <root>/tmp/<hash> of each node's store
  blob,       \* the file <root>/<prefix>/<hash>
  wire,       \* wire[n][m]: messages on their way from m to n
  job,        \* job[n][m]: what n's dispatch loop for m is in the middle of
  down,       \* links whose session ended
  left        \* left[n]: peers n has deactivated the capability for

bridge    == <<asked, callback, told>>
transfers == <<inbound, outbound>>
store     == <<tmp, blob>>
links     == <<down, left>>
vars == <<request, bridge, events, transfers, store, wire, job, links>>

--------------------------------------------------------------------------------
(* Messages, table entries and jobs.                                          *)

Statuses == {"COMPLETE", "RETRANSMIT", "REJECTED", "NOT_FOUND"}

REQ(id, h)       == [type |-> "REQ", id |-> id, hash |-> h]
OFFER(id, h, k)  == [type |-> "OFFER", id |-> id, hash |-> h, count |-> k]
CHUNK(id, i, d)  == [type |-> "CHUNK", id |-> id, index |-> i, data |-> d]
ACK(id, s, k)    == [type |-> "ACK", id |-> id, status |-> s, count |-> k]

Event(id, h, s) == [id |-> id, hash |-> h, status |-> s]

\* Nothing, something incomplete, the blob, or complete but other content.
FileStates == {"none", "part", "whole", "wrong"}

NewInbound(m, h, k) ==
  [peer |-> m, hash |-> h, got |-> [i \in 1 .. k |-> Missing], tries |-> 0]

Idle == [do |-> "idle"]

\* Mutant: the last chunk is not sent.
StreamShort(id, h, last) ==
  IF last <= 1 THEN Idle
  ELSE [do |-> "stream", id |-> id, hash |-> h, next |-> 1, last |-> last - 1]

\* send_chunks: the chunks of h up to the last one, if there are any.
Stream(id, h, last) ==
  IF last = 0 THEN Idle
  ELSE [do |-> "stream", id |-> id, hash |-> h, next |-> 1, last |-> last]

\* A received blob on its way to the store; ok says whether its hash is right.
\* file tells where the writer's open file is linked.
Writer(id, h, k, ok) ==
  [do |-> "create", id |-> id, hash |-> h, count |-> k, ok |-> ok, file |-> "gone"]

FileSteps == {"create", "write", "finalize"}

--------------------------------------------------------------------------------
Init ==
  /\ request \in {q \in [Req -> [by : Node, from : Node, id : Id, hash : Hash]] :
                    \A r \in Req : q[r].by # q[r].from}
  /\ asked = {}
  /\ callback = [n \in Node |-> [id \in Id |-> NoReq]]
  /\ told = [r \in Req |-> {}]
  /\ events = [n \in Node |-> <<>>]
  /\ inbound = [n \in Node |-> [id \in Id |-> NoTransfer]]
  /\ outbound = [n \in Node |-> [id \in Id |-> NoTransfer]]
  /\ tmp = [n \in Node |-> [h \in Hash |-> "none"]]
  /\ blob \in [Node -> [Hash -> {"none", "whole"}]]
  /\ wire = [n \in Node |-> [m \in Node |-> <<>>]]
  /\ job = [n \in Node |-> [m \in Node |-> Idle]]
  /\ down = {}
  /\ left = [n \in Node |-> {}]

--------------------------------------------------------------------------------
(* Vocabulary.                                                                *)

Connected(n, m) == {n, m} \notin down

\* The next message of m for n, which n's loop for m is free to handle.
Handles(n, m, type) ==
  /\ job[n][m] = Idle /\ wire[n][m] # <<>> /\ Head(wire[n][m]).type = type

Msg(n, m) == Head(wire[n][m])

\* n sends the messages ms to m: BlobHandler.send_msg.
Sent(w, n, m, ms) == IF Connected(n, m) THEN [w EXCEPT ![m][n] = @ \o ms] ELSE w
Sends(n, m, ms) == wire' = Sent(wire, n, m, ms)

\* n is done with the next message of m and answers with ms.
Answers(n, m, ms) == wire' = Sent([wire EXCEPT ![n][m] = Tail(@)], n, m, ms)

Does(n, m, j) == job' = [job EXCEPT ![n][m] = j]
Emits(n, e) == events' = [events EXCEPT ![n] = Append(@, e)]

\* What reading the stored blob h yields.
Content(n, h) == IF blob[n][h] = "whole" THEN h ELSE Garbled

\* total_size.div_ceil(chunk_size)
Count(n, h) == IF blob[n][h] = "part" THEN 0 ELSE Chunks[h]

\* The loops of n after the files of h were linked anew.
Relinked(n, h, to) ==
  [m \in Node |->
    IF job[n][m].do \in FileSteps /\ job[n][m].hash = h
    THEN [job[n][m] EXCEPT !.file = to[@]] ELSE job[n][m]]

Renamed  == [tmp |-> "blob", blob |-> "gone", gone |-> "gone"]
Unlinked == [tmp |-> "gone", blob |-> "blob", gone |-> "gone"]
Erased   == [tmp |-> "tmp",  blob |-> "gone", gone |-> "gone"]

--------------------------------------------------------------------------------
(* The bridge.                                                                *)

\* handle_blob_request registers the callback whether or not the BLOB_REQ can be
\* sent.
Ask(r) ==
  LET q == request[r] IN
  /\ r \notin asked
  /\ asked' = asked \cup {r}
  /\ callback' = [callback EXCEPT ![q.by][q.id] = r]
  /\ Sends(q.by, q.from, <<REQ(q.id, q.hash)>>)
  /\ UNCHANGED <<request, told, events, transfers, store, job, links>>

\* spawn_transfer_watcher: the callback of an event is called and forgotten.
Watch(n) ==
  /\ events[n] # <<>>
  /\ LET e == Head(events[n])
         r == callback[n][e.id]
     IN told' = IF r = NoReq THEN told ELSE [told EXCEPT ![r] = @ \cup {e}]
  /\ callback' = [callback EXCEPT ![n][Head(events[n]).id] = NoReq]
  /\ events' = [events EXCEPT ![n] = Tail(@)]
  /\ UNCHANGED <<request, asked, transfers, store, wire, job, links>>

\* handle_blob_delete
Delete(n, h) ==
  /\ <<n, h>> \in Deletable /\ blob[n][h] # "none"
  /\ blob' = [blob EXCEPT ![n][h] = "none"]
  /\ job' = [job EXCEPT ![n] = Relinked(n, h, Erased)]
  /\ UNCHANGED <<request, bridge, events, transfers, tmp, wire, links>>

--------------------------------------------------------------------------------
(* The provider.                                                              *)

NotFound(n, m) ==
  LET q == Msg(n, m) IN
  /\ Handles(n, m, "REQ") /\ blob[n][q.hash] = "none"
  /\ Answers(n, m, <<ACK(q.id, "NOT_FOUND", 0)>>)
  /\ Emits(n, Event(q.id, q.hash, "Failed"))
  /\ UNCHANGED <<request, bridge, transfers, store, job, links>>

Offers(n, m) ==
  LET q == Msg(n, m) IN
  /\ Handles(n, m, "REQ") /\ blob[n][q.hash] # "none"
  /\ Answers(n, m, <<OFFER(q.id, q.hash, Count(n, q.hash))>>)
  /\ outbound' = [outbound EXCEPT ![n][q.id] =
       [peer |-> m, hash |-> q.hash, count |-> Count(n, q.hash)]]
  /\ Does(n, m, Stream(q.id, q.hash, Count(n, q.hash)))
  /\ UNCHANGED <<request, bridge, events, inbound, store, links>>

\* send_one_chunk reads the store anew; a chunk that cannot be read is left out.
SendChunk(n, m) ==
  LET j == job[n][m] IN
  /\ j.do = "stream"
  /\ Sends(n, m, IF blob[n][j.hash] = "none" THEN <<>>
                 ELSE <<CHUNK(j.id, j.next, Content(n, j.hash))>>)
  /\ Does(n, m, IF j.next = j.last THEN Idle ELSE [j EXCEPT !.next = @ + 1])
  /\ UNCHANGED <<request, bridge, events, transfers, store, links>>

\* handle_ack, for the states that end a transfer or leave it alone.
Acked(n, m) ==
  LET a == Msg(n, m) IN
  /\ Handles(n, m, "ACK") /\ a.status # "RETRANSMIT"
  /\ outbound' = IF a.status = "NOT_FOUND" THEN outbound
                 ELSE [outbound EXCEPT ![n][a.id] = NoTransfer]
  /\ Answers(n, m, <<>>)
  /\ UNCHANGED <<request, bridge, events, inbound, store, job, links>>

Retransmits(n, m) ==
  LET a == Msg(n, m)
      t == outbound[n][a.id]
  IN
  /\ Handles(n, m, "ACK") /\ a.status = "RETRANSMIT"
  /\ Does(n, m, IF t = NoTransfer THEN Idle
                ELSE Stream(a.id, t.hash, IF a.count < t.count THEN a.count ELSE t.count))
  /\ Answers(n, m, <<>>)
  /\ UNCHANGED <<request, bridge, events, transfers, store, links>>

Provider(n, m) ==
  NotFound(n, m) \/ Offers(n, m) \/ SendChunk(n, m) \/ Acked(n, m) \/ Retransmits(n, m)

--------------------------------------------------------------------------------
(* The requester.                                                             *)

\* Nothing tells whether the OFFER answers a request, and a transfer of the same
\* id is replaced.
HandleOffer(n, m) ==
  LET o == Msg(n, m) IN
  /\ Handles(n, m, "OFFER")
  /\ \/ /\ o.hash \in TooBig
        /\ Answers(n, m, <<ACK(o.id, "REJECTED", 0)>>)
        /\ UNCHANGED inbound
     \/ /\ o.hash \notin TooBig
        /\ Answers(n, m, <<>>)
        /\ inbound' = [inbound EXCEPT ![n][o.id] = NewInbound(m, o.hash, o.count)]
  /\ UNCHANGED <<request, bridge, events, outbound, store, job, links>>

\* Mutant: the first chunk is taken for the last one.
AllReceivedAny(got) == \E i \in DOMAIN got : got[i] # Missing

\* is_complete
AllReceived(got) == \A i \in DOMAIN got : got[i] # Missing

\* The peer that sent the chunk is not compared with the transfer's.
HandleChunk(n, m) ==
  LET c == Msg(n, m)
      t == inbound[n][c.id]
  IN
  /\ Handles(n, m, "CHUNK")
  /\ Answers(n, m, <<>>)
  /\ IF t = NoTransfer \/ c.index \notin DOMAIN t.got
     THEN UNCHANGED <<inbound, job>>
     ELSE LET got == [t.got EXCEPT ![c.index] = c.data] IN
          /\ inbound' = [inbound EXCEPT ![n][c.id].got = got]
          /\ Does(n, m,
               IF AllReceived(got)
               THEN Writer(c.id, t.hash, Len(got), \A i \in DOMAIN got : got[i] = t.hash)
               ELSE Idle)
  /\ UNCHANGED <<request, bridge, events, outbound, store, links>>

\* Mutant: the file is created where it is to end.
CreateInPlace(n, m) ==
  LET j == job[n][m] IN
  /\ j.do = "create"
  /\ blob' = [blob EXCEPT ![n][j.hash] = "part"]
  /\ Does(n, m, [j EXCEPT !.do = "write", !.file = "blob"])
  /\ UNCHANGED <<request, bridge, events, transfers, tmp, wire, links>>

\* Mutant: completion is announced before the file is written.
CreateAnnounced(n, m) ==
  LET j == job[n][m] IN
  /\ j.do = "create"
  /\ tmp' = [tmp EXCEPT ![n][j.hash] = "part"]
  /\ Does(n, m, [j EXCEPT !.do = "write", !.file = "tmp"])
  /\ Emits(n, Event(j.id, j.hash, "Complete"))
  /\ UNCHANGED <<request, bridge, transfers, blob, wire, links>>

\* File::create truncates a file that another writer may have open.
CreateFile(n, m) ==
  LET j == job[n][m] IN
  /\ j.do = "create"
  /\ tmp' = [tmp EXCEPT ![n][j.hash] = "part"]
  /\ Does(n, m, [j EXCEPT !.do = "write", !.file = "tmp"])
  /\ UNCHANGED <<request, bridge, events, transfers, blob, wire, links>>

\* BlobWriter::write
WriteFile(n, m) ==
  LET j == job[n][m]
      content == IF j.ok THEN "whole" ELSE "wrong"
  IN
  /\ j.do = "write"
  /\ tmp' = IF j.file = "tmp" THEN [tmp EXCEPT ![n][j.hash] = content] ELSE tmp
  /\ blob' = IF j.file = "blob" THEN [blob EXCEPT ![n][j.hash] = content] ELSE blob
  /\ Does(n, m, [j EXCEPT !.do = "finalize"])
  /\ UNCHANGED <<request, bridge, events, transfers, wire, links>>

\* The data written has the right hash, and there is a file to move.
Verified(n, j) == j.ok /\ tmp[n][j.hash] # "none"

\* BlobWriter::finalize succeeds: the file is moved, the event emitted, the ACK sent.
Stored(n, m) ==
  LET j == job[n][m] IN
  /\ j.do = "finalize" /\ Verified(n, j)
  /\ blob' = [blob EXCEPT ![n][j.hash] = tmp[n][j.hash]]
  /\ tmp' = [tmp EXCEPT ![n][j.hash] = "none"]
  /\ job' = [job EXCEPT ![n] = [Relinked(n, j.hash, Renamed) EXCEPT
               ![m] = [do |-> "remove", id |-> j.id]]]
  /\ Emits(n, Event(j.id, j.hash, "Complete"))
  /\ Sends(n, m, <<ACK(j.id, "COMPLETE", 0)>>)
  /\ UNCHANGED <<request, bridge, transfers, links>>

\* Whatever transfer has the id by now is removed.
RemoveTransfer(n, m) ==
  /\ job[n][m].do = "remove"
  /\ inbound' = [inbound EXCEPT ![n][job[n][m].id] = NoTransfer]
  /\ Does(n, m, Idle)
  /\ UNCHANGED <<request, bridge, events, outbound, store, wire, links>>

\* The limit is reached; a transfer that is gone has none.
GivenUp(t) == t # NoTransfer /\ t.tries = MaxAttempts

\* Mutant: attempts are not counted.
AttemptUncounted(t) == [t EXCEPT !.got = [i \in DOMAIN t.got |-> Missing]]

\* One more attempt: all chunks are to be received again.
Attempt(t) == [t EXCEPT !.got = [i \in DOMAIN t.got |-> Missing], !.tries = @ + 1]

\* It fails: the hash is wrong, or somebody else moved or removed the file.
NotStored(n, m) ==
  LET j == job[n][m]
      t == inbound[n][j.id]
  IN
  /\ j.do = "finalize" /\ ~Verified(n, j)
  /\ tmp' = IF j.ok THEN tmp ELSE [tmp EXCEPT ![n][j.hash] = "none"]
  /\ job' = [job EXCEPT ![n] =
       [(IF j.ok THEN job[n] ELSE Relinked(n, j.hash, Unlinked)) EXCEPT ![m] = Idle]]
  /\ inbound' = [inbound EXCEPT ![n][j.id] =
       IF t = NoTransfer \/ GivenUp(t) THEN NoTransfer ELSE Attempt(t)]
  /\ IF GivenUp(t) THEN Emits(n, Event(j.id, j.hash, "Failed")) ELSE UNCHANGED events
  /\ Sends(n, m, IF GivenUp(t) THEN <<>> ELSE <<ACK(j.id, "RETRANSMIT", j.count)>>)
  /\ UNCHANGED <<request, bridge, outbound, blob, links>>

Requester(n, m) ==
  \/ HandleOffer(n, m) \/ HandleChunk(n, m)
  \/ CreateFile(n, m) \/ WriteFile(n, m) \/ Stored(n, m) \/ NotStored(n, m)
  \/ RemoveTransfer(n, m)

--------------------------------------------------------------------------------
(* The end of a session.                                                      *)

\* Messages not yet in the capability channel are lost, on both sides.
Breaks(n, m) ==
  /\ {n, m} \in Fragile \ down
  /\ down' = down \cup {{n, m}}
  /\ \E a \in 0 .. Len(wire[n][m]), b \in 0 .. Len(wire[m][n]) :
       wire' = [wire EXCEPT ![n][m] = SubSeq(@, 1, a), ![m][n] = SubSeq(@, 1, b)]
  /\ UNCHANGED <<request, bridge, events, transfers, store, job, left>>

\* on_deactivated; the dispatch loop still handles what is in its channel.
Deactivates(n, m) ==
  LET kept(t) == IF t # NoTransfer /\ t.peer = m THEN NoTransfer ELSE t IN
  /\ {n, m} \in down /\ m \notin left[n]
  /\ left' = [left EXCEPT ![n] = @ \cup {m}]
  /\ inbound' = [inbound EXCEPT ![n] = [id \in Id |-> kept(inbound[n][id])]]
  /\ outbound' = [outbound EXCEPT ![n] = [id \in Id |-> kept(outbound[n][id])]]
  /\ UNCHANGED <<request, bridge, events, store, wire, job, down>>

--------------------------------------------------------------------------------
Loop(n, m) == Provider(n, m) \/ Requester(n, m)

Next ==
  \/ \E r \in Req : Ask(r)
  \/ \E n \in Node : Watch(n) \/ \E h \in Hash : Delete(n, h)
  \/ \E n, m \in Node : Loop(n, m) \/ Breaks(n, m) \/ Deactivates(n, m)

\* Dispatch loops and watcher are tasks the runtime polls.
Fairness ==
  /\ \A n \in Node : \A m \in Node \ {n} : WF_vars(Loop(n, m))
  /\ \A n \in Node : WF_vars(Watch(n))

Spec == Init /\ [][Next]_vars /\ Fairness

--------------------------------------------------------------------------------
(* Properties.                                                                *)

Messages ==
  [type : {"REQ"}, id : Id, hash : Hash]
  \cup [type : {"OFFER"}, id : Id, hash : Hash, count : Nat]
  \cup [type : {"CHUNK"}, id : Id, index : Nat, data : Hash \cup {Garbled}]
  \cup [type : {"ACK"}, id : Id, status : Statuses, count : Nat]

Events == [id : Id, hash : Hash, status : {"Complete", "Failed"}]

Jobs ==
  {Idle}
  \cup [do : {"stream"}, id : Id, hash : Hash, next : Nat, last : Nat]
  \cup [do : FileSteps, id : Id, hash : Hash, count : Nat, ok : BOOLEAN,
        file : {"tmp", "blob", "gone"}]
  \cup [do : {"remove"}, id : Id]

Inbounds ==
  [peer : Node, hash : Hash, got : Seq(Hash \cup {Garbled, Missing}), tries : 0 .. MaxAttempts]

Outbounds == [peer : Node, hash : Hash, count : Nat]

TypeOK ==
  /\ request \in [Req -> [by : Node, from : Node, id : Id, hash : Hash]]
  /\ asked \in SUBSET Req
  /\ callback \in [Node -> [Id -> Req \cup {NoReq}]]
  /\ told \in [Req -> SUBSET Events]
  /\ events \in [Node -> Seq(Events)]
  /\ inbound \in [Node -> [Id -> Inbounds \cup {NoTransfer}]]
  /\ outbound \in [Node -> [Id -> Outbounds \cup {NoTransfer}]]
  /\ tmp \in [Node -> [Hash -> FileStates]]
  /\ blob \in [Node -> [Hash -> FileStates]]
  /\ wire \in [Node -> [Node -> Seq(Messages)]]
  /\ job \in [Node -> [Node -> Jobs]]
  /\ down \in SUBSET Fragile
  /\ left \in [Node -> SUBSET Node]

\* No other request that one of the two nodes takes part in has the id of r.
Unshared(r) ==
  \A s \in Req \ {r} : request[s].id = request[r].id =>
    {request[s].by, request[s].from} \cap {request[r].by, request[r].from} = {}

\* No two requests of n itself have one id or ask for one blob.
Apart(n) ==
  \A r, s \in Req : request[r].by = n /\ request[s].by = n /\ r # s =>
    request[r].id # request[s].id /\ request[r].hash # request[s].hash

\* What the store of a node has under a hash is the blob of that hash, as long as
\* two of its own requests do not meet in one id or one blob; which ids other
\* nodes use towards it or towards its providers does not matter.
StoredIsWhole ==
  \A n \in Node, h \in Hash : Apart(n) => blob[n][h] \in {"none", "whole"}

\* Neither the tables nor the files r needs serve another request.
Clean(r) == Unshared(r) /\ Apart(request[r].by) /\ Apart(request[r].from)

\* A request whose id and blob are its own never meets the chunks, the
\* retransmissions or the failures of another one, although the tables know
\* nothing but the id and the store nothing but the hash.
Isolation ==
  \A r \in Req : Clean(r) =>
    LET q == request[r]
        t == inbound[q.by][q.id]
    IN
    /\ t # NoTransfer =>
         /\ t.peer = q.from /\ t.hash = q.hash /\ t.tries = 0
         /\ \A i \in DOMAIN t.got : t.got[i] \in {Missing, q.hash}
    /\ \A e \in told[r] : e = Event(q.id, q.hash, "Complete")

\* The request of r has arrived where the blob is, and nothing has come in between.
Served(r) ==
  LET q == request[r] IN
  /\ Connected(q.by, q.from)
  /\ blob[q.from][q.hash] = "whole"
  /\ Chunks[q.hash] > 0 /\ q.hash \notin TooBig

Requested(r) ==
  LET q == request[r] IN
  \E i \in DOMAIN wire[q.from][q.by] : wire[q.from][q.by][i] = REQ(q.id, q.hash)

\* A request for a blob the provider has and keeps is answered by the blob, and its
\* capability hears of it, as long as the session lasts, whatever other transfers
\* go on at either node.
Delivered ==
  \A r \in Req : Clean(r) /\ Requested(r) /\ Served(r) ~>
    \/ ~Served(r)
    \/ Event(request[r].id, request[r].hash, "Complete") \in told[r]

\* Retransmission comes to an end, even when chunks of several transfers mix.
Quiesces ==
  <>[](\A n, m \in Node : job[n][m] = Idle /\ wire[n][m] = <<>>)

\* What the transfers of nodes whose requests are apart come to, blob by blob.
Firm == {copy \in Node \X Hash : Apart(copy[1]) /\ copy \notin Deletable}
Has == {copy \in Node \X Hash : Apart(copy[1]) /\ blob[copy[1]][copy[2]] = "whole"}
Succeeded == {r \in Req : Apart(request[r].by) /\ \E e \in told[r] : e.status = "Complete"}

\* However the messages of several transfers mix, a node whose requests are apart has
\* only blobs it had or asked for, got them where they were, and reports success only
\* of those.
Promise == INSTANCE BlobPromise WITH firm <- Firm, has <- Has, heard <- Succeeded
KeepsPromise == Promise!Spec

================================================================================
