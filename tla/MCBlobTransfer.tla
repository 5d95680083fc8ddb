---------------------------- MODULE MCBlobTransfer ----------------------------
(* Finite instances of BlobTransfer: a fixed request of alice to bob, and one *)
(* more request between any two nodes.                                        *)
EXTENDS BlobTransfer

CONSTANTS alice, bob, carol,  \* nodes
          big, small,        \* blobs of two chunks and of one
          huge, empty,       \* one larger than max_bytes, one without a chunk
          r1, r2             \* requests

AllChunks == [h \in Hash |-> CASE h = big -> 2 [] h = empty -> 0 [] OTHER -> 1]

OneLink == {{alice, bob}}
OneBlob == {<<bob, big>>}

Requests(by, from, ids, hashes) == [by : by, from : from, id : ids, hash : hashes]

\* What the second request asks for: of alice, with the same id or for the same
\* blob; of anybody else, with the same id and for any blob.
Second ==
  Requests({alice}, {bob, carol}, {1}, {small})
  \cup Requests({alice}, {carol}, {2}, {small, big})
  \cup {q \in Requests({bob, carol}, Node, {1}, Hash) : q.by # q.from}

\* A node does not hold what it asks for, and holds nothing nobody asks it for.
Sensible ==
  /\ \A r \in Req : blob[request[r].by][request[r].hash] = "none"
  /\ blob[bob][big] = "whole"
  /\ \A n \in Node, h \in Hash : blob[n][h] = "whole" =>
       \E r \in Req : request[r].from = n /\ request[r].hash = h

\* alice asks bob for big.
MCInit ==
  /\ \E q \in Second :
       request = [r \in Req |->
         IF r = r1 THEN [by |-> alice, from |-> bob, id |-> 1, hash |-> big] ELSE q]
  /\ Init /\ Sensible

MCSpec == MCInit /\ [][Next]_vars /\ Fairness

================================================================================
