------------------------------ MODULE BlobPromise ------------------------------
(* What blob transfer promises of blobs that are looked at as wholes, whatever *)
(* messages, retransmissions, files and losses there are in between: a node   *)
(* gets the blobs it asked for and no others, each from a node that has it,   *)
(* keeps what nobody takes away, and tells those who asked of what it has.    *)

CONSTANTS Node, Hash, Req

VARIABLES
  request,   \* what each request asks for; it never changes
  firm,      \* which node's copies of which blobs stay; nor does this
  asked,     \* the requests that have been made
  has,       \* which node has which blob
  heard      \* the requests whose capability was told of success

promiseVars == <<request, firm, asked, has, heard>>

Wanted(r) == <<request[r].by, request[r].hash>>
Source(r) == <<request[r].from, request[r].hash>>

\* A copy that is there, unless it is one that may be gone again.
Sure(copy) == copy \in has \/ copy \notin firm

Init == asked = {} /\ heard = {} /\ has \subseteq Node \X Hash

Asks(r) ==
  /\ asked' = asked \cup {r}
  /\ UNCHANGED <<request, firm, has, heard>>

Fetches(r) ==
  /\ r \in asked /\ Sure(Source(r))
  /\ has' = has \cup {Wanted(r)}
  /\ UNCHANGED <<request, firm, asked, heard>>

Hears(r) ==
  /\ r \in asked /\ Sure(Wanted(r))
  /\ heard' = heard \cup {r}
  /\ UNCHANGED <<request, firm, asked, has>>

Loses(copy) ==
  /\ copy \notin firm
  /\ has' = has \ {copy}
  /\ UNCHANGED <<request, firm, asked, heard>>

Next ==
  \/ \E r \in Req : Asks(r) \/ Fetches(r) \/ Hears(r)
  \/ \E copy \in Node \X Hash : Loses(copy)

Spec == Init /\ [][Next]_promiseVars
================================================================================
