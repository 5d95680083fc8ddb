--------------------------------- MODULE Files ---------------------------------
(* The files capability: the catalogue of FilesCatalogue and the downloads      *)
(* (capabilities/files/src/api/mod.rs), which ask the daemon for a blob and     *)
(* wait for its callback (daemon/src/p2pcd/bridge/mod.rs and blob.rs).  What a  *)
(* transfer does between peers is BlobTransfer's subject: here it is answered,  *)
(* well or badly, or never.                                                     *)
EXTENDS FilesCatalogue

CONSTANTS
  Handlers,     \* requests to the download API in progress
  MaxRestarts   \* bound on restarts of the capability

ASSUME FilesAssumption == IsFiniteSet(Handlers) /\ MaxRestarts \in Nat /\ Blob # {}

VARIABLES
  downloads,   \* downloads[b]: the status of the row of blob b, if there is one
  handler,     \* what each request is at
  transfers,   \* the daemon's: blobs asked for, whose callback is registered
  answers,     \* callbacks on their way: <<blob, status>>
  unheard,     \* blobs of which an answer was lost, never came or met no row
  restarts

dlVars == <<downloads, handler, transfers, answers, unheard>>
vars == <<catVars, dlVars, restarts>>

Free == [st |-> "free", blob |-> CHOOSE b \in Blob : TRUE]
At(h, st) == handler' = [handler EXCEPT ![h].st = st]

Init ==
  /\ CatInit
  /\ downloads = [b \in Blob |-> "none"]
  /\ handler = [h \in Handlers |-> Free]
  /\ transfers = {} /\ answers = {} /\ unheard = {} /\ restarts = 0

\* Mutant: a failure leaves the row as it is.
UpdatedDone(b, status) ==
  downloads' = IF downloads[b] = "none" \/ status = "failed" THEN downloads
               ELSE [downloads EXCEPT ![b] = status]

\* update_download_status: no row, no effect.
Updated(b, status) ==
  downloads' = IF downloads[b] = "none" THEN downloads ELSE [downloads EXCEPT ![b] = status]

--------------------------------------------------------------------------------
(* POST /downloads.                                                            *)

\* blob_status, if the daemon answers.
Found(b, told) == told /\ b \in store

\* initiate_download, of a peer that is listed; a status that cannot be had counts
\* as no.
Asks(h, b, told) ==
  /\ Call /\ handler[h].st = "free" /\ listed # {}
  /\ handler' = [handler EXCEPT ![h] =
       [st |-> IF Found(b, told) THEN "found" ELSE "missing", blob |-> b]]
  /\ UNCHANGED <<offerVars, store, groupVars, walk, downloads, transfers, answers, unheard, restarts>>

\* download_status, of a row that is still transferring: blob_status knows better.
Polls(h, b) ==
  /\ Call /\ handler[h].st = "free" /\ downloads[b] = "transferring" /\ Found(b, TRUE)
  /\ handler' = [handler EXCEPT ![h] = [st |-> "found", blob |-> b]]
  /\ UNCHANGED <<offerVars, store, groupVars, walk, downloads, transfers, answers, unheard, restarts>>

\* Either way a blob that was found makes the row complete.
Heals(h) ==
  /\ handler[h].st = "found"
  /\ Updated(handler[h].blob, "complete")
  /\ handler' = [handler EXCEPT ![h] = Free]
  /\ UNCHANGED <<catVars, transfers, answers, unheard, restarts>>

\* A stale row is cleared; any other is a conflict.
Clears(h) ==
  LET b == handler[h].blob IN
  /\ handler[h].st = "missing"
  /\ IF downloads[b] \in {"none", "transferring"}
       THEN downloads' = [downloads EXCEPT ![b] = "none"] /\ At(h, "asking")
       ELSE handler' = [handler EXCEPT ![h] = Free] /\ UNCHANGED downloads
  /\ UNCHANGED <<catVars, transfers, answers, unheard, restarts>>

\* handle_blob_request registers the callback and sends the request; to a peer
\* without a session it fails, and the callback stays.
Requests(h, sent) ==
  /\ handler[h].st = "asking"
  /\ IF sent THEN transfers' = transfers \cup {handler[h].blob} /\ At(h, "asked")
             ELSE handler' = [handler EXCEPT ![h] = Free] /\ UNCHANGED transfers
  /\ UNCHANGED <<catVars, downloads, answers, unheard, restarts>>

\* insert_download: one row per blob.
Recorded(b) ==
  downloads' = IF downloads[b] = "none" THEN [downloads EXCEPT ![b] = "transferring"]
               ELSE downloads

\* Only now comes the row, unless another request was faster.
Records(h) ==
  /\ handler[h].st = "asked"
  /\ handler' = [handler EXCEPT ![h] = Free]
  /\ Recorded(handler[h].blob)
  /\ UNCHANGED <<catVars, transfers, answers, unheard, restarts>>

--------------------------------------------------------------------------------
(* The daemon.                                                                 *)

\* The transfer ends, and the watcher fires its callback,
Ends(b, status) ==
  /\ b \in transfers
  /\ transfers' = transfers \ {b}
  /\ store' = IF status = "complete" THEN store \cup {b} ELSE store
  /\ lost' = IF status = "complete" THEN lost \ {b} ELSE lost
  /\ answers' = answers \cup {<<b, status>>}
  /\ UNCHANGED <<offers, creating, deleting, made, groupVars, walk, calls,
                 downloads, handler, unheard, restarts>>

\* or it does not: NOT_FOUND, a broken session and a restarted daemon tell nobody.
Stalls(b) ==
  /\ b \in transfers
  /\ transfers' = transfers \ {b}
  /\ unheard' = unheard \cup {b}
  /\ UNCHANGED <<catVars, downloads, handler, answers, restarts>>

\* transfer_complete.
Hears(b, status) ==
  /\ <<b, status>> \in answers
  /\ answers' = answers \ {<<b, status>>}
  /\ Updated(b, status)
  /\ unheard' = IF downloads[b] = "none" THEN unheard \cup {b} ELSE unheard
  /\ UNCHANGED <<catVars, handler, transfers, restarts>>

\* The callback is posted once.
Misses(b, status) ==
  /\ <<b, status>> \in answers
  /\ answers' = answers \ {<<b, status>>}
  /\ unheard' = unheard \cup {b}
  /\ UNCHANGED <<catVars, downloads, handler, transfers, restarts>>

\* The capability dies and is started again: its tables and the store stay.
Restarts ==
  /\ restarts < MaxRestarts
  /\ restarts' = restarts + 1
  /\ creating' = {} /\ deleting' = {} /\ fetching' = {}
  /\ listed' = {} /\ cached' = [p \in Peer |-> {}]
  /\ handler' = [h \in Handlers |-> Free]
  /\ UNCHANGED <<offers, store, lost, made, accessVars, behind, calls,
                 downloads, transfers, answers, unheard>>

--------------------------------------------------------------------------------
Api == \E h \in Handlers :
         \/ \E b \in Blob : (\E told \in BOOLEAN : Asks(h, b, told)) \/ Polls(h, b)
         \/ Heals(h) \/ Clears(h) \/ Records(h)
         \/ \E sent \in BOOLEAN : Requests(h, sent)

Status == {"complete", "failed"}
Answered(b) == \E status \in Status : Ends(b, status)
Daemon == \E b \in Blob : \/ Answered(b) \/ Stalls(b)
                          \/ \E status \in Status : Hears(b, status) \/ Misses(b, status)

Next == \/ CatNext /\ UNCHANGED <<dlVars, restarts>>
        \/ Api
        \/ Daemon
        \/ Restarts /\ Watch

\* Handlers run on, a request is answered or given up, and an answer arrives.
Fairness ==
  /\ \A h \in Handlers : WF_vars(Heals(h) \/ Clears(h) \/ Records(h))
                         /\ WF_vars(\E sent \in BOOLEAN : Requests(h, sent))
  /\ \A b \in Blob : /\ WF_vars(Answered(b) \/ Stalls(b))
                     /\ \A status \in Status : WF_vars(Hears(b, status) \/ Misses(b, status))

Spec == Init /\ [][Next]_vars /\ Fairness

--------------------------------------------------------------------------------
TypeOK ==
  /\ CatTypeOK
  /\ downloads \in [Blob -> Status \cup {"none", "transferring"}]
  /\ handler \in [Handlers -> [st : {"free", "found", "missing", "asking", "asked"}, blob : Blob]]
  /\ transfers \subseteq Blob /\ answers \subseteq Blob \X Status /\ unheard \subseteq Blob
  /\ restarts \in 0 .. MaxRestarts

\* A download that is under way comes to an end, whatever other requests for the
\* blob do: but for one whose answer never came, was lost, or overtook its row
\* (api/mod.rs initiate_download, transfer_complete).
DownloadsSettle ==
  \A b \in Blob : downloads[b] = "transferring" ~>
                    downloads[b] # "transferring" \/ b \in unheard
================================================================================
