------------------------------- MODULE FeedPosts -------------------------------
(* The feed capability (capabilities/feed/src: api.rs, db.rs, blob_fetcher.rs,  *)
(* posts.rs, main.rs): posts of the owner and of peers, and the fetch of the    *)
(* blobs attached to a peer's post.  Each attachment has a row in               *)
(* blob_transfers and a task that asks the daemon for the blob and then polls.  *)
(* A task runs from one await to the next in a step; the transfer between peers *)
(* is BlobTransfer's subject: here the blob comes, early or late, or never.     *)
EXTENDS Integers, FiniteSets

CONSTANTS
  Mine, Theirs, \* the owner's posts and the peers', which have ids of their own
  Blob,
  Attach,       \* Attach[p]: the blobs attached to post p
  MaxAttachments, \* the owner's limit
  Attempts,     \* of the daemon to post a message: 4
  Slots,        \* bound on the tasks of one row that run together
  MaxDeliveries, MaxCrashes, MaxDeletes

Post == Mine \cup Theirs

ASSUME FeedAssumption ==
  /\ Mine \cap Theirs = {} /\ Attach \in [Post -> SUBSET Blob] /\ Slots \subseteq Nat
  /\ MaxAttachments \in Nat /\ Attempts \in Nat \ {0}
  /\ MaxDeliveries \in Nat /\ MaxCrashes \in Nat /\ MaxDeletes \in Nat

VARIABLES
  posts,      \* the posts of the table
  rows,       \* rows[p][b]: status in blob_transfers, or "none"
  inbox,      \* messages the daemon is posting, with the attempts it has left
  unfetched,        \* peer posts inserted, whose fetch_post_blobs is spawned
  tasks,      \* runs of fetch_single_blob
  uploads,    \* the owner's posts whose blobs are stored
  store,      \* the daemon's blobs
  requested,  \* the daemon's transfers
  phase,      \* "up", "starting": resume_active_transfers still to run, or "down"
  gone,       \* blobs deleted by another capability: ghost
  orphaned,   \* posts whose fetch a crash lost: ghost
  deliveries, crashes, deletes

counters == <<deliveries, crashes, deletes>>
feedVars == <<posts, rows, inbox, unfetched, tasks, uploads, store, requested, phase,
          gone, orphaned, counters>>

NoRows == [b \in Blob |-> "none"]
Task == [post : Theirs, blob : Blob, slot : Slots, st : {"check", "request", "poll"}]

Active(p, b) == rows[p][b] \in {"pending", "fetching"}
TasksOf(p, b) == {t \in tasks : t.post = p /\ t.blob = b}
\* The first slot that none of these rows has a task in.
Clear(k, pairs) == \A t \in tasks : t.slot = k => <<t.post, t.blob>> \notin pairs
FreeFor(k, pairs) == Clear(k, pairs) /\ \A j \in Slots : j < k => ~Clear(j, pairs)
Spawned(k, pairs) == {[post |-> r[1], blob |-> r[2], slot |-> k, st |-> "check"] : r \in pairs}

\* update_blob_transfer: no row, no effect.
Marked(t, status) ==
  rows' = IF rows[t.post][t.blob] = "none" THEN rows
          ELSE [rows EXCEPT ![t.post][t.blob] = status]

FeedInit ==
  /\ posts = {} /\ rows = [p \in Post |-> NoRows] /\ inbox = {} /\ unfetched = {} /\ tasks = {}
  /\ uploads = {} /\ store = {} /\ requested = {} /\ phase = "up"
  /\ gone = {} /\ orphaned = {}
  /\ deliveries = 0 /\ crashes = 0 /\ deletes = 0

--------------------------------------------------------------------------------
(* The HTTP API.                                                               *)

\* validate_attachments_with_limits; what a peer attaches is not validated.
Valid(p) == Cardinality(Attach[p]) <= MaxAttachments

\* Mutant: a blob that cannot be stored does not stop the post.
UploadsAny(p, stored) ==
  /\ phase # "down" /\ p \in Mine \ (posts \cup uploads) /\ Valid(p)
  /\ store' = store \cup stored
  /\ uploads' = uploads \cup {p}
  /\ gone' = gone \ stored
  /\ UNCHANGED <<inbox, posts, rows, unfetched, tasks, requested, phase, orphaned, counters>>

\* create_post_multipart stores blob after blob; at the first that fails it stops.
Uploads(p, stored) ==
  /\ phase # "down" /\ p \in Mine \ (posts \cup uploads) /\ Valid(p)
  /\ store' = store \cup stored
  /\ uploads' = IF stored = Attach[p] THEN uploads \cup {p} ELSE uploads
  /\ gone' = gone \ stored
  /\ UNCHANGED <<inbox, posts, rows, unfetched, tasks, requested, phase, orphaned, counters>>

\* create_and_broadcast.
Publishes(p) ==
  /\ p \in uploads
  /\ uploads' = uploads \ {p}
  /\ posts' = posts \cup {p}
  /\ UNCHANGED <<inbox, rows, unfetched, tasks, store, requested, phase, gone, orphaned,
                 counters>>

\* forward_to_capability posts to the first capability of the active set that has
\* an endpoint, whatever the message: it need not be this one.
Forwards(p, first) ==
  /\ deliveries < MaxDeliveries
  /\ deliveries' = deliveries + 1
  /\ inbox' = IF first THEN inbox \cup {[post |-> p, left |-> Attempts]} ELSE inbox
  /\ UNCHANGED <<posts, rows, unfetched, tasks, uploads, store, requested, phase, gone,
                 orphaned, crashes, deletes>>

\* insert_post ignores a post whose id it has.
Fresh(p) == p \notin posts

\* Mutant: a duplicate is fetched again.
IngestsAgain(p) ==
  /\ posts' = posts \cup {p}
  /\ unfetched' = IF Attach[p] # {} THEN unfetched \cup {p} ELSE unfetched

\* p2pcd_inbound.
Ingests(p) ==
  /\ posts' = posts \cup {p}
  /\ unfetched' = IF Fresh(p) /\ Attach[p] # {} THEN unfetched \cup {p} ELSE unfetched

\* post_inbound_with_retry: the capability may not be there, and may have taken a
\* message whose answer does not come.
Posts(m, taken, answered) ==
  /\ m \in inbox /\ (answered => taken)
  /\ inbox' = (inbox \ {m})
       \cup IF answered \/ m.left = 1 THEN {} ELSE {[m EXCEPT !.left = @ - 1]}
  /\ IF taken THEN phase # "down" /\ Ingests(m.post) ELSE UNCHANGED <<posts, unfetched>>
  /\ UNCHANGED <<rows, tasks, uploads, store, requested, phase, gone, orphaned,
                 counters>>

\* The post's row, with those of its attachments and transfers.
RowsGone(p) ==
  /\ posts' = posts \ {p}
  /\ rows' = [rows EXCEPT ![p] = NoRows]

\* delete_post: the post's tasks and its blobs stay.
Deletes(p) ==
  /\ phase # "down" /\ p \in posts /\ deletes < MaxDeletes
  /\ deletes' = deletes + 1
  /\ RowsGone(p)
  /\ orphaned' = orphaned \ {p}
  /\ UNCHANGED <<inbox, unfetched, tasks, uploads, store, requested, phase, gone,
                 deliveries, crashes>>

\* get_attachment_status.
TransfersOf(p) == {b \in Blob : rows[p][b] # "none"}
AttachmentStatus(p) ==
  LET known == {rows[p][b] : b \in TransfersOf(p)} IN
  CASE known = {} -> "local"
    [] known = {"complete"} -> "complete"
    [] "failed" \in known -> "partial"
    [] OTHER -> "fetching"

--------------------------------------------------------------------------------
(* The fetcher.                                                                *)

\* fetch_post_blobs: INSERT OR IGNORE of each row, which the foreign key refuses
\* for a post that has gone meanwhile, and a task for each in any case.
Fetches(p, k) ==
  /\ p \in unfetched /\ FreeFor(k, {p} \X Attach[p])
  /\ unfetched' = unfetched \ {p}
  /\ rows' = IF p \in posts
               THEN [rows EXCEPT ![p] = [b \in Blob |->
                       IF b \in Attach[p] /\ @[b] = "none" THEN "pending" ELSE @[b]]]
               ELSE rows
  /\ tasks' = tasks \cup Spawned(k, {p} \X Attach[p])
  /\ UNCHANGED <<inbox, posts, uploads, store, requested, phase, gone, orphaned,
                 counters>>

\* Mutant: resumes what had not begun.
ResumesPending(k) ==
  LET active == {r \in Theirs \X Blob : rows[r[1]][r[2]] = "pending"} IN
  /\ phase = "starting" /\ FreeFor(k, active)
  /\ tasks' = tasks \cup Spawned(k, active)
  /\ phase' = "up"
  /\ UNCHANGED <<inbox, posts, rows, unfetched, uploads, store, requested, gone, orphaned,
                 counters>>

\* resume_active_transfers; posts may have been ingested before it runs.
Resumes(k) ==
  LET active == {r \in Theirs \X Blob : Active(r[1], r[2])} IN
  /\ phase = "starting" /\ FreeFor(k, active)
  /\ tasks' = tasks \cup Spawned(k, active)
  /\ phase' = "up"
  /\ UNCHANGED <<inbox, posts, rows, unfetched, uploads, store, requested, gone, orphaned,
                 counters>>

Advance(t, st) == tasks' = (tasks \ {t}) \cup {[t EXCEPT !.st = st]}
Finish(t) == tasks' = tasks \ {t}

\* What the bridge client says of a blob, and does with a request for one.
SeesBlob(b, asked) == asked /\ b \in store
Asked(b, taken) == requested' = IF taken THEN requested \cup {b} ELSE requested

\* fetch_single_blob finds the blob there; a status that cannot be had counts as no.
Checks(t, asked) ==
  /\ t.st = "check"
  /\ IF SeesBlob(t.blob, asked)
       THEN Marked(t, "complete") /\ Finish(t)
       ELSE Marked(t, "fetching") /\ Advance(t, "request")
  /\ UNCHANGED <<inbox, posts, unfetched, uploads, store, requested, phase, gone, orphaned,
                 counters>>

\* It asks for it; a request whose answer is lost may have been taken all the same.
Requests(t, answered, taken) ==
  /\ t.st = "request" /\ (answered => taken)
  /\ Asked(t.blob, taken)
  /\ IF answered THEN Advance(t, "poll") /\ UNCHANGED rows
                 ELSE Marked(t, "failed") /\ Finish(t)
  /\ UNCHANGED <<inbox, posts, unfetched, uploads, store, phase, gone, orphaned, counters>>

\* A poll finds it, at the latest
Finds(t) ==
  /\ t.st = "poll" /\ SeesBlob(t.blob, TRUE)
  /\ Marked(t, "complete") /\ Finish(t)
  /\ UNCHANGED <<inbox, posts, unfetched, uploads, store, requested, phase, gone, orphaned,
                 counters>>

\* Mutant: only stops.
TimesOutQuietly(t) ==
  /\ t.st = "poll" /\ Finish(t)
  /\ UNCHANGED <<inbox, posts, rows, unfetched, uploads, store, requested, phase, gone,
                 orphaned, counters>>

\* the 150th; after that the row has failed, and is never tried again.
TimesOut(t) ==
  /\ t.st = "poll"
  /\ Marked(t, "failed") /\ Finish(t)
  /\ UNCHANGED <<inbox, posts, unfetched, uploads, store, requested, phase, gone, orphaned,
                 counters>>

--------------------------------------------------------------------------------
(* The daemon, the files capability, and the process.                          *)

Arrives(b) ==
  /\ b \in requested
  /\ requested' = requested \ {b} /\ store' = store \cup {b} /\ gone' = gone \ {b}
  /\ UNCHANGED <<inbox, posts, rows, unfetched, tasks, uploads, phase, orphaned, counters>>

GivesUp(b) ==
  /\ b \in requested
  /\ requested' = requested \ {b}
  /\ UNCHANGED <<inbox, posts, rows, unfetched, tasks, uploads, store, phase, gone,
                 orphaned, counters>>

\* Blobs are shared: files deletes one together with its own offering.
DeletedElsewhere(b) ==
  /\ b \in store /\ deletes < MaxDeletes
  /\ deletes' = deletes + 1
  /\ store' = store \ {b} /\ gone' = gone \cup {b}
  /\ UNCHANGED <<inbox, posts, rows, unfetched, tasks, uploads, requested, phase, orphaned,
                 deliveries, crashes>>

Crashes ==
  /\ phase # "down" /\ crashes < MaxCrashes
  /\ crashes' = crashes + 1
  /\ phase' = "down" /\ tasks' = {} /\ unfetched' = {} /\ uploads' = {}
  /\ orphaned' = orphaned \cup (unfetched \cap posts)
  /\ UNCHANGED <<inbox, posts, rows, store, requested, gone, deliveries, deletes>>

Restarts ==
  /\ phase = "down" /\ phase' = "starting"
  /\ UNCHANGED <<inbox, posts, rows, unfetched, tasks, uploads, store, requested, gone,
                 orphaned, counters>>

--------------------------------------------------------------------------------
FeedApi ==
  \/ \E p \in Mine : (\E stored \in SUBSET Attach[p] : Uploads(p, stored)) \/ Publishes(p)
  \/ \E p \in Post : Deletes(p)

TaskStep(t) ==
  \/ \E asked \in BOOLEAN : Checks(t, asked)
  \/ \E answered, taken \in BOOLEAN : Requests(t, answered, taken)
  \/ Finds(t) \/ TimesOut(t)

Starts == \E k \in Slots : (\E p \in Theirs : Fetches(p, k)) \/ Resumes(k)

Daemon == \/ \E p \in Theirs, first \in BOOLEAN : Forwards(p, first)
          \/ \E m \in inbox, taken, answered \in BOOLEAN : Posts(m, taken, answered)

Outside == \/ \E b \in Blob : Arrives(b) \/ GivesUp(b) \/ DeletedElsewhere(b)
           \/ Crashes \/ Restarts

FeedNext == FeedApi \/ Daemon \/ Starts \/ (\E t \in tasks : TaskStep(t)) \/ Outside

\* What is spawned runs, and every call of a task returns or times out.
FeedFairness ==
  /\ \A p \in Theirs : WF_feedVars(\E k \in Slots : Fetches(p, k))
  /\ WF_feedVars(\E k \in Slots : Resumes(k))
  /\ \A p \in Theirs, b \in Blob, k \in Slots :
       WF_feedVars(\E t \in tasks : t.post = p /\ t.blob = b /\ t.slot = k /\ TaskStep(t))

FeedSpec == FeedInit /\ [][FeedNext]_feedVars /\ FeedFairness

--------------------------------------------------------------------------------
Statuses == {"none", "pending", "fetching", "complete", "failed"}

FeedTypeOK ==
  /\ posts \subseteq Post /\ rows \in [Post -> [Blob -> Statuses]]
  /\ inbox \subseteq [post : Theirs, left : 1 .. Attempts] /\ unfetched \subseteq Theirs
  /\ tasks \subseteq Task /\ uploads \subseteq Mine
  /\ store \subseteq Blob /\ requested \subseteq Blob /\ gone \subseteq Blob
  /\ phase \in {"up", "starting", "down"} /\ orphaned \subseteq Theirs
  /\ deliveries \in 0 .. MaxDeliveries /\ crashes \in 0 .. MaxCrashes
  /\ deletes \in 0 .. MaxDeletes

\* A transfer that is under way has somebody working on it: no crash, deletion or
\* second delivery leaves a row "pending" or "fetching" that no task will settle
\* (blob_fetcher.rs fetch_post_blobs, resume_active_transfers).
ActiveIsWorkedOn ==
  phase = "up" => \A p \in Post, b \in Blob : Active(p, b) => TasksOf(p, b) # {}

\* A post reported "local" or "complete" has its blobs in the store: but for one
\* whose fetch has not run or was lost in a crash, and for blobs that another
\* capability deleted (api.rs get_attachment_status).
StatusTrue ==
  \A p \in posts \ (unfetched \cup orphaned) :
    AttachmentStatus(p) \in {"local", "complete"} => Attach[p] \subseteq store \cup gone

\* One delivery is fetched once: without a deletion or a restart no row has two
\* tasks, however often the post arrives (api.rs p2pcd_inbound,
\* cap_notify.rs post_inbound_with_retry).
OneFetch ==
  crashes = 0 /\ deletes = 0 => \A p \in Theirs, b \in Blob : Cardinality(TasksOf(p, b)) <= 1

\* Every transfer comes to an end, or the process stops (blob_fetcher.rs
\* fetch_single_blob).
TransfersSettle ==
  \A p \in Post, b \in Blob : Active(p, b) ~> ~Active(p, b) \/ phase = "down"
================================================================================
