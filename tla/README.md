# Howm, modelled in TLA+

Howm is a peer-to-peer capability platform: a Rust daemon (`src/node/daemon`)
keeps a WireGuard mesh, runs the P2P-CD session protocol over it
(`src/node/p2pcd`, `src/node/p2pcd-types`) and hands capability traffic to
child processes (`src/capabilities/*`).  This directory holds TLA+ models of
the parts of that system whose correctness depends on order and interleaving,
the TLC configurations that check them, and TLAPS proofs about them.

Line references below are to files under `src/`.

## 1. Inventory

### How the parts interact

```
 WireGuard monitor ──PeerVisible/Unreachable──┐      HTTP API (invites, peers, access, deny)
                                              v           │            │
 TCP accept ──────────────────────────> ProtocolEngine <──┘       json files, access.db,
                                        │  maps per peer: sessions,    WireGuard peers
      one session runner per socket ────┤  peer_senders, mux_handles,
        OFFER/CONFIRM, then             │  heartbeat_handles, peer_cache
        mux + heartbeat + dispatch      ├── CapabilityNotifier ──HTTP POST──> capability
                                        ├── EventBus ──SSE──────────────────> processes:
        wire messages ──> router ──> handlers (rpc, blob, relay, ...)        messaging, feed,
                                        ^                                    files, voice,
                       bridge (send, rpc, blob, peers) <──HTTP──             presence
```

### Components

| component | state | operations | what is hard | what makes it correct |
|---|---|---|---|---|
| Session engine: `node/daemon/src/p2pcd/engine/{mod,session_runner,teardown,peer_cache}.rs` | `sessions`, `peer_senders`, `mux_handles`, `heartbeat_handles`, `peer_cache`, the handlers' per-peer senders; one task per socket, mux, heartbeat, writer | dial, accept, glare check, `post_session_setup`, `tear_down_mux_only`, `on_peer_unreachable`, `deny_session`, `rebroadcast`, `send_to_peer` | every map has its own lock and no operation holds two; runners, the two event loops, HTTP handlers and the bridge interleave at every await | the socket in use was vetted by an exchange and is watched; a broken one is dropped; maps agree once nothing is in progress; capabilities are told the truth |
| OFFER/CONFIRM exchange: `p2pcd/src/session.rs`, `p2pcd-types/src/{scope,wire}.rs` | two ends: local and remote manifest, computed set, final set | offer, confirm, both roles; role matching, trust gate, parameter reconciliation | gates that change between the two computations; socket failures and timeouts between any two messages | both ends hold one set that both permitted; nobody waits forever |
| Glare between two nodes: `session_runner.rs` 89-132, 204-250 | each node's sender and session for the other | check, yield, replace, wire, insert | exchanges end in different orders at the two nodes | both settle on one socket; nobody is left without one |
| Transport, mux, heartbeat: `p2pcd/src/{transport,mux,heartbeat}.rs` | channels of 64 messages, the missed-PONG counter | reader, writer, routing, PING/PONG, Timeout | channels closing in any order | a dead socket is noticed; its end reaches the engine |
| Blob transfer: `p2pcd/src/capabilities/blob.rs`, `p2pcd/src/blob_store.rs` | inbound and outbound transfers by transfer id, files on disk | request, offer, chunk, ACK, retransmit, reap, deactivate | locks released around disk writes; retransmission against late chunks; ids chosen by the requester | a completed blob has the requested hash; a transfer ends, and the caller learns how |
| RPC, bridge and direct messages: `p2pcd/src/capabilities/rpc.rs`, `daemon/src/p2pcd/bridge/`, `capabilities/messaging/src/{api,db}.rs` | `rpc_waiters` by request id; messages and their delivery status on both sides | call, request, response, timeout, error; send, receive, page | late responses, answers matched by number alone, a timed-out delivery that may have happened | "delivered" means stored at the receiver; a call ends |
| Capability events: `event_bus.rs`, `bridge/events.rs`, `capability_sdk.rs` | broadcast buffer of 1024, subscribers, a `PeerTracker` | snapshot, publish, lag, reconnect | the snapshot against the stream | a subscriber's picture converges to the engine's |
| Invites, peers and addresses: `invite.rs`, `open_invite.rs`, `wireguard.rs`, `api/{node_routes,lan_routes,access_routes}.rs` | JSON files, WireGuard peers, groups | create, redeem, complete, accept, LAN, open join, remove, restart | unlocked read-modify-write, calls between two daemons that fail half-way | an invite is used once, an address belongs to one peer, two nodes agree on whether they are peers |
| Relay and matchmaking: `capabilities/relay.rs`, `connectivity/matchmake.rs` | circuit tables at three nodes, one event callback | open, data, close, initiate, answer | ids reused by several initiators, one global callback, check and insert under different locks | data reaches the circuit's other end; a call gets the answer to its own request |
| Hole punching: `connectivity/{stun,punch}.rs`, `accept.rs` | NAT profile on disk, endpoint information, key file, WireGuard peer | detect, exchange, predict, punch | two punches at one key file; profiles that are stale when used | WireGuard gets the right key and, where it can be known, the right port |
| Voice: `capabilities/voice/src` | rooms, invitations, signalling senders | create, join, invite, leave, clean-up, hooks | hooks of a flapping peer in any order; sockets that replace one another | rooms have members, the hub has live senders, who is gone leaves |
| Files: `capabilities/files/src` | offerings, downloads, cached groups | offer, withdraw, list, download | awaits between database, daemon and callback | what is offered can be had and downloads end |
| Feed: `capabilities/feed/src` | posts, rows of `blob_transfers`, tasks | post, ingest, fetch, resume | repeated deliveries, deletions and crashes beside running tasks | every transfer is worked on and settles; its status is true |
| Access database: `node/access/src/db.rs` | groups, memberships | create, delete, assign, resolve | changes during an exchange; caches elsewhere | its answer is the trust gate |
| Streams, presence, small wire capabilities, codec, web UI, HTTP routing, peer monitor | see `PROJECT.json` | | mostly CRUD and I/O | |

`PROJECT.json` lists every component with its sources and status, and every
hazard at its line with the properties that cover it.

## 2. How the modules build on each other

```
 SessionAgreement <──implements── SessionExchange      P2pcdEngine  (one node)
        ^ INSTANCE per socket
      Glare (two nodes)                DirectMessages (RPC and bridge)

 BlobPromise <──implements── BlobTransfer

 AccessGroups <── FilesCatalogue <── Files             CapEvents <── VoiceRooms
 RelayCircuits <── Matchmaking      NatProfile <── HolePunch      Peering      FeedPosts
```

An arrow points to what is extended or instantiated.  `MC*` modules hold finite
instances for TLC, `*_proofs` modules the theorems.  Each module takes from the
layer below it only what that layer promises: `P2pcdEngine` takes the outcome
of an exchange as an input, `Glare` takes `SessionAgreement`, `Files` and
`FeedPosts` take "a blob comes, or an error, or nothing" from `BlobTransfer`,
`HolePunch` takes "a message arrives or not" from `Matchmaking`.

What would add most next: the bounded channels of transport, mux and dispatch
(two peers that stream blobs to each other fill 64 slots in both directions and
each dispatch loop waits for the other until the 10 s write timeout ends the
session).

## 3. The modules and the code

### P2pcdEngine

One node; each action is one segment between two lock acquisitions.

| in the module | in the code |
|---|---|
| `sessions`, `held` | `ProtocolEngine.sessions` and the `transport: Option<..>` of the stored `Session` |
| `senders`, `muxHandle`, `hbHandle`, `cache` | `peer_senders`, `mux_handles`, `heartbeat_handles`, `peer_cache` |
| `handlers` | the per-peer senders the rpc, blob, stream, relay and event handlers keep (`add_peer_sender`, `remove_peer_sender`) |
| `muxUp`, `hbUp`, `broken`, `closed`, `hbq` | whether a socket's mux and heartbeat tasks run, whether it is dead, whether `SharedSender::is_closed()` holds, and the heartbeat event channel |
| `told` | the last of peer-active and peer-inactive published for a peer |
| `rpc` and `rpeer`, `rinit`, `rout`, `rhb` | one runner task per socket: `run_initiator_session`, `run_responder_session` |
| `tpc` .. `tcaps` | `on_peer_unreachable` as run by the WireGuard loop, the heartbeat loop and an HTTP handler |
| `rb`, `evict` | the loop of `rebroadcast`; the two halves of `send_to_peer` |
| `raced` | history: whether two activities for one peer have overlapped |

`GlareCheck` .. `InsertSession` are `session_runner.rs:89-252` and
`post_session_setup` (`session_runner.rs:255-455`); `TearDrops` ..
`FinishTeardown` are `teardown.rs`; `Rb*` is `mod.rs:407-517`.  The outcome of
an exchange is an input here (`Outcomes`, `HbChoices`): `SessionExchange` says
how it comes about.

### SessionExchange and SessionAgreement

`SessionExchange` is one socket with its two ends: `pc` and `wire`, the manifest
each end sent, the access database behind each trust gate (`gate`, which changes
at any moment), the set each end computed (`ours`) and the one it kept
(`final`).  `Intersection`, `Reconcile` and `Final` are
`compute_intersection`, `reconcile_uint_zero_unlimited` and `intersect_sets` with
`reconcile_confirm_params`.  One parameter stands for `rate_limit` and `ttl`, the
only ones a configuration produces (`config.rs:183-191` leaves the extensions
empty, so the rules for booleans and text are never reached).  The CLOSE that an
exchange could be answered with is never sent by this program.

`SessionAgreement` says in three actions what the engine may rely on: the
responder settles the outcome, the initiator learns that outcome and no other,
and only an end that has none fails.  `SessionExchange` implements it under the
mapping `Outcome`.

### Glare

Two nodes, and for each socket a runner at either end.  It keeps of the engine
what the choice of a socket depends on: `sender` (`peer_senders`), `session` and
`held` (`sessions`), `down` and `closed` (which sockets have lost an end and who
has noticed).  The exchange of every socket is an instance of
`SessionAgreement`, so nothing but its promise is used.  It covers the seconds
until the first heartbeat is due, and exchanges that find something in common;
what heartbeats and WireGuard events do afterwards is `P2pcdEngine`'s.

### BlobTransfer

Any number of nodes, each requester and provider at once.

| in the module | in the code |
|---|---|
| `inbound`, `outbound` | the two tables of `BlobHandler`, keyed by transfer id alone |
| `wire[n][m]`, `job[n][m]` | what m sent n, and where n's dispatch loop for m is in a handler that awaits between its steps |
| `tmp`, `blob` | the files `tmp/<hash>` and `<prefix>/<hash>` of `BlobStore` |
| `job.file` | which of the two names, if any, a writer's open file still has |
| `callback`, `events`, `told` | `TransferCallbackRegistry`, the channel of `TransferEvent`s, and what capabilities were told |
| `Ask`, `Watch`, `Delete` | the bridge: `handle_blob_request`, `spawn_transfer_watcher`, `handle_blob_delete` |
| `NotFound`, `Offers`, `SendChunk`, `Acked`, `Retransmits` | `handle_req`, `send_chunks`, `handle_ack` |
| `HandleOffer` .. `RemoveTransfer` | `handle_offer`, `handle_chunk`, `BlobWriter` |
| `Breaks`, `Deactivates` | the end of a session and `on_deactivated`; the dispatch loop still handles what its channel holds |

The content of a blob is its hash and a chunk's content the hash of the blob it
was read from, so that a blob put together from chunks of two transfers is
recognised as a wrong one.  Every request registers a callback here (those of the
feed capability need not), and a link that has broken is not opened again.

`BlobPromise` looks at blobs as wholes: requests are made (`Asks`), a node that has
asked gets the blob if the one it asked has it (`Fetches`), those who asked are told of
what is there (`Hears`), and a copy goes only where somebody may take it away
(`Loses`).  `BlobTransfer` implements it with `Has` the whole blobs in the stores,
`Firm` the copies nobody deletes and `Succeeded` the requests whose capability heard
"Complete".  It speaks of the nodes whose own requests are apart: two requests of a node
with one id or one blob break it (section 4).

### DirectMessages

Two or more nodes, each a daemon and a messaging process that may die apart
from each other; a message is a call of `dm.send`.

| in the module | in the code |
|---|---|
| `sent`, `received`, `sentAt` | the rows of each node's `messaging.db` |
| `caller`, `number`, `mailbox` | `send_message` and the `handle_rpc` it waits for (`bridge/messaging.rs`), with the oneshot of the call |
| `waiters`, `counter` | `RpcHandler.rpc_waiters`, `RPC_REQUEST_COUNTER` |
| `sender`, `joined`, `dead`, `inbox`, `job` | `peer_senders`, the dispatch loop of each socket and the request it is busy with |
| `Register`, `Request`, `Unsent`, `Collect`, `Timeout` | the steps of `handle_rpc` and what `send_message` writes afterwards |
| `TakeRequest`, `Persist`, `Refused`, `Respond`, `TakeResponse` | `RpcHandler::on_message`, `cap_notify.rs`, `receive` in `messaging/src/api.rs` |
| `Join`, `Break`, `Leave`, `CapDies`, `CapStarts`, `DaemonRestarts` | sockets and processes |
| `Page` | `MessageDb::get_conversation` |

A response is matched by its number alone, and a daemon that restarts counts
from the beginning, hence the premise `restarts = 0` of `DeliveredIsStored`.

### Peering

Requests are jobs: the list `Program` gives the steps of each handler with
those of the handler it calls at the other daemon, and `at` is where in it a job
is.  A file is read in one step and rewritten in another, from the copy that was
read, as `assign_next_address`, `consume_by_psk` and the others do.  Operators on
lists and files say what they return by what is true of it (`IsNext`, `Without`,
`IsFirst`, `Restored`), for any order of the directory.

| in the module | in the code |
|---|---|
| `listed`, `saved`, `invites`, `addresses`, `open` | `peers.json`, `wireguard/peers/`, `pending_invites.json`, `addresses.json`, the open invite |
| `tunnel` | `wg set peer` on each node's interface |
| `Create`, `Redeem`, `RedeemAccept`, `LanInvite`, `RedeemOpen`, `Forget` | `create_invite`, `redeem_invite` with `complete_invite`, `redeem_accept`, `lan_invite` and `lan_accept`, `redeem_open_invite` with `open_join`, `remove_peer` |
| `Abandon`, `Restart` | a call that fails half-way; `main.rs` restoring peers and groups |
| `SwitchOpen`, `Deny`, `AssignToGroup`, `RemoveFromGroup`, `UpdateTrust` | the settings and `access_routes.rs` |
| `trouble` | history: what has gone wrong so far (two writers of a file at once, a one-sided request, requests that cross) |

### RelayCircuits and Matchmaking

`RelayCircuits` is `RelayHandler` at every node: each plays relay, initiator and
target by what its tables hold.  `Open` is checked in one step and stored in
another (`opening`), as `handle_open` does under two locks.  `Matchmaking` adds
`initiate_matchmake`, `handle_incoming_matchmake` and the event callback they
share (`listener`): a call replaces it and never gives it back.  `disturbed` is a
history variable: two circuits met under one number, a target did not listen, or
something failed.  The engine never
calls `add_peer_sender` on the relay handler, so in the program as wired no
circuit opens; the models take the senders as given, as the handler's tests do.

### CapEvents and VoiceRooms

`CapEvents` has one capability of one daemon: the sessions that come and go
(`active`, and `due` for what the engine has still to publish), the bus with its
capacity and lag, the stream with its snapshot, the client that reads, reconnects
and keeps a `PeerTracker`, and the `on_inactive` hooks it spawns.
`VoiceRooms` is the voice capability on top of it: rooms (`RoomStore`), the
signalling hub and its sockets, joins that await a tunnel check, invitations
from peers, clean-up, and the hook that looks at the tracker before it removes
a peer (`doomed` between the two).  `handle_invite` asks for the write lock of the
rooms while it holds the read lock (`bridge.rs:121-150`); the model does what
the code does, and is `hung` from there on.

### AccessGroups, FilesCatalogue and Files

`AccessGroups` is the part of the access database that says who is in which
group.  `FilesCatalogue` is what the files capability offers: `Creates` and
`Inserts` are the two halves of either create handler with the await between
them, `DeletesRow` and `DeletesBlob` those of `delete_offering`; `Lists`,
`Fetches`, `Caches` the `on_active` hook; `Begins` and `Turns` a reader of
`catalogue.list`, whose offset paging (`PageAt`, `NextCursor`) is the code's.
`Visible` is the set of rows a peer may see and `Rank` the place of one among
them.  A new row comes in anywhere: the list is ordered by `created_at` alone, in
whole seconds of a clock that may be set back (`db.rs:140`).
`Files` adds downloads: `Asks`, `Clears`, `Requests`, `Records` are
`initiate_download` from await to await, `Polls` and `Heals` the status route,
`Ends`, `Hears`, `Misses`, `Stalls` the transfer, its callback and the ways they
come to nothing; `Restarts` is the capability process dying.

### FeedPosts

`Uploads` and `Publishes` are `create_post_multipart`; `Forwards` and `Posts` the
daemon handing over a peer's post, several times if the answer is lost
(`post_inbound_with_retry`); `Fetches`, `Checks`, `Requests`, `Finds`, `TimesOut`
the tasks of `blob_fetcher.rs`; `Resumes` is `resume_active_transfers`, which runs
beside the API after a start.  `gone` and `orphaned` are history variables.

### NatProfile and HolePunch

`NatProfile` holds what is computed: `characterize_nat`, the profile on disk, what
a token and a matchmake message carry and how they are read back (16-bit ports,
`as i16` strides), `Candidates` for `build_candidates` (`Listed` is the list before
its repetitions and unusable ports go, `Once` what remains) and `Turn` for the order in
which `run_punch` goes through them.  `HolePunch` has two
nodes behind NATs, the accept token of an invite, the host's punch, the relayed
exchange, and `run_punch` step by step: `WritesKey`, `SetPeer`, `RemoveKey` are
`add_peer` with its file `psk_punch.tmp`, `Try`, `Connected`, `TriesOn`, `GivesUp` the
loop.  `Send` is WireGuard and the NATs (external).

## 4. The runs

| run | instance | shows |
|---|---|---|
| `engine_live` | one peer, two sockets, heartbeats negotiated, the heartbeat loop | the socket in use is watched at every moment; a dead one leaves `peer_senders`; without overlap the maps agree and every announced peer has a session |
| `engine_api` | one peer, one socket, both outcomes, with and without heartbeat; WireGuard loop, deny, rebroadcast and bridge at once | `peer_senders` only holds vetted sockets |
| `session_exchange` | heartbeat and one more capability in every role, mutual or not, limits 0, 1 and 2, every gate | consent, most restrictive limit, completion, and the implementation of `SessionAgreement`, which implies `Agreement` |
| `glare` | sockets l (low dials), h1 and h2 (high dials) | agreement on the designated socket unless runners of one node race; nobody left bare even then |
| `blob_transfer` | alice asks bob for a blob of two chunks; a second request between any two of alice, bob and carol | what is stored is what was asked for, isolation, the implementation of `BlobPromise`, delivery, quiescence |
| `direct_messages` | two messages one way (in order) or both ways, a socket that breaks or is replaced, a messaging process that dies or a daemon that restarts | "delivered" is true, paging skips only rows of one timestamp, calls end |
| `peering` | two nodes, three requests of every kind, two at a time, one fault | addresses and invites are given once; undisturbed requests leave two nodes agreeing |
| `matchmaking` | three nodes with a relay in common, two calls between any of the four, one fault where a node of a call is `a`, a relay limit of one circuit for `a` | capacity, answers to the right request, nothing lost |
| `voice_rooms` | one peer, one room, two sockets, a bus of one event, three changes of the session, a broken stream | the tracker converges, who is gone leaves, the hub and the rooms stay clean |
| `files` | two blobs (one too big), two names, two groups, two policies, pages of one, one download handler, a restart | offered is stored, caches are fresh, pages complete, downloads settle |
| `feed` | the owner's and a peer's post share a blob; one delivery of two attempts, one deletion, one crash | transfers are worked on, statuses are true, one fetch a delivery, transfers settle |
| `hole_punch` | an invite of either node, a cone against a cone or a symmetric NAT with a negative stride, one silent STUN server | the right key, the right guess, endpoints that heal |

Why the bounds are enough:

* The engine's maps are per peer and no action relates two peers, but for the
  set `rebroadcast` walks through: one peer suffices.  Two sockets
  give every replacement (canonical by non-canonical and back, alive or dead); a
  third adds further overlaps of the same kind.  `engine_api` has one socket,
  because its concurrent tasks already overlap with each other and with the
  one runner in every order (two sockets with all tasks have more than 20 million
  states).  `SendersVetted`, `InUseIsWatched`, `SerialTracked` and `SerialTold` are
  proved for any peers, sockets and tasks.
* Matching and reconciliation treat every capability on its own, except for the
  heartbeat, which passes every gate; hence the heartbeat and one other.
  Limits 0, 1, 2 have the unlimited value and two that differ.
* `Glare`: l against h1 is the glare itself; h2 is the second attempt of a node
  that dials again, so a non-canonical socket meets another one and a
  canonical one replaces either.  `Designated` speaks of histories with at most
  one socket of the lower node.
* `BlobTransfer`: two chunks give a first and a last one; a blob of one chunk
  next to it makes chunks of one transfer fall outside or inside the other.  The
  second request ranges over the same id at the same requester (another provider
  or the same), another id for the same blob, the same blob, the reverse
  direction, a shared provider, a provider that is itself a requester.
  `huge` is refused, `empty` has no chunks.  One retransmission
  (`MaxAttempts = 1` for the 3 of the code) distinguishes the first attempt, a
  retry and giving up.  One link may break and one blob may be deleted, both on
  the way of the first request.  The proofs of `StoredIsWhole`, `Isolation` and
  `KeepsPromise` have no bound.
* `DirectMessages`: two calls are the least that can be confused, block each
  other's dispatch loops or straddle a page; two sockets give a replacement while
  a request is served.  Where both messages go the same way they are alike but for
  which of them is stored first, and the run takes it to be m1 (`InOrder`).
  `DeliveredIsStored` and `PagesLeaveNoGap` are proved for any
  number of messages, nodes, sockets and faults.
* `Peering`: a race needs two jobs at a time, and a third job that comes after
  them uses what they left.  Addresses up to 5 are more than three jobs assign.
  Jobs are interchangeable, hence the symmetry; the runs with it have no
  liveness.  All three invariants are proved for any nodes, jobs and bounds.
* `Matchmaking`: two calls from one node or from two clash over ids, the
  callback and the relay's capacity; with a third node two calls may have nothing
  but the relay in common.  The limits of one and two let one session be full and
  the other not.  Two of the nodes are alike, hence the symmetry.  `a` is the node
  the limit is about: of two calls one of which is `a`'s, that one begins first, and
  faults happen in histories in which `a` has called (`FirstIsOfA`, `FaultsOfA`); calls
  of the other nodes meet each other and the relay undisturbed.  All three invariants are proved for any nodes, calls, sessions and faults.
* `VoiceRooms`: `Capacity = 1` for 1024 makes the second event lag;
  three changes bring a peer up, down and up again, so a hook can come late.
  Every room and every peer is handled apart from the others, but for the clean-up.
  `Wrap = 4` stands for 2^64.
* `Files`: two slots let two hooks of one peer overlap, which is what a third could
  do too; with pages of one row, two offerings are two pages.  The proofs of
  `OfferedIsStored`, `CacheIsFresh` and `PagesComplete` have no bound.
* `FeedPosts`: two attempts let a post arrive twice, two slots let an old task run
  beside a new one; one crash and one deletion each meet every step.  The proofs
  of its three invariants have no bound.
* `HolePunch`: two strides and one neighbour for 5 and 10, one and two endpoints
  tried for 15 and 75; `GuessesRight` counts with `Strides`, not with 5.  It and
  `KeyIsOwn` are proved for any NATs, strides, neighbours and numbers of invites.

Deadlock is not checked: in every model all sockets, requests, calls or changes may
be used up, which is an end and not an error.  The states in which somebody waits
for ever are the subject of `BrokenRetired`, `Completes`, `Delivered`, `Quiesces`,
`Settles`, `NothingLost`, `Converges`, `GoneLeave`, `DownloadsSettle`,
`TransfersSettle` and `Heals`.

What the less obvious premises mean:

* `raced` in `SerialTracked`, `SerialTold` and `AgreeUnraced`: the locks do not
  protect a sequence of segments, so overlapping activities do leave the maps in
  disagreement (section 6).  The properties say that overlap is the *only* reason.
  The second half of `send_to_peer`, which removes a sender it found closed
  earlier, is an activity like the others: with three sockets it may remove the
  live successor of the socket it was about.
  `"raced"` in `AddressesDistinct` and `InviteSpent`, `trouble` in `TunnelsAgree`,
  `raced` and `disturbed` in `Matchmaking` and `overlapped` in `KeyIsOwn` say the same
  of unlocked files, half-done requests, overlapping OPENs, one callback for all
  calls and one key file.
* `Clean`, `Apart` in `BlobTransfer`: every capability counts its ids from 1
  again after each start, so ids of different requests do coincide, and then
  transfers do disturb each other.  The properties say who is safe: a request
  none of whose ids or blobs meets another one at its own two nodes.
* `Served` in `Delivered`: the session lasts, the provider keeps the blob, and
  it has at least one chunk and is not refused.
* `untold`, `vanished`, `late` in `Converges` and `GoneLeave`: a peer with a change
  the engine never published, one that a snapshot took out of the tracker without
  its hook, one that took a seat after the hook.
* `lost`, `Huge` in `OfferedIsStored`, `behind` in `CacheIsFresh`, `unheard` in
  `DownloadsSettle`, `gone` and `orphaned` in `StatusTrue`: the ways in which
  section 6 says these fail; every other way is excluded.

## 5. Fairness

All fairness is weak and names what the runtime or a timer drives: runners (each
read of an exchange has a 10 s timeout), the heartbeat task's timers, the event
loop that drains the heartbeat channel, a teardown once begun; in
`SessionExchange` that an end reads what has arrived and that a read on a broken
socket returns an error; in `BlobTransfer` the dispatch loops and the transfer
watcher; in `DirectMessages` the callers and dispatch loops, the far end of a
socket that is set up, and a time-out only where something was lost; in
`CapEvents` the publishing engine, the stream and the client, which
reconnects for ever; in `VoiceRooms` the spawned hooks; in `Files` that handlers run
on and a request is answered or given up; in `FeedPosts` that what is spawned runs
and its calls return or time out (30 s for a call, 150 polls); in
`HolePunch` WireGuard's keepalives.  Nothing is assumed of the network (that
sockets break, stay up or deliver), of users, HTTP clients, WireGuard events, or
of capabilities.  `Completes`, `Delivered` and `Heals` carry the lasting connection
as a premise instead.  `Peering` and `Matchmaking` state no fairness: their
properties are about every state, or every state at rest.

## 6. What the code does otherwise than it says

Found while modelling; the models do what the code does.

Engine and exchange:

* `deny_session` caches the outcome Denied "so we don't reconnect"
  (`teardown.rs:236`), but `on_peer_visible` skips only peers cached as None
  (`mod.rs:243-257`): the next PeerVisible dials the denied peer.  (The exchange that
  follows consults the gate, so what is activated stays what the gate permits.)
* A heartbeat Timeout names the peer (`heartbeat.rs:117`, `mod.rs:327`).  One that a
  replaced socket left in the channel tears down its successor and announces
  peer-inactive, which `tear_down_mux_only` exists to avoid (`teardown.rs:9-11`).
* A runner publishes its sender, mux and heartbeat before it inserts the session
  (`session_runner.rs:249`).  A teardown in between finds no session to remove
  (`teardown.rs:190`), and the Active session inserted afterwards has nothing behind
  it, yet keeps `on_peer_visible` from dialling again.
* The glare check releases `peer_senders` before the runner stores its own sender
  (`session_runner.rs:104`).  Two runners of one node may both find no sender, and
  the last one to store wins, at one node the one socket and at the other one the
  other.
* The CLOSE of a denied session is never sent, because a multiplexed session owns
  no transport (`teardown.rs:227`); `send_to_peer` may evict a sender stored after the
  one it found closed (`mod.rs:297-300`), and a live socket is then one nobody can
  send on; `rebroadcast` skips every peer whose
  transport is alive (`mod.rs:435`), publishes peer-inactive before it replaces the
  record (`mod.rs:507-515`) and leaves those it does negotiate with without a mux
  (`mod.rs:511-512`); an exchange that ends in None replaces an Active session
  without a peer-inactive (`session_runner.rs:130`).

Blobs and calls:

* All writers of a hash share the file `tmp/<hash>` (`blob_store.rs:118`).  The
  second one truncates what the first has written; `finalize` compares the hash of
  the data passed to it, not of the file, and moves the truncated file to the place
  of the blob, for which `has` takes it from then on.
* An empty blob never completes (`blob.rs:277`); NOT_FOUND is announced to the
  provider's capabilities and not to the requester's (`blob.rs:582`).
* An RPC error resolves the call with an empty payload (`rpc.rs:255`), which
  `send_message` stores as "delivered".
* The notifier of messages posts to a capability "messaging", registered as
  "social.messaging" (`notification_routes.rs:24`); `forward_to_capability` posts to the
  first capability of the active set, whatever the message (`cap_notify.rs:184`).

Peers and invites:

* Of two nodes that LAN-invite each other, "lower pubkey wins" (`lan_routes.rs:240`) may
  leave different pre-shared keys at the two ends.
* Every persisted peer but those of open invites is named "pending" and overwrites
  one file; removing one forgets them all and takes down one tunnel.
* A public key is base64 and is decoded as hex, so no peer is ever assigned to the
  default group; `migrate_trust_levels` befriends a denied sole peer again at a
  restart.
* `redeem_invite` overwrites a working key before the invite is completed;
  `lan_accept` ignores the answer of `complete_invite`; a timed-out `redeem_accept`
  leaves the invite consumed and a WireGuard peer nobody stores.

Connectivity:

* The engine gives the relay handler no sender; a call whose OPEN is refused is not told
  (`relay.rs:630`); a CLOSE takes away whatever circuit has its number, also another
  node's that is younger (`relay.rs:637`; every node counts from 1); a cancelled call leaves `matchmake_counter` raised; the first call
  takes the callback away from the daemon for good.
* The STUN battery never describes WireGuard's port, which is taken, but another one
  (`stun.rs:303-308`), and never finds "open" (`stun.rs:348`).  A handshake of the last
  180 s counts as success (`punch.rs:131`), WireGuard tries at most one every 5 s, so
  most candidates of a fast punch are never probed (`punch.rs:270`), and the multiples
  of a stride wrap at 16 bits (`punch.rs:206`).
* All punches of a node write their key to one file (`punch.rs:47`).

Capabilities:

* Voice: `handle_invite` deadlocks with itself at the second invitation to a room
  (`bridge.rs:147`); a snapshot replaces the tracker and runs no hook; a reconnecting
  socket's predecessor unregisters it (`signal.rs:273`); `pending_invites` wraps below 0.
* Files: deleting one of two offerings of a blob deletes the blob; a failed download
  is a CONFLICT for ever; a blob over 50 MB is stored where no daemon looks; a
  callback is posted once, and may come before its row; cached groups outlive a
  revocation.
* Feed: a crash between a post and its rows leaves a post that reports "local"
  (`api.rs:274`); a late blob leaves its row "failed"; attachments of peers are not
  validated.

## 7. What is proved

TLAPS checks the following for every value of the constants.

* `P2pcdEngine_proofs`: `TypeCorrect`, `SendersAreVetted`,
  `SocketInUseIsWatched`.  The inductive invariant is `TypeOK`, `SetupVetted` (a
  runner that sets a session up agreed on something), `TargetsKnown` (runners,
  teardowns and heartbeat tasks are about a peer),
  `SendersVetted`, `HbHandleOwned` (the heartbeat handle stored for a peer
  belongs to one of its own sockets) and `InUseIsWatched`.  The last one
  needs the others: a teardown that aborts the task in `hbHandle` must be one for
  the peer whose sender that socket is, or the socket of another peer would be
  left unwatched.  `SerialStaysTracked` and `SerialStaysTold` are about a peer whose
  activities never overlapped, so that at most one is in progress: `Serial` says for
  every program counter of that one how far the maps may disagree, and
  `Untouched` that a step for another peer changes none of them.  `SerialStaysTold`
  has the hypothesis that every exchange finds something in common: one that ends
  in None replaces an Active session silently (section 6).
* `Session_proofs`, the exchange: `TypeCorrect`, `ExchangeAgrees`, `ResponderHasIt`,
  `BothConsented`, `NothingLoosened`, `Implements`.  The invariant `Inv` names the
  six phases a pair of ends goes through with what is on the wire in each
  (an end that failed is a phase of its own for the other).  Agreement
  follows from the commutativity of `Reconcile` and from both ends intersecting
  the same two sets; the refinement theorem is the same invariant read through
  `Outcome`.
* `Session_proofs`, glare: `GlareTypeCorrect`, `NeverLeftBare`, `YieldedIsSpare`, `BothAgree`.  The
  invariant adds to `TypeOK`: `Apart` (a held socket belongs to a runner that
  yielded, a sender to one that wired), `Decided` (a runner leaves the exchange
  only with an outcome) and `Covered` (a node for which an exchange ended has a sender or a
  runner that is about to store one).  For `BothAgree`, `Converging` follows the
  designated socket: its runners never yield and nobody replaces it, any other socket
  a node works with is one it has before the designated one's exchange has ended
  there, and a node that has wired it keeps it.
* `Connectivity_proofs`, matchmaking: `CapacityStaysHeld`, `PunchStaysTogether`,
  `NothingStaysLost` and `MatchTypeCorrect`.
  For the first, `Booked`: until two OPENs were checked together, one at a time is
  between its check and its circuit and finds the room it was promised.  For the
  second, `Traced`, until a call is disturbed: whatever bears a number, at a node, on
  a wire, in a table or in a channel, belongs to one call that has this number and
  passes that node, and is where and of the kind that this call could have put
  it (`Fits`, `Suits`): OPENs and requests go out, acceptances and exchanges come back, a
  table entry is at the node whose part it plays, a CLOSE goes out only behind an
  initiator that has been answered.  Numbers of calls that have a node in common
  differ, so an exchange that reaches a call is the one its own target sent, which
  has answered by then.  The third rests on the second: `OnItsWay` follows a call
  that waits, and says for its stage what of it is under way and that the
  rest of its way is still open - its circuit initiated, checked, stored and held (`Granted`,
  `Opening`), then its request, its task or its answer with the ends it has yet to
  reach (`Asking`).  A step about another number or at another node changes none
  of this (`Unconcerned`, with an `...Effect` lemma for each handler); each of a
  call's own steps hands it on to the next.  The types hold whatever is disturbed.
  A table replaces what has the number of what it stores, but for the OPENs a node
  waits for, whose numbers it has counted past (`Tables`); and `matchmake_counter`
  is at least the number of a node's living calls and tasks (`Counted`), so nobody
  counts it down below zero, though a cancelled call leaves it raised.
* `Connectivity_proofs`, punching: `KeysAreOwn`, `GuessesStayRight` and `EveryTurn`.
  For the first, what is known of a node where no two punches met
  at the key file: at most one punch is between writing the key and removing the
  file, the file then holds its key, and that key is the one given last.
  The second needs to know that what a punch counts with is true of its peer, although
  it was measured by another task, stored, sent and read back.  `GuessInv` follows it
  on this way: what a node has on disk (`ProfilesTrue`), has read or works with
  (`TasksTrue`) or has told (`MailsTrue`) has, when it says `symmetric`, the stride of
  a NAT that is symmetric and whose stride is not zero, and names WireGuard's port; a
  task that is asking or accepting is at the right end; a NAT that keeps ports shows
  WireGuard at its own (`OwnPort`).  The ports of a symmetric NAT go up or down
  by the stride, `Up` and `Down` give exactly the i-th of them as long as 16 bits do
  not turn round, and a usable port that is listed is a candidate (`ListedIsCandidate`
  and the lemmas before it).  `EveryTurn` is about the loop: through
  as many turns as there are candidates every candidate has one, so the right port of
  `GuessesRight` is tried if there is time for all.
* `Capabilities_proofs`, voice: `RoomsHaveMembers`, `HubStaysLive` and
  `VoiceTypeCorrect`, which is about the event stream too: an event that finds the
  bus full empties it (`PublishedType`).  The first needs that a room
  of another node is the only kind that is made without a member; the second that
  a sender in the hub is of a socket that is open, in its own room, under its
  own peer, through every replacement and late unregistration.
* `Files_proofs`: `OfferedStaysStored`, `CacheStaysFresh`, `PagesStayComplete` and
  `FilesTypeCorrect`.  The first adds to
  `OfferedIsStored` that the blob of a creation under way is stored, huge or lost; the
  second that a hook that has read, of a peer that is not behind, holds that
  peer's groups, which is why it does not matter in which order hooks finish.  For the
  third, what the reader could see when he began and has not seen lies behind
  his cursor (`WalkInv`): a step that removes nothing keeps the order of the rows
  (`OrderStep`), so no rank falls (`RankKept`), and a page is what has the
  ranks from the cursor on, each of them once (`RankOnto`, `RankInjective`).  For the
  types, there are no more rows than were made, and no more made and under way than the
  bound (`Counts`), and a cursor that is handed out is less than the number of rows.
* `Capabilities_proofs`, the feed: `FeedTypeCorrect`, `WorkedOn`, `StatusStaysTrue` and
  `FetchedOnce`, with one invariant each on top of the types: only posts of peers are fetched and an
  active row has its task; a complete row has its blob in the store or among
  those deleted since, a peer's post that is neither `unfetched` nor orphaned has its rows,
  and the owner's posts have their blobs; before any crash or deletion a task is
  the only one of its row, and its post is ingested and no longer `unfetched`.
* `BlobTransfer_proofs`: `TypeCorrect`, `StoredStaysWhole`, `CleanIsIsolated` and
  `PromiseKept`.  The invariant says what a
  message on a wire, a transfer in a table and a job of a dispatch loop may be about:
  something one of the two nodes asked of the other (`Fits`, `InOK`, `JobFits`).
  A chunk does not say which blob it is of, so the blob a loop writes is the one it
  asked that peer for only where the node's requests are apart.  Then two loops
  never write one blob (`OneWriter`), and `Disciplined` follows: a writer's file is
  at its temporary name and holds the blob by the time it is moved.  For a clean
  request (`PureInv`) every table entry, job, message and event under its id is about
  its own blob, and a transfer whose chunks all are of one blob never fails its hash
  check, hence never asks again.  For the promise, `Sourced` follows a blob on its
  way: a chunk on a wire is of a blob its sender has, for good where the copy is firm
  (`Truthful`); so are the chunks in a table and the data of a loop that found the hash
  right, at a node whose requests are apart; an event of success is about a blob the
  node has and has asked for; and a callback belongs to a request that was made under
  its id.  None of it is undone, for firm copies stay and requests are not taken back
  (`Grows`), and with it every step is one of `BlobPromise`'s or leaves its variables
  alone.
* `DirectMessages_proofs`: `TypeCorrect`, `DeliveredStaysStored` and `NoGapStays`.
  For the first property, until a daemon is restarted: every call that was
  registered has a number of its own at its sender, and whatever is on a wire, in a
  dispatch loop or in the table of waiters is about a registered call under its
  number (`Numbered`, `Carried`), so an answer that is matched by its number alone
  reaches its own call; and an answer without an error is about a stored row
  (`PacketFits`, `Answered`).  A late answer finds its waiter gone or its mailbox
  closed.  For the pages, a row that is stored anywhere, or on its way to be,
  has a positive time (`Timed`), so a page from the beginning starts at the last
  row, and times have a greatest one (`Bounded`), so there is a last row.
* `Peering_proofs`: `TypeCorrect`, `TunnelsStayAgreed`, `AddressesStayDistinct` and
  `InvitesStaySpent`, over `Typed`, which knows the place of each request in its program and what the copy
  it carries is one of.  `Undisturbed`, while `trouble` is empty: two nodes have one
  request between them at most, agree when they have none, and otherwise differ by
  what that request has yet to do at its place (`Stage`).  `Unraced` and `Distinct`,
  while no two requests rewrote a file at once: whoever is about to rewrite a file
  is the only one at its node, and its copy is what the file holds; an address is
  held by one listed peer, one pending invite or one request between the two,
  and the file of addresses knows it.  `Named`, under the same premise: every
  pre-shared key has one owner, the node that made it; a key the owner has used (it
  is on its interface, in a saved file from which a restart puts it back, or with a
  request that has taken the invite) is in no invite, and in none that is being
  made, for a job makes one invite and bears its name.  The rest of the types is
  that nobody is its own peer: a request is between two nodes (`TwoSided`), so what
  it writes into a list, a file or a group is about the other one (`Abroad`), and a
  file that is written replaces the one of its name (`OneFile`).

The assumptions are the ones the modules name: `ConnAssumption` and
`ParamAssumption` (no socket or peer is the null value, the parameters are
subsets of what they range over), `CapAssumption`, `LimitsAssumption`,
`AbsentAssumption`, `SockAssumption`, `CallAssumption` (nodes and calls differ), `PunchAssumption` and `PortAssumption` (two nodes, no
invite is the null key, ports are 16 bits and strides differences of two), `VoiceAssumption`,
`CapEventsAssumption`, `CatalogueAssumption`, `AccessAssumption`, `FilesAssumption`,
`FeedAssumption`, `ChunksAssumption` and `NamesAssumption` (a link has two ends),
`TopologyAssumption` (so has a socket), `BoundsAssumption`, `MessageAssumption` (the
messages are finitely many) and `ConstantsAssumption` (nodes are numbered from 1,
`NoJob` names no request, the bounds are numbers).
Two of them ask for at least one room and one blob, which a closed socket and a free
handler name by default.  They hold by the choice of values, not by anything the program must ensure.

Checked by TLC only: every liveness property (section 4 names them), which is out
of the prover's reach, as is anything about ENABLED or about what a recursive
definition computes for every input.  Every safety invariant a run checks is proved,
and so is the type invariant of every module that has one.

## 8. What is not modelled

* In the engine: `last_seen_sequence` (the sequence number never changes, so the
  replay guard never fires), process shutdown, friend lists (their effect is the
  outcome of an exchange), the text of events.
* In the exchange: CBOR, and extensions no configuration produces.
* In the transport: the capacity of channels, PONG sequence numbers, framing.
* In the blob transfer: `handle_blob_store` (one more writer of the same files),
  disk errors, offsets (no caller sends one), `reap_stale_transfers` (nothing
  calls it), the capacity of the event channel, sessions that reopen.
* In direct messages: read marks, previews, notifications, events without an answer.
* In peering: tokens as text, the clock (an invite may expire at any time), rate
  limits, `reclaim_address` and `set_peering_in_progress`, which nothing calls.
* In matchmaking and punching: `reap_and_notify` (nothing calls it), IPv6, reading
  the interfaces and the local network.
* In voice: mute, relayed signals, notices of other nodes, which leave no state.
* In files and feed: what a transfer does between peers (`BlobTransfer`), limits on
  sizes and texts, the front ends.
* In the access database: capability rules and renaming, which only change the gate
  of `SessionExchange`.
* Not at all: streams (nothing in the program opens one), the WireGuard polling loop
  (its events are inputs of `P2pcdEngine`, in any order), routing and authentication of
  HTTP, presence (one map entry per peer, overwritten), the small wire capabilities, the
  codec, the web UI.  `PROJECT.json` has the reasons.

## 9. Running

```
tlc -workers 2 -config Glare.cfg MCGlare.tla      # any run of PROJECT.json
tlapm Session_proofs.tla                          # any *_proofs module
```
